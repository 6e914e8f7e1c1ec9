------------------------------- MODULE UiScale -------------------------------
(***************************************************************************)
(* dllmain.cpp, namespace uiscale: overriding the scale mode of UI clips.  *)
(*                                                                         *)
(* When a device is created, MovieSetViewScaleMode is injected into the    *)
(* virtual table of Scaleform's Movie (VfTable), which the code of the     *)
(* game leads to (CodeScan).  It looks the clip up in the options and      *)
(* passes the mode on to the original method.                              *)
(***************************************************************************)
EXTENDS VfTable, CodeScan

CONSTANTS
  Files,      \* file names of clips
  Option,     \* Option[f]: the text of UiScale.f, NotSet without that option
  NotSet,
  Images      \* Images[i]: an executable, with the table it really has: movie

ASSUME ImagesAssumption == \A i \in DOMAIN Images : MovieIsFirst(Images[i])

s_names == <<"NoScale", "ShowAll", "ExactFit", "NoBorder">>
Count == Len(s_names)
Modes == 0 .. Count - 1

VARIABLES
  file,     \* file[t]: the clip of the call of t
  asked,    \* asked[t]: the mode the game asks for
  passed,   \* passed[t]: the mode handed on so far, at last to the original
  image,    \* which executable it is
  table     \* the virtual table that was located last, Unknown before

movie == <<file, asked, passed>>
scan == <<image, table>>
uiVars == <<vars, movie, scan>>

Unknown == -1

UiInit ==
  /\ Init
  /\ file = [t \in Threads |-> CHOOSE f \in Files : TRUE]
  /\ asked = [t \in Threads |-> 0]
  /\ passed = [t \in Threads |-> 0]
  /\ image \in DOMAIN Images
  /\ table = Unknown

\* The index of a name, or Count.
ViewScaleFromName(name) ==
  IF \E i \in Modes : s_names[i + 1] = name
  THEN CHOOSE i \in Modes : s_names[i + 1] = name
  ELSE Count

\* Mutant: the option is applied only over the default mode 0.
NewModeIfDefault(f, mode) ==
  IF Option[f] # NotSet /\ mode = 0 THEN ViewScaleFromName(Option[f]) ELSE mode

NewMode(f, mode) ==
  IF Option[f] # NotSet THEN ViewScaleFromName(Option[f]) ELSE mode

SetViewScaleMode(t) ==
  /\ Call(t)
  /\ \E f \in Files, mode \in Modes :
       /\ file' = [file EXCEPT ![t] = f]
       /\ asked' = [asked EXCEPT ![t] = mode]
       /\ passed' = [passed EXCEPT ![t] = mode]
  /\ UNCHANGED scan

\* Mutant: nothing is called for a clip without an option.
MovieSetViewScaleModeIfSet(t) ==
  /\ IF Option[file[t]] # NotSet THEN CallPrev(t)
     ELSE Goto(t, "hook", "return") /\ UNCHANGED <<slot, injector, depth, reached>>
  /\ passed' = [passed EXCEPT ![t] = NewMode(file[t], @)]
  /\ UNCHANGED <<file, asked, scan>>

MovieSetViewScaleMode(t) ==
  /\ CallPrev(t)
  /\ passed' = [passed EXCEPT ![t] = NewMode(file[t], @)]
  /\ UNCHANGED <<file, asked, scan>>

\* Without a table nothing is injected.  Injections bounds the devices.
OnDeviceCreate ==
  /\ inject = "idle" /\ injected < Injections
  /\ table' = MovieTable(Images[image])
  /\ IF table' # NotFound THEN Unprotect ELSE UNCHANGED vars
  /\ UNCHANGED <<movie, image>>

InjectMovie == (SavePrev \/ Publish) /\ UNCHANGED <<movie, scan>>

MovieStep(t) ==
  \/ MovieSetViewScaleMode(t)
  \/ (RunOriginal(t) \/ Return(t)) /\ UNCHANGED <<movie, scan>>

UiNext ==
  /\ Alive
  /\ \/ OnDeviceCreate \/ InjectMovie
     \/ \E t \in Threads : SetViewScaleMode(t) \/ MovieStep(t)

UiSpec ==
  /\ UiInit /\ [][UiNext]_uiVars
  /\ \A t \in Threads : WF_uiVars(Alive /\ MovieStep(t))

-----------------------------------------------------------------------------
(* Correctness. *)

\* A thread that came through the injected entry hands on the mode that the
\* option names; one that came before the injection, or whose clip has no
\* option, the mode the game asked for (dllmain.cpp:89-108).
ModeAsConfigured ==
  \A t \in Threads : pc[t] = "return" =>
    IF depth[t] > 0 /\ Option[file[t]] # NotSet
    THEN s_names[passed[t] + 1] = Option[file[t]]
    ELSE passed[t] = asked[t]

\* Whatever else the executable holds - code that differs from the constructor
\* in one byte, other displacements, a copy outside of .text - the method is
\* injected into the virtual table of Movie, and nowhere if there is none
\* (hooks.cpp:68-78, 249-288; dllmain.cpp:110-143).
InjectsMovie == table # Unknown => table = Images[image].movie

\* What is done to the modes leaves the protocol of the table entry as it is
\* (hooks.cpp:222-237).
ImplementsVfTable == Spec

\* "Using default scale mode": an option that names no mode leaves the mode the
\* game asked for (dllmain.cpp:101-107).
UnknownNameKeepsMode ==
  \A t \in Threads :
    pc[t] = "return" /\ ViewScaleFromName(Option[file[t]]) = Count =>
      passed[t] = asked[t]
=============================================================================
