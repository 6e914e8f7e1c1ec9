------------------------------- MODULE Library --------------------------------
(***************************************************************************)
(* DllMain of dllmain.cpp with the log of util.cpp: the library comes and  *)
(* goes.                                                                   *)
(*                                                                         *)
(* While the process attaches the library, one thread opens the log, loads *)
(* the options (Config) and lets each feature register if its option says  *)
(* so.  After that any thread may write a line to the log.  When the       *)
(* process exits its other threads are ended wherever they are, and the    *)
(* log is closed.                                                          *)
(*                                                                         *)
(* A line is known by the bytes its text takes; LINE is the buffer it is   *)
(* formatted in.                                                           *)
(***************************************************************************)
EXTENDS Config

CONSTANTS
  Threads,      \* threads of the game that come and go
  Features,     \* the options that turn features on, in the order of DllMain
  TextWidth,    \* TextWidth[data]: bytes of an option's value in the log
  Messages,     \* bytes of the other lines
  LINE          \* bytes of the buffer in Write

ASSUME LibraryAssumption ==
  /\ Features \in Seq(Seq(Keys))
  /\ \A j \in DOMAIN Features : [path |-> Features[j], type |-> "bool"] \in Lookups
  /\ LINE \in Nat /\ Messages \subseteq Nat

VARIABLES
  stage,        \* how far DllMain has come
  asked,        \* features that have been initialised
  registered,   \* the features that registered for callbacks
  s_handle,     \* "null", "invalid" if the log could not be created, "open" or "closed"
  live,         \* threads that run
  line,         \* line[t]: the line t is writing, NoLine outside of Write
  wrote,        \* history: the handles that lines were written through
  overrun       \* history: more bytes were written than the buffer has

NoLine == -1
log == <<s_handle, wrote, overrun>>
process == <<live, line>>
library == <<stage, asked, registered, log, process>>
libraryVars == <<vars, library>>

Stages == {"log", "config", "features", "direct3d", "attached", "exiting", "detached"}
Handles == {"null", "invalid", "open", "closed"}

LibraryInit ==
  /\ Init
  /\ stage = "log"
  /\ asked = 0
  /\ registered = {}
  /\ s_handle = "null"
  /\ live = {}
  /\ line = [t \in Threads |-> NoLine]
  /\ wrote = {}
  /\ overrun = FALSE

-----------------------------------------------------------------------------
(* Logging. *)

\* WriteFile takes the length of the whole text, of which the buffer holds a
\* part and its terminator: as many bytes as the buffer has can still be read.
WriteFile(widths) ==
  /\ wrote' = wrote \cup (IF widths = {} THEN {} ELSE {s_handle})
  /\ overrun' = (overrun \/ (s_handle = "open" /\ \E width \in widths : width > LINE))
  /\ UNCHANGED s_handle

\* A call of Write that nothing interrupts.
Write(widths) == IF s_handle = "null" THEN UNCHANGED log ELSE WriteFile(widths)

\* The handle is closed but not cleared.
Close == s_handle' = (IF s_handle = "null" THEN "null" ELSE "closed")

\* Any thread: the handle is tested, the line is formatted ...
BeginWrite(t) ==
  /\ stage = "attached" /\ t \in live /\ line[t] = NoLine /\ s_handle # "null"
  /\ \E width \in Messages : line' = [line EXCEPT ![t] = width]
  /\ UNCHANGED <<vars, stage, asked, registered, log, live>>

\* ... and the handle is read again.
EndWrite(t) ==
  /\ stage = "attached" /\ t \in live /\ line[t] # NoLine
  /\ WriteFile({line[t]})
  /\ line' = [line EXCEPT ![t] = NoLine]
  /\ UNCHANGED <<vars, stage, asked, registered, live>>

-----------------------------------------------------------------------------
(* DLL_PROCESS_ATTACH.  No other thread of the process is let in meanwhile. *)

\* Without a folder for it there is no log; one that cannot be created leaves
\* a handle that is not null.
InitLog ==
  /\ stage = "log" /\ stage' = "config"
  /\ s_handle' \in {"null", "invalid", "open"}
  /\ UNCHANGED <<vars, asked, registered, wrote, overrun, process>>

OptionWidth(path) == Width(path) + TextWidth[s_options[path].data]

InitConfig ==
  /\ stage = "config"
  /\ \/ /\ Start \/ (stack # << >> /\ Visit) \/ LoadEnds
        /\ UNCHANGED log
     \/ /\ LogConfig
        /\ Write({OptionWidth(path) : path \in Logged})
  /\ stage' = IF pc' = "ready" THEN "features" ELSE "config"
  /\ UNCHANGED <<asked, registered, process>>

\* Mutant: an option that is there turns its feature on, whatever its value.
EnabledIfSet(path) == path \in DOMAIN s_options

\* GetBool
Enabled(path) == path \in DOMAIN s_options /\ s_options[path].data = "true"

\* uiscale::Init and backdrop::Init
InitFeature ==
  /\ stage = "features" /\ asked < Len(Features) /\ pc # "crashed"
  /\ LET path == Features[asked + 1] IN
     IF WrongType([path |-> path, type |-> "bool"])
     THEN pc' = "crashed" /\ UNCHANGED <<asked, registered>>
     ELSE /\ asked' = asked + 1
          /\ registered' = registered \cup (IF Enabled(path) THEN {path} ELSE {})
          /\ UNCHANGED pc
  /\ UNCHANGED <<s_options, set, doc, parser, stage, log, process>>

FeaturesDone ==
  /\ stage = "features" /\ asked = Len(Features)
  /\ stage' = "direct3d"
  /\ UNCHANGED <<vars, asked, registered, log, process>>

\* dx::Init may log an error; in the end the timer logs how long it all took.
InitDirect3D ==
  /\ stage = "direct3d" /\ stage' = "attached"
  /\ \E width \in Messages : Write({width})
  /\ UNCHANGED <<vars, asked, registered, process>>

-----------------------------------------------------------------------------
(* The rest of the process. *)

\* DLL_THREAD_ATTACH
ThreadStarts(t) ==
  /\ stage = "attached" /\ t \notin live
  /\ live' = live \cup {t}
  /\ UNCHANGED <<vars, stage, asked, registered, log, line>>

\* Mutant: the case falls into that of the process.
ThreadEndsCloses(t) ==
  /\ stage = "attached" /\ t \in live /\ line[t] = NoLine
  /\ live' = live \ {t}
  /\ Close
  /\ UNCHANGED <<vars, stage, asked, registered, wrote, overrun, line>>

\* DLL_THREAD_DETACH
ThreadEnds(t) ==
  /\ stage = "attached" /\ t \in live /\ line[t] = NoLine
  /\ live' = live \ {t}
  /\ UNCHANGED <<vars, stage, asked, registered, log, line>>

\* A feature reads an option.
ReadOption(t) ==
  /\ stage = "attached" /\ t \in live /\ line[t] = NoLine
  /\ Read
  /\ UNCHANGED library

\* The process ends every thread but one, which may be writing a line no more.
Exit ==
  /\ stage = "attached" /\ stage' = "exiting"
  /\ live' = {}
  /\ line' = [t \in Threads |-> NoLine]
  /\ UNCHANGED <<vars, asked, registered, log>>

\* DLL_PROCESS_DETACH
Detach ==
  /\ stage = "exiting" /\ stage' = "detached"
  /\ Close
  /\ UNCHANGED <<vars, asked, registered, wrote, overrun, process>>

Attach == InitLog \/ InitConfig \/ InitFeature \/ FeaturesDone \/ InitDirect3D

LibraryNext ==
  /\ pc # "crashed"
  /\ \/ Attach \/ Exit \/ Detach
     \/ \E t \in Threads :
          BeginWrite(t) \/ EndWrite(t) \/ ReadOption(t) \/ ThreadStarts(t) \/ ThreadEnds(t)

LibrarySpec ==
  LibraryInit /\ [][LibraryNext]_libraryVars /\ WF_libraryVars(pc # "crashed" /\ Attach)

-----------------------------------------------------------------------------
(* Correctness. *)

\* The features that run are those the file turns on, or the defaults where it
\* is silent or broken: nothing is read before the file has been
\* (dllmain.cpp:153-155, 298-302, 401-410).
FeaturesAsConfigured ==
  stage = "attached" =>
    LET options == IF doc = NoDocument THEN Default ELSE Over(Written(doc), Default)
    IN registered = {path \in ToSet(Features) :
                       path \in DOMAIN options /\ options[path].data = "true"}

\* No line is written through the handle of a closed log, although Write reads
\* the handle again after the test and Close does not clear it: whoever could
\* write is gone by then (util.cpp:28-33, 38-48; dllmain.cpp:414-420).
LogOpenWhenWritten == "closed" \notin wrote

\* The library lets the process go on, whatever the file holds, or fails at an
\* option of the wrong type: every visit comes back from its tables and arrays
\* (dllmain.cpp:399-412, config.cpp:109-146).
AttachEnds == <>(stage = "attached" \/ pc = "crashed")

\* The log shows the options and "the possible file names" (README.md:49-52):
\* what is written of a line is its text and nothing that follows the buffer.
LinesInBuffer == ~overrun
=============================================================================
