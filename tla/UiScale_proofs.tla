---------------------------- MODULE UiScale_proofs ----------------------------
(***************************************************************************)
(* Proofs about VfTable and UiScale.  With a single injection, the protocol *)
(* that hooks.cpp follows is safe for any number of threads that call the  *)
(* method and however many calls they make.  The UI scale feature follows  *)
(* it, and passes on the configured mode.                                  *)
(***************************************************************************)
EXTENDS UiScale, WellFoundedInduction, TLAPS

(* The table entry. *)

\* Where Inject stands determines both pointers.
Protocol ==
  /\ inject # "idle" \/ entry = "hook" => injected = 1
  /\ inject # "idle" => entry = "original"
  /\ inject = "publish" \/ entry = "hook" => prev = "original"

\* A call in the replacement came through the entry; no call has been in the
\* original before it gets there.
Progress ==
  \A t \in Threads :
    /\ pc[t] = "hook" => entry = "hook"
    /\ pc[t] \in {"hook", "original"} => reached[t] = 0
    /\ pc[t] # "crashed"

IInv == TypeOK /\ Protocol /\ Progress /\ OriginalOnce

-----------------------------------------------------------------------------
\* Nothing is injected at first.
LEMMA InitIInv == Init => IInv
  BY VfTableAssumption
  DEF VfTableAssumption, Init, IInv, TypeOK, Protocol, Progress, OriginalOnce

\* Every step keeps the inductive invariant as long as a second injection does
\* not put the replacement behind itself.
LEMMA NextIInv == ASSUME Injections <= 1, IInv, [Next]_vars PROVE IInv'
<1> USE VfTableAssumption
    DEF VfTableAssumption, TypeOK, slot, injector, calls
<1>1. ASSUME Unprotect PROVE IInv'
  <2>1. TypeOK'
    BY <1>1 DEF IInv, Unprotect
  <2>2. Protocol'
    BY <1>1 DEF IInv, Protocol, Unprotect
  <2>3. Progress' /\ OriginalOnce'
    BY <1>1 DEF IInv, Progress, OriginalOnce, Unprotect
  <2> QED
    BY <2>1, <2>2, <2>3 DEF IInv
<1>2. ASSUME SavePrev PROVE IInv'
  <2>1. TypeOK'
    BY <1>2 DEF IInv, SavePrev
  <2>2. Protocol'
    BY <1>2 DEF IInv, Protocol, SavePrev
  <2>3. Progress' /\ OriginalOnce'
    BY <1>2 DEF IInv, Progress, OriginalOnce, SavePrev
  <2> QED
    BY <2>1, <2>2, <2>3 DEF IInv
<1>3. ASSUME Publish PROVE IInv'
  <2>1. TypeOK'
    BY <1>3 DEF IInv, Publish
  <2>2. Protocol'
    BY <1>3 DEF IInv, Protocol, Publish
  <2>3. Progress' /\ OriginalOnce'
    BY <1>3 DEF IInv, Progress, OriginalOnce, Publish
  <2> QED
    BY <2>1, <2>2, <2>3 DEF IInv
<1>4. ASSUME NEW t \in Threads, Call(t) PROVE IInv'
  <2>1. TypeOK'
    BY <1>4 DEF IInv, Call, Goto
  <2>2. Protocol'
    BY <1>4 DEF IInv, Protocol, Call
  <2>3. Progress' /\ OriginalOnce'
    BY <1>4 DEF IInv, Progress, OriginalOnce, Call, Goto
  <2> QED
    BY <2>1, <2>2, <2>3 DEF IInv
<1>5. ASSUME NEW t \in Threads, CallPrev(t) PROVE IInv'
  <2>1. Callee(t) = "original"
    BY <1>5 DEF IInv, Protocol, Progress, CallPrev, Callee, Goto
  <2>2. TypeOK'
    BY <1>5, <2>1 DEF IInv, CallPrev, Goto
  <2>3. Protocol'
    BY <1>5 DEF IInv, Protocol, CallPrev
  <2>4. Progress' /\ OriginalOnce'
    BY <1>5, <2>1 DEF IInv, Progress, OriginalOnce, CallPrev, Goto
  <2> QED
    BY <2>2, <2>3, <2>4 DEF IInv
<1>6. ASSUME NEW t \in Threads, RunOriginal(t) PROVE IInv'
  <2>1. reached[t] = 0
    BY <1>6 DEF IInv, Progress, RunOriginal, Goto
  <2>2. TypeOK'
    BY <1>6, <2>1 DEF IInv, RunOriginal, Goto
  <2>3. Protocol'
    BY <1>6 DEF IInv, Protocol, RunOriginal
  <2>4. Progress' /\ OriginalOnce'
    BY <1>6, <2>1 DEF IInv, Progress, OriginalOnce, RunOriginal, Goto
  <2> QED
    BY <2>2, <2>3, <2>4 DEF IInv
<1>7. ASSUME NEW t \in Threads, Return(t) PROVE IInv'
  <2>1. TypeOK'
    BY <1>7 DEF IInv, Return, Goto
  <2>2. Protocol'
    BY <1>7 DEF IInv, Protocol, Return
  <2>3. Progress' /\ OriginalOnce'
    BY <1>7 DEF IInv, Progress, OriginalOnce, Return, Goto
  <2> QED
    BY <2>1, <2>2, <2>3 DEF IInv
<1>8. CASE UNCHANGED vars
  BY <1>8 DEF IInv, Protocol, Progress, OriginalOnce, vars
<1> QED
  BY <1>1, <1>2, <1>3, <1>4, <1>5, <1>6, <1>7, <1>8 DEF Next, Inject, Step

\* The inductive invariant always holds with at most one injection.
THEOREM Invariance == ASSUME Injections <= 1 PROVE Spec => []IInv
<1>1. ASSUME IInv, [Next]_vars PROVE IInv'
  BY <1>1, NextIInv
<1> QED
  BY InitIInv, <1>1, PTL DEF Spec

-----------------------------------------------------------------------------
\* The entry never leads to the replacement before the original is saved, for
\* any number of threads: this is what the order of the two exchanges in Inject
\* is for.
THEOREM Reaches == ASSUME Injections <= 1 PROVE Spec => []HookReachesOriginal
<1>1. IInv => HookReachesOriginal
  BY DEF IInv, Protocol, Progress, HookReachesOriginal
<1> QED
  BY <1>1, Invariance, PTL

\* No call of the method, injected or not, comes back without having been in
\* the original exactly once.
THEOREM Once == ASSUME Injections <= 1 PROVE Spec => []OriginalOnce
<1>1. IInv => OriginalOnce
  BY DEF IInv
<1> QED
  BY <1>1, Invariance, PTL

\* No call goes through a null pointer or overflows the stack.
THEOREM Survives == ASSUME Injections <= 1 PROVE Spec => []Alive
<1>1. IInv => Alive
  BY DEF IInv, Progress, Alive
<1> QED
  BY <1>1, Invariance, PTL

-----------------------------------------------------------------------------
(* No call goes round and round, even when the replacement calls itself. *)

\* How many steps a call takes at most until it comes back or crashes: one for
\* each frame of the replacement that still fits on the stack, and what follows.
ToReturn(t) ==
  CASE pc[t] = "return" -> 1
    [] pc[t] = "original" -> 2
    [] pc[t] = "hook" -> 3 + (StackDepth - depth[t])
    [] OTHER -> 0

\* Each step of a call brings it nearer to its end, and nothing that other calls
\* and injections do takes it away from it.
WaitFree ==
  [][\A t \in Threads :
       /\ Step(t) => ToReturn(t)' \in 0 .. ToReturn(t) - 1
       /\ pc[t] # "idle" => ToReturn(t)' <= ToReturn(t)]_vars

FramesInv ==
  /\ entry \in {"original", "hook"} /\ prev \in {"null", "original", "hook"}
  /\ pc \in [Threads -> {"idle", "hook", "original", "return", "crashed"}]
  /\ depth \in [Threads -> 0 .. StackDepth]

LEMMA InitFrames == Init => FramesInv
BY VfTableAssumption DEF VfTableAssumption, Init, FramesInv

LEMMA NextFrames ==
  ASSUME FramesInv, [Next]_vars
  PROVE  /\ FramesInv'
         /\ \A t \in Threads :
              /\ Step(t) => ToReturn(t)' \in 0 .. ToReturn(t) - 1
              /\ pc[t] # "idle" => ToReturn(t)' <= ToReturn(t)
<1>1. /\ StackDepth \in Nat \ {0}
      /\ \A t \in Threads : depth[t] \in 0 .. StackDepth /\ ToReturn(t) \in Nat
  BY VfTableAssumption DEF VfTableAssumption, FramesInv, ToReturn
<1>2. ASSUME NEW u \in Threads, Step(u)
      PROVE  /\ FramesInv' /\ ToReturn(u)' \in 0 .. ToReturn(u) - 1
             /\ \A t \in Threads \ {u} : ToReturn(t)' = ToReturn(t)
  <2>1. CASE CallPrev(u)
    <3>1. /\ pc[u] = "hook" /\ pc' = [pc EXCEPT ![u] = Callee(u)]
          /\ depth' = [depth EXCEPT ![u] = IF Callee(u) = "hook" THEN depth[u] + 1 ELSE depth[u]]
          /\ UNCHANGED <<entry, prev>>
      BY <2>1 DEF CallPrev, Goto, FramesInv, slot
    <3>2. CASE Callee(u) = "hook"
      <4>1. depth[u] # StackDepth
        BY <3>2 DEF Callee, FramesInv
      <4> QED
        BY <1>1, <3>1, <3>2, <4>1 DEF FramesInv, ToReturn
    <3>3. CASE Callee(u) \in {"crashed", "original"}
      BY <1>1, <3>1, <3>3 DEF FramesInv, ToReturn
    <3> QED
      BY <3>2, <3>3 DEF Callee, FramesInv
  <2>2. CASE RunOriginal(u) \/ Return(u)
    BY <1>1, <2>2 DEF RunOriginal, Return, Goto, FramesInv, ToReturn, slot
  <2> QED
    BY <1>2, <2>1, <2>2 DEF Step
<1>3. CASE \E u \in Threads : Step(u)
  <2>1. PICK u \in Threads : Step(u)
    BY <1>3
  <2> SUFFICES ASSUME NEW t \in Threads
               PROVE  /\ FramesInv'
                      /\ Step(t) => ToReturn(t)' \in 0 .. ToReturn(t) - 1
                      /\ pc[t] # "idle" => ToReturn(t)' <= ToReturn(t)
    BY <1>2, <2>1
  <2>2. Step(t) => ToReturn(t)' \in 0 .. ToReturn(t) - 1
    BY <1>2
  <2>3. CASE t = u
    <3>1. ToReturn(t)' \in 0 .. ToReturn(t) - 1
      BY <1>2, <2>1, <2>3
    <3> QED
      BY <1>1, <1>2, <2>1, <2>2, <3>1
  <2>4. CASE t # u
    <3>1. ToReturn(t)' = ToReturn(t)
      BY <1>2, <2>1, <2>4
    <3> QED
      BY <1>1, <1>2, <2>1, <2>2, <3>1
  <2> QED
    BY <2>3, <2>4
<1>4. CASE \E u \in Threads : Call(u)
  <2>1. PICK u \in Threads : Call(u)
    BY <1>4
  <2>2. FramesInv'
    BY <1>1, <2>1 DEF Call, Goto, FramesInv, slot
  <2>3. \A t \in Threads : pc[t] # "idle" => ToReturn(t)' = ToReturn(t)
    BY <2>1 DEF Call, Goto, FramesInv, ToReturn
  <2>4. \A t \in Threads : Step(t) => ToReturn(t)' \in 0 .. ToReturn(t) - 1
    BY <1>2
  <2> QED
    BY <1>1, <2>2, <2>3, <2>4
<1>5. CASE Inject \/ UNCHANGED vars
  <2>1. FramesInv' /\ \A t \in Threads : ToReturn(t)' = ToReturn(t)
    BY <1>5 DEF Inject, Unprotect, SavePrev, Publish, vars, slot, calls, FramesInv, ToReturn
  <2>2. \A t \in Threads : Step(t) => ToReturn(t)' \in 0 .. ToReturn(t) - 1
    BY <1>2
  <2> QED
    BY <1>1, <2>1, <2>2
<1> QED
  BY <1>3, <1>4, <1>5 DEF Next

\* However often the method is injected while it is called, a call of it ends after
\* at most as many steps as frames of the replacement fit on the stack, and three:
\* with a return, or, after a second injection, possibly with a crash
\* (hooks.cpp:222-237, dllmain.cpp:107, 237).
THEOREM Ends == Spec => WaitFree
<1>1. ASSUME FramesInv, [Next]_vars
      PROVE  [\A t \in Threads :
                /\ Step(t) => ToReturn(t)' \in 0 .. ToReturn(t) - 1
                /\ pc[t] # "idle" => ToReturn(t)' <= ToReturn(t)]_vars
  BY <1>1, NextFrames
<1>2. FramesInv /\ [Next]_vars => FramesInv'
  BY NextFrames
<1> QED
  BY <1>1, <1>2, InitFrames, PTL DEF Spec, WaitFree

-----------------------------------------------------------------------------
(* The feature. *)

\* Every step of the feature is one of the table entry or leaves it alone.
LEMMA FeatureStep == ASSUME [UiNext]_uiVars PROVE [Next]_vars
<1>1. CASE OnDeviceCreate /\ Alive
  BY <1>1 DEF OnDeviceCreate, Next, Inject
<1>2. CASE InjectMovie /\ Alive
  BY <1>2 DEF InjectMovie, Next, Inject
<1>3. ASSUME NEW t \in Threads, SetViewScaleMode(t), Alive PROVE [Next]_vars
  BY <1>3 DEF SetViewScaleMode, Next
<1>4. ASSUME NEW t \in Threads, MovieStep(t), Alive PROVE [Next]_vars
  BY <1>4 DEF MovieStep, MovieSetViewScaleMode, Next, Step
<1>5. CASE UNCHANGED uiVars
  BY <1>5 DEF uiVars
<1> QED
  BY <1>1, <1>2, <1>3, <1>4, <1>5 DEF UiNext

\* What is done to the modes leaves the protocol of the table entry as it is,
\* for any number of injections: the safety part of ImplementsVfTable
\* (hooks.cpp:222-237, dllmain.cpp:89-143).
THEOREM Protects == UiSpec => Init /\ [][Next]_vars
<1>1. UiInit => Init
  BY DEF UiInit
<1>2. [UiNext]_uiVars => [Next]_vars
  BY FeatureStep
<1> QED
  BY <1>1, <1>2, PTL DEF UiSpec

\* In the feature, too, each call of the method comes to its end
\* (dllmain.cpp:89-108).
THEOREM MovieEnds == UiSpec => WaitFree
<1>1. ASSUME FramesInv, [UiNext]_uiVars
      PROVE  /\ FramesInv'
             /\ [\A t \in Threads :
                   /\ Step(t) => ToReturn(t)' \in 0 .. ToReturn(t) - 1
                   /\ pc[t] # "idle" => ToReturn(t)' <= ToReturn(t)]_vars
  BY <1>1, FeatureStep, NextFrames
<1>2. UiInit => FramesInv
  BY InitFrames DEF UiInit
<1> QED
  BY <1>1, <1>2, PTL DEF UiSpec, WaitFree

\* The inductive invariant of the table entry holds in the feature.
LEMMA MovieInvariance == ASSUME Injections <= 1 PROVE UiSpec => []IInv
<1>1. ASSUME IInv, [UiNext]_uiVars PROVE IInv'
  BY <1>1, FeatureStep, NextIInv
<1>2. UiInit => IInv
  BY InitIInv DEF UiInit
<1> QED
  BY <1>1, <1>2, PTL DEF UiSpec

\* In the feature, too, the replacement finds the original behind prev
\* (hooks.cpp:232-233).
THEOREM MovieReaches == ASSUME Injections <= 1 PROVE UiSpec => []HookReachesOriginal
<1>1. IInv => HookReachesOriginal
  BY DEF IInv, Protocol, Progress, HookReachesOriginal
<1> QED
  BY <1>1, MovieInvariance, PTL

\* In the feature, too, a call comes back after one run of the original
\* (dllmain.cpp:107).
THEOREM MovieOnce == ASSUME Injections <= 1 PROVE UiSpec => []OriginalOnce
<1>1. IInv => OriginalOnce
  BY DEF IInv
<1> QED
  BY <1>1, MovieInvariance, PTL

-----------------------------------------------------------------------------
(* The modes. *)

Labels == {"idle", "hook", "original", "return", "crashed"}

\* The mode is changed when the replacement passes the call on, and a second run
\* of the replacement changes it no more.
ModeInv ==
  /\ entry \in {"original", "hook"} /\ prev \in {"null", "original", "hook"}
  /\ pc \in [Threads -> Labels] /\ depth \in [Threads -> Nat]
  /\ asked \in [Threads -> Modes] /\ file \in [Threads -> Files]
  /\ DOMAIN passed = Threads
  /\ \A t \in Threads :
       /\ pc[t] = "hook" =>
            depth[t] > 0 /\ passed[t] \in {asked[t], NewMode(file[t], asked[t])}
       /\ pc[t] \in {"original", "return"} =>
            passed[t] = IF depth[t] > 0 THEN NewMode(file[t], asked[t]) ELSE asked[t]

\* Applying the option twice is applying it once.
LEMMA NewModeTwice ==
  ASSUME NEW clip, NEW mode
  PROVE  NewMode(clip, NewMode(clip, mode)) = NewMode(clip, mode)
BY DEF NewMode

LEMMA InitModeInv == ASSUME Files # {} PROVE UiInit => ModeInv
<1> SUFFICES ASSUME UiInit PROVE ModeInv
  OBVIOUS
<1>1. (CHOOSE clip \in Files : TRUE) \in Files
  OBVIOUS
<1>2. 0 \in Modes
  BY DEF Modes, Count, s_names
<1> QED
  BY <1>1, <1>2 DEF UiInit, Init, ModeInv, Labels

\* Every step passes on the mode that is due, whatever is behind the entry.
LEMMA NextModeInv == ASSUME ModeInv, [UiNext]_uiVars PROVE ModeInv'
<1> USE DEF ModeInv, slot, injector, calls, movie, Labels
<1>1. CASE OnDeviceCreate
  BY <1>1 DEF OnDeviceCreate, Unprotect, vars
<1>2. CASE InjectMovie
  BY <1>2 DEF InjectMovie, SavePrev, Publish
<1>3. ASSUME NEW t \in Threads, SetViewScaleMode(t) PROVE ModeInv'
  BY <1>3 DEF SetViewScaleMode, Call, Goto
<1>4. ASSUME NEW t \in Threads, MovieSetViewScaleMode(t) PROVE ModeInv'
  <2>1. /\ pc[t] = "hook" /\ pc' = [pc EXCEPT ![t] = Callee(t)]
        /\ depth' = [depth EXCEPT ![t] = IF Callee(t) = "hook" THEN @ + 1 ELSE @]
        /\ passed' = [passed EXCEPT ![t] = NewMode(file[t], @)]
        /\ UNCHANGED <<entry, prev, asked, file>>
    BY <1>4 DEF MovieSetViewScaleMode, CallPrev, Goto
  <2>2. Callee(t) \in Labels \ {"idle", "return"}
    BY DEF Callee
  <2>3. passed'[t] = NewMode(file[t], asked[t])
    BY <2>1, NewModeTwice
  <2>4. depth'[t] \in Nat /\ depth'[t] > 0
    BY <2>1
  <2> HIDE DEF Labels
  <2> QED
    BY <2>1, <2>2, <2>3, <2>4 DEF NewMode
<1>5. ASSUME NEW t \in Threads, RunOriginal(t) /\ UNCHANGED movie PROVE ModeInv'
  BY <1>5 DEF RunOriginal, Goto
<1>6. ASSUME NEW t \in Threads, Return(t) /\ UNCHANGED movie PROVE ModeInv'
  BY <1>6 DEF Return, Goto
<1>7. CASE UNCHANGED uiVars
  BY <1>7 DEF uiVars, vars
<1> QED
  BY <1>1, <1>2, <1>3, <1>4, <1>5, <1>6, <1>7 DEF UiNext, MovieStep

\* Every option names a mode.
NamesKnown == \A clip \in Files : Option[clip] # NotSet => ViewScaleFromName(Option[clip]) # Count

\* If the options name modes, a call that came through the injected entry hands
\* on the mode of its clip's option, and every other call the mode that the game
\* asked for, for any clips, threads and injections (dllmain.cpp:89-108).
THEOREM Configured ==
  ASSUME Files # {}, NamesKnown PROVE UiSpec => []ModeAsConfigured
<1>1. ModeInv => ModeAsConfigured
  <2> SUFFICES ASSUME ModeInv, NEW t \in Threads, pc[t] = "return"
               PROVE  IF depth[t] > 0 /\ Option[file[t]] # NotSet
                      THEN s_names[passed[t] + 1] = Option[file[t]]
                      ELSE passed[t] = asked[t]
    BY DEF ModeAsConfigured
  <2>1. file[t] \in Files
    BY DEF ModeInv
  <2>2. passed[t] = IF depth[t] > 0 THEN NewMode(file[t], asked[t]) ELSE asked[t]
    BY DEF ModeInv
  <2>3. CASE depth[t] > 0 /\ Option[file[t]] # NotSet
    <3>1. passed[t] = ViewScaleFromName(Option[file[t]])
      BY <2>2, <2>3 DEF NewMode
    <3>2. ViewScaleFromName(Option[file[t]]) # Count
      BY <2>1, <2>3 DEF NamesKnown
    <3>3. \E i \in Modes : s_names[i + 1] = Option[file[t]]
      BY <3>2 DEF ViewScaleFromName
    <3> QED
      BY <2>3, <3>1, <3>3 DEF ViewScaleFromName
  <2>4. CASE ~(depth[t] > 0 /\ Option[file[t]] # NotSet)
    BY <2>2, <2>4 DEF NewMode
  <2> QED
    BY <2>3, <2>4
<1>2. ASSUME ModeInv, [UiNext]_uiVars PROVE ModeInv'
  BY <1>2, NextModeInv
<1> QED
  BY <1>1, <1>2, InitModeInv, PTL DEF UiSpec
-----------------------------------------------------------------------------
(* The search for the table. *)

\* A set of natural numbers has a least one.
LEMMA LeastNat ==
  ASSUME NEW S, S \subseteq Nat, S # {}
  PROVE  \E x \in S : \A y \in S : x <= y
<1>1. IsWellFoundedOn(OpToRel(<, Nat), Nat)
  BY NatLessThanWellFounded
<1>2. PICK x \in S : \A y \in S : ~(<<y, x>> \in OpToRel(<, Nat))
  BY <1>1, WFMin
<1>3. ASSUME NEW y \in S PROVE x <= y
  <2>1. x \in Nat /\ y \in Nat /\ <<y, x>> \in Nat \X Nat
    OBVIOUS
  <2>2. ~(y < x)
    BY <1>2, <2>1 DEF OpToRel
  <2> QED
    BY <2>1, <2>2
<1> QED
  BY <1>3

Instructions ==
  {"sub rsp", "xor ebp", "lea rax", "lea r14", "mov [rcx], r14", "mov [rcx+8]",
   "mov [rcx+18h], rbp", "mov [rcx], rax"}

\* What a byte of a pattern or of the code may be.
Parts(exe) == (Instructions \X Nat) \cup {Wild} \cup {exe.byte[a] : a \in Int}

\* A pattern and the code at an address p with the same instructions, in which the
\* masked bytes are whatever is there.
Aligned(exe, p, pattern, code) ==
  /\ pattern \in Seq(Parts(exe)) /\ code \in Seq(Parts(exe)) /\ Len(pattern) = Len(code)
  /\ \A i \in 1 .. Len(code) :
       IF pattern[i] = Wild THEN code[i] = exe.byte[p + i - 1] ELSE code[i] = pattern[i]

\* Sequences that are put together.
LEMMA Together ==
  ASSUME NEW S, NEW s \in Seq(S), NEW t \in Seq(S)
  PROVE  /\ s \o t \in Seq(S) /\ Len(s \o t) = Len(s) + Len(t)
         /\ \A i \in 1 .. Len(s) + Len(t) : (s \o t)[i] = IF i <= Len(s) THEN s[i] ELSE t[i - Len(s)]
<1>1. s \o t \in Seq(S) /\ Len(s \o t) = Len(s) + Len(t)
  OBVIOUS
<1>2. \A i \in 1 .. Len(s) + Len(t) : (s \o t)[i] = IF i <= Len(s) THEN s[i] ELSE t[i - Len(s)]
  OBVIOUS
<1> QED
  BY <1>1, <1>2

\* Code and pattern are put together part by part.
LEMMA AlignedParts ==
  ASSUME NEW exe, NEW p \in Int, NEW pattern, NEW code, Aligned(exe, p, pattern, code),
         NEW more, NEW moreCode, Aligned(exe, p + Len(code), more, moreCode)
  PROVE  Aligned(exe, p, pattern \o more, code \o moreCode)
<1> DEFINE n == Len(code)
           m == Len(moreCode)
<1>1. /\ pattern \in Seq(Parts(exe)) /\ code \in Seq(Parts(exe)) /\ Len(pattern) = n
      /\ more \in Seq(Parts(exe)) /\ moreCode \in Seq(Parts(exe)) /\ Len(more) = m
      /\ n \in Nat /\ m \in Nat
  BY DEF Aligned
<1>2. /\ pattern \o more \in Seq(Parts(exe)) /\ Len(pattern \o more) = n + m
      /\ \A i \in 1 .. n + m : (pattern \o more)[i] = IF i <= n THEN pattern[i] ELSE more[i - n]
  <2>1. /\ pattern \o more \in Seq(Parts(exe)) /\ Len(pattern \o more) = Len(pattern) + Len(more)
        /\ \A i \in 1 .. Len(pattern) + Len(more) :
             (pattern \o more)[i] = IF i <= Len(pattern) THEN pattern[i] ELSE more[i - Len(pattern)]
    BY <1>1, Together, Zenon
  <2> HIDE DEF n, m
  <2> QED
    BY <1>1, <2>1
<1>3. /\ code \o moreCode \in Seq(Parts(exe)) /\ Len(code \o moreCode) = n + m
      /\ \A i \in 1 .. n + m : (code \o moreCode)[i] = IF i <= n THEN code[i] ELSE moreCode[i - n]
  BY <1>1, Together, Zenon
<1>4. ASSUME NEW i \in 1 .. n + m
      PROVE  IF (pattern \o more)[i] = Wild THEN (code \o moreCode)[i] = exe.byte[p + i - 1]
             ELSE (code \o moreCode)[i] = (pattern \o more)[i]
  <2>1. CASE i <= n
    <3>1. i \in 1 .. Len(code)
      BY <1>1, <2>1
    <3>2. (pattern \o more)[i] = pattern[i] /\ (code \o moreCode)[i] = code[i]
      BY <1>2, <1>3, <2>1
    <3> QED
      BY <3>1, <3>2 DEF Aligned
  <2>2. CASE ~(i <= n)
    <3> DEFINE k == i - n
    <3>1. k \in 1 .. Len(moreCode) /\ (p + n) + k - 1 = p + i - 1
      BY <1>1, <2>2
    <3>2. (pattern \o more)[i] = more[k] /\ (code \o moreCode)[i] = moreCode[k]
      BY <1>2, <1>3, <2>2
    <3> HIDE DEF k
    <3>3. IF more[k] = Wild THEN moreCode[k] = exe.byte[(p + n) + k - 1] ELSE moreCode[k] = more[k]
      BY <3>1 DEF Aligned
    <3> QED
      BY <3>1, <3>2, <3>3
  <2> QED
    BY <2>1, <2>2
<1> QED
  BY <1>1, <1>2, <1>3, <1>4 DEF Aligned

\* An instruction is compared byte by byte.
LEMMA AlignedCode ==
  ASSUME NEW exe, NEW p \in Int, NEW instruction \in Instructions, NEW n \in Nat
  PROVE  /\ Aligned(exe, p, Code(instruction, n), Code(instruction, n))
         /\ Len(Code(instruction, n)) = n
<1>1. ASSUME NEW i \in 1 .. n PROVE <<instruction, i>> \in Instructions \X Nat /\ <<instruction, i>> # Wild
  <2>1. Len(<<instruction, i>>) = 2 /\ Len(Wild) = 1
    BY DEF Wild
  <2> QED
    BY <2>1
<1>2. Code(instruction, n) \in Seq(Parts(exe)) /\ Len(Code(instruction, n)) = n
  BY <1>1 DEF Code, Parts
<1> QED
  BY <1>1, <1>2 DEF Aligned, Code

\* An operand is not compared.
LEMMA AlignedOperand ==
  ASSUME NEW exe, NEW p \in Int, NEW n \in Nat
  PROVE  /\ Aligned(exe, p, Masked(n), Bytes(exe, p, n))
         /\ Len(Bytes(exe, p, n)) = n
<1>1. /\ Masked(n) \in Seq(Parts(exe)) /\ Len(Masked(n)) = n
      /\ \A i \in 1 .. n : Masked(n)[i] = Wild
  BY DEF Masked, Parts
<1>2. \A i \in 1 .. n : p + i - 1 \in Int
  OBVIOUS
<1>3. /\ Bytes(exe, p, n) \in Seq(Parts(exe)) /\ Len(Bytes(exe, p, n)) = n
      /\ \A i \in 1 .. n : Bytes(exe, p, n)[i] = exe.byte[p + i - 1]
  BY <1>2 DEF Bytes, Parts
<1> QED
  BY <1>1, <1>3 DEF Aligned

\* The pattern is that of the constructor with its operands masked.
LEMMA AlignedConstructor ==
  ASSUME NEW exe, NEW p \in Int
  PROVE  LET code == ConstructorWith(Bytes(exe, p + 9, 4), Bytes(exe, p + 16, 4), Bytes(exe, p + 25, 5))
         IN  Aligned(exe, p, MovieConstructor, code) /\ Len(code) = 37
<1> DEFINE c1 == Code("sub rsp", 4)
           d2 == Code("xor ebp", 2)
           d3 == Code("lea rax", 3)
           d4 == Masked(4)
           e4 == Bytes(exe, p + 9, 4)
           d5 == Code("lea r14", 3)
           d6 == Masked(4)
           e6 == Bytes(exe, p + 16, 4)
           d7 == Code("mov [rcx], r14", 3)
           d8 == Code("mov [rcx+8]", 2)
           d9 == Masked(5)
           e9 == Bytes(exe, p + 25, 5)
           d10 == Code("mov [rcx+18h], rbp", 4)
           d11 == Code("mov [rcx], rax", 3)
<1>1. Aligned(exe, p, c1, c1) /\ Len(c1) = 4
  BY AlignedCode DEF Instructions
<1>2. \A o \in Nat : p + o \in Int
  OBVIOUS
<1>3. Aligned(exe, p + 4, d2, d2) /\ Len(d2) = 2
  BY <1>2, AlignedCode DEF Instructions
<1>4. Aligned(exe, p + 6, d3, d3) /\ Len(d3) = 3
  BY <1>2, AlignedCode DEF Instructions
<1>5. Aligned(exe, p + 9, d4, e4) /\ Len(e4) = 4
  BY <1>2, AlignedOperand
<1>6. Aligned(exe, p + 13, d5, d5) /\ Len(d5) = 3
  BY <1>2, AlignedCode DEF Instructions
<1>7. Aligned(exe, p + 16, d6, e6) /\ Len(e6) = 4
  BY <1>2, AlignedOperand
<1>8. Aligned(exe, p + 20, d7, d7) /\ Len(d7) = 3
  BY <1>2, AlignedCode DEF Instructions
<1>9. Aligned(exe, p + 23, d8, d8) /\ Len(d8) = 2
  BY <1>2, AlignedCode DEF Instructions
<1>10. Aligned(exe, p + 25, d9, e9) /\ Len(e9) = 5
  BY <1>2, AlignedOperand
<1>11. Aligned(exe, p + 30, d10, d10) /\ Len(d10) = 4
  BY <1>2, AlignedCode DEF Instructions
<1>12. Aligned(exe, p + 34, d11, d11) /\ Len(d11) = 3
  BY <1>2, AlignedCode DEF Instructions
<1> HIDE DEF c1, d2, d3, d4, e4, d5, d6, e6, d7, d8, d9, e9, d10, d11
<1> DEFINE c2 == c1 \o d2
           c3 == c2 \o d3
           c4 == c3 \o e4
           p4 == c3 \o d4
           c5 == c4 \o d5
           p5 == p4 \o d5
           c6 == c5 \o e6
           p6 == p5 \o d6
           c7 == c6 \o d7
           p7 == p6 \o d7
           c8 == c7 \o d8
           p8 == p7 \o d8
           c9 == c8 \o e9
           p9 == p8 \o d9
           c10 == c9 \o d10
           p10 == p9 \o d10
           c11 == c10 \o d11
           p11 == p10 \o d11
<1>13. Aligned(exe, p, c2, c2) /\ Len(c2) = 6
  <2>1. Aligned(exe, p + Len(c1), d2, d2)
    BY <1>1, <1>3
  <2>2. Aligned(exe, p, c2, c2)
    BY <1>1, <2>1, AlignedParts, Zenon
  <2>3. Len(c2) = Len(c1) + Len(d2)
    <3>1. c1 \in Seq(Parts(exe)) /\ d2 \in Seq(Parts(exe))
      BY <1>1, <2>1 DEF Aligned
    <3> QED
      BY <3>1
  <2> QED
    BY <1>1, <1>3, <2>2, <2>3
<1> HIDE DEF c2
<1>14. Aligned(exe, p, c3, c3) /\ Len(c3) = 9
  <2>1. Aligned(exe, p + Len(c2), d3, d3)
    BY <1>13, <1>4
  <2>2. Aligned(exe, p, c3, c3)
    BY <1>13, <2>1, AlignedParts, Zenon
  <2>3. Len(c3) = Len(c2) + Len(d3)
    <3>1. c2 \in Seq(Parts(exe)) /\ d3 \in Seq(Parts(exe))
      BY <1>13, <2>1 DEF Aligned
    <3> QED
      BY <3>1
  <2> QED
    BY <1>13, <1>4, <2>2, <2>3
<1> HIDE DEF c3
<1>15. Aligned(exe, p, p4, c4) /\ Len(c4) = 13
  <2>1. Aligned(exe, p + Len(c3), d4, e4)
    BY <1>14, <1>5
  <2>2. Aligned(exe, p, p4, c4)
    BY <1>14, <2>1, AlignedParts, Zenon
  <2>3. Len(c4) = Len(c3) + Len(e4)
    <3>1. c3 \in Seq(Parts(exe)) /\ e4 \in Seq(Parts(exe))
      BY <1>14, <2>1 DEF Aligned
    <3> QED
      BY <3>1
  <2> QED
    BY <1>14, <1>5, <2>2, <2>3
<1> HIDE DEF c4, p4
<1>16. Aligned(exe, p, p5, c5) /\ Len(c5) = 16
  <2>1. Aligned(exe, p + Len(c4), d5, d5)
    BY <1>15, <1>6
  <2>2. Aligned(exe, p, p5, c5)
    BY <1>15, <2>1, AlignedParts, Zenon
  <2>3. Len(c5) = Len(c4) + Len(d5)
    <3>1. c4 \in Seq(Parts(exe)) /\ d5 \in Seq(Parts(exe))
      BY <1>15, <2>1 DEF Aligned
    <3> QED
      BY <3>1
  <2> QED
    BY <1>15, <1>6, <2>2, <2>3
<1> HIDE DEF c5, p5
<1>17. Aligned(exe, p, p6, c6) /\ Len(c6) = 20
  <2>1. Aligned(exe, p + Len(c5), d6, e6)
    BY <1>16, <1>7
  <2>2. Aligned(exe, p, p6, c6)
    BY <1>16, <2>1, AlignedParts, Zenon
  <2>3. Len(c6) = Len(c5) + Len(e6)
    <3>1. c5 \in Seq(Parts(exe)) /\ e6 \in Seq(Parts(exe))
      BY <1>16, <2>1 DEF Aligned
    <3> QED
      BY <3>1
  <2> QED
    BY <1>16, <1>7, <2>2, <2>3
<1> HIDE DEF c6, p6
<1>18. Aligned(exe, p, p7, c7) /\ Len(c7) = 23
  <2>1. Aligned(exe, p + Len(c6), d7, d7)
    BY <1>17, <1>8
  <2>2. Aligned(exe, p, p7, c7)
    BY <1>17, <2>1, AlignedParts, Zenon
  <2>3. Len(c7) = Len(c6) + Len(d7)
    <3>1. c6 \in Seq(Parts(exe)) /\ d7 \in Seq(Parts(exe))
      BY <1>17, <2>1 DEF Aligned
    <3> QED
      BY <3>1
  <2> QED
    BY <1>17, <1>8, <2>2, <2>3
<1> HIDE DEF c7, p7
<1>19. Aligned(exe, p, p8, c8) /\ Len(c8) = 25
  <2>1. Aligned(exe, p + Len(c7), d8, d8)
    BY <1>18, <1>9
  <2>2. Aligned(exe, p, p8, c8)
    BY <1>18, <2>1, AlignedParts, Zenon
  <2>3. Len(c8) = Len(c7) + Len(d8)
    <3>1. c7 \in Seq(Parts(exe)) /\ d8 \in Seq(Parts(exe))
      BY <1>18, <2>1 DEF Aligned
    <3> QED
      BY <3>1
  <2> QED
    BY <1>18, <1>9, <2>2, <2>3
<1> HIDE DEF c8, p8
<1>20. Aligned(exe, p, p9, c9) /\ Len(c9) = 30
  <2>1. Aligned(exe, p + Len(c8), d9, e9)
    BY <1>19, <1>10
  <2>2. Aligned(exe, p, p9, c9)
    BY <1>19, <2>1, AlignedParts, Zenon
  <2>3. Len(c9) = Len(c8) + Len(e9)
    <3>1. c8 \in Seq(Parts(exe)) /\ e9 \in Seq(Parts(exe))
      BY <1>19, <2>1 DEF Aligned
    <3> QED
      BY <3>1
  <2> QED
    BY <1>19, <1>10, <2>2, <2>3
<1> HIDE DEF c9, p9
<1>21. Aligned(exe, p, p10, c10) /\ Len(c10) = 34
  <2>1. Aligned(exe, p + Len(c9), d10, d10)
    BY <1>20, <1>11
  <2>2. Aligned(exe, p, p10, c10)
    BY <1>20, <2>1, AlignedParts, Zenon
  <2>3. Len(c10) = Len(c9) + Len(d10)
    <3>1. c9 \in Seq(Parts(exe)) /\ d10 \in Seq(Parts(exe))
      BY <1>20, <2>1 DEF Aligned
    <3> QED
      BY <3>1
  <2> QED
    BY <1>20, <1>11, <2>2, <2>3
<1> HIDE DEF c10, p10
<1>22. Aligned(exe, p, p11, c11) /\ Len(c11) = 37
  <2>1. Aligned(exe, p + Len(c10), d11, d11)
    BY <1>21, <1>12
  <2>2. Aligned(exe, p, p11, c11)
    BY <1>21, <2>1, AlignedParts, Zenon
  <2>3. Len(c11) = Len(c10) + Len(d11)
    <3>1. c10 \in Seq(Parts(exe)) /\ d11 \in Seq(Parts(exe))
      BY <1>21, <2>1 DEF Aligned
    <3> QED
      BY <3>1
  <2> QED
    BY <1>21, <1>12, <2>2, <2>3
<1> HIDE DEF c11, p11
<1> QED
  BY <1>22 DEF MovieConstructor, ConstructorWith,
     c1, d2, d3, d4, e4, d5, d6, e6, d7, d8, d9, e9, d10, d11, c2, c3, c4, p4, c5, p5, c6, p6, c7, p7, c8, p8, c9, p9, c10, p10, c11, p11

\* The masked comparison finds the constructor, whatever its operands, and nothing
\* else (hooks.cpp:68-78).
LEMMA ComparesConstructor ==
  ASSUME NEW exe, NEW p \in Int
  PROVE  DataCompare(exe, p, MovieConstructor) <=> IsConstructor(exe, p)
<1> DEFINE code == ConstructorWith(Bytes(exe, p + 9, 4), Bytes(exe, p + 16, 4), Bytes(exe, p + 25, 5))
<1>1. Aligned(exe, p, MovieConstructor, code) /\ Len(code) = 37
  BY AlignedConstructor
<1> HIDE DEF code
<1>2. /\ DOMAIN MovieConstructor = 1 .. 37 /\ DOMAIN code = 1 .. 37 /\ code = [i \in 1 .. 37 |-> code[i]]
  BY <1>1 DEF Aligned
<1>3. DataCompare(exe, p, MovieConstructor) <=> \A i \in 1 .. 37 : exe.byte[p + i - 1] = code[i]
  BY <1>1, <1>2 DEF DataCompare, Aligned
<1>4. Bytes(exe, p, 37) = code <=> \A i \in 1 .. 37 : exe.byte[p + i - 1] = code[i]
  BY <1>2 DEF Bytes
<1> QED
  BY <1>1, <1>3, <1>4 DEF IsConstructor, code

\* The scan stops at the first address that compares (hooks.cpp:249-263).
LEMMA FindsFirst ==
  ASSUME NEW exe, NEW pattern, NEW from \in Nat, NEW to \in Nat
  PROVE  /\ (\A p \in from .. to - 1 : ~DataCompare(exe, p, pattern)) =>
              FindPattern(exe, from, to, pattern) = NotFound
         /\ \A p \in from .. to - 1 :
              DataCompare(exe, p, pattern)
              /\ (\A q \in from .. to - 1 : DataCompare(exe, q, pattern) => p <= q) =>
                   FindPattern(exe, from, to, pattern) = p
<1> DEFINE found == {p \in from .. to - 1 : DataCompare(exe, p, pattern)}
<1>1. (\A p \in from .. to - 1 : ~DataCompare(exe, p, pattern)) =>
        FindPattern(exe, from, to, pattern) = NotFound
  BY DEF FindPattern
<1>2. ASSUME NEW p \in from .. to - 1, DataCompare(exe, p, pattern),
             \A q \in from .. to - 1 : DataCompare(exe, q, pattern) => p <= q
      PROVE  FindPattern(exe, from, to, pattern) = p
  <2>1. p \in found /\ found \subseteq Int /\ \A q \in found : p <= q
    BY <1>2
  <2>2. FindPattern(exe, from, to, pattern) = Min(found)
    BY <2>1 DEF FindPattern
  <2>4. p = FindPattern(exe, from, to, pattern) <=> p = Min(found)
    BY <2>2
  <2> HIDE DEF found
  <2>3. Min(found) \in found /\ \A q \in found : Min(found) <= q
    BY <2>1 DEF Min
  <2> QED
    <3>1. Min(found) \in Int /\ p \in Int /\ p <= Min(found) /\ Min(found) <= p
      BY <2>1, <2>3
    <3> QED
      BY <2>4, <3>1
<1> QED
  BY <1>1, <1>2

\* FindSection gives the section whose addresses Text are (hooks.cpp:265-288).
LEMMA FindsText ==
  ASSUME NEW exe, MovieIsFirst(exe)
  PROVE  LET text == FindSection(exe, ".text") IN
         \/ text = NoSection /\ Text(exe) = {}
         \/ /\ text # NoSection /\ text.address \in Nat \ {0} /\ text.size \in Nat
            /\ Text(exe) = text.address .. text.address + text.size - 1
<1> DEFINE named == {j \in DOMAIN exe.sections : exe.sections[j].name = ".text"}
           first == {j \in named : \A k \in named : j <= k}
<1>1. named \subseteq Nat
  BY DEF MovieIsFirst
<1>2. CASE exe.dos # "MZ" \/ exe.nt # "PE"
  BY <1>2 DEF FindSection, Text
<1>3. CASE exe.dos = "MZ" /\ exe.nt = "PE" /\ named = {}
  BY <1>3 DEF FindSection, Text
<1>4. CASE exe.dos = "MZ" /\ exe.nt = "PE" /\ named # {}
  <2> DEFINE j == Min(named)
  <2>1. j \in named /\ \A k \in named : j <= k
    <3>1. \E x \in named : \A y \in named : x <= y
      BY <1>1, <1>4, LeastNat
    <3> QED
      BY <3>1 DEF Min
  <2>2. FindSection(exe, ".text") = exe.sections[j]
    BY <1>4 DEF FindSection
  <2> HIDE DEF j
  <2>3. first = {j}
    BY <1>1, <2>1
  <2>4. Text(exe) = UNION {s.address .. s.address + s.size - 1 : s \in {exe.sections[k] : k \in first}}
    BY <1>4 DEF Text
  <2>5. Text(exe) = exe.sections[j].address .. exe.sections[j].address + exe.sections[j].size - 1
    BY <2>3, <2>4
  <2>6. exe.sections[j].name = ".text" /\ NoSection.name = ""
    BY <2>1 DEF NoSection
  <2> QED
    BY <2>1, <2>2, <2>5, <2>6 DEF MovieIsFirst
<1> QED
  BY <1>2, <1>3, <1>4

\* The displacement of the constructor leads to the table (dllmain.cpp:132-135).
LEMMA TableAt ==
  ASSUME NEW exe, NEW p \in Int, NEW d, Bytes(exe, p + 9, 4) = Displacement(d)
  PROVE  VTable(exe, p) = p + 13 + d
<1>1. Displacement(d)[1][1] = "displacement" /\ Displacement(d)[1][3] = d
  BY DEF Displacement
<1> QED
  BY <1>1 DEF VTable, Int32At

\* The search ends at the table of Movie, or nowhere if there is none.
LEMMA FindsMovie ==
  ASSUME NEW exe, MovieIsFirst(exe)
  PROVE  MovieTable(exe) = exe.movie
<1> DEFINE text == FindSection(exe, ".text")
           ctor == FindPattern(exe, text.address, text.address + text.size, MovieConstructor)
           ctors == {p \in Text(exe) : IsConstructor(exe, p)}
<1>1. MovieTable(exe) = IF text = NoSection \/ ctor = NotFound THEN NotFound ELSE VTable(exe, ctor)
  BY DEF MovieTable
<1>2. CASE text = NoSection /\ Text(exe) = {}
  BY <1>1, <1>2 DEF MovieIsFirst
<1>3. CASE /\ text # NoSection /\ text.address \in Nat \ {0} /\ text.size \in Nat
           /\ Text(exe) = text.address .. text.address + text.size - 1
  <2> HIDE DEF text
  <2>1. \A p \in Text(exe) : p \in Int /\ (DataCompare(exe, p, MovieConstructor) <=> p \in ctors)
    BY <1>3, ComparesConstructor
  <2>2. CASE exe.movie = NotFound
    <3>1. \A p \in Text(exe) : ~DataCompare(exe, p, MovieConstructor)
      BY <2>1, <2>2 DEF MovieIsFirst
    <3>2. ctor = NotFound
      BY <1>3, <3>1, FindsFirst
    <3> QED
      BY <1>1, <2>2, <3>2
  <2>3. CASE exe.movie # NotFound
    <3>1. PICK p \in ctors : /\ \A q \in ctors : p <= q
                             /\ Bytes(exe, p + 9, 4) = Displacement(exe.movie - (p + 13))
      BY <2>3 DEF MovieIsFirst
    <3>2. p \in Text(exe) /\ p \in Int /\ p # NotFound
      BY <1>3, <3>1 DEF NotFound
    <3>3. ctor = p
      <4>1. /\ DataCompare(exe, p, MovieConstructor)
            /\ \A q \in Text(exe) : DataCompare(exe, q, MovieConstructor) => p <= q
        BY <2>1, <3>1, <3>2
      <4> QED
        BY <1>3, <3>2, <4>1, FindsFirst
    <3>4. exe.movie \in Int
      BY DEF MovieIsFirst
    <3>5. VTable(exe, p) = p + 13 + (exe.movie - (p + 13))
      BY <3>1, <3>2, TableAt
    <3> QED
      BY <1>1, <1>3, <3>2, <3>3, <3>4, <3>5
  <2> QED
    BY <2>2, <2>3
<1> QED
  BY <1>2, <1>3, FindsText

\* The table that was located is that of the executable.
TableInv == image \in DOMAIN Images /\ (table = Unknown \/ table = MovieTable(Images[image]))

\* In every executable whose first constructor of Movie's form is Movie's, the
\* method is injected into the table of Movie, whatever its addresses, operands
\* and the rest of its code, and nowhere if there is none (hooks.cpp:68-78,
\* 249-288; dllmain.cpp:110-143).
THEOREM Injects == UiSpec => []InjectsMovie
<1>1. UiInit => TableInv
  BY DEF UiInit, TableInv
<1>2. TableInv /\ [UiNext]_uiVars => TableInv'
  BY DEF TableInv, UiNext, uiVars, scan, OnDeviceCreate, InjectMovie, SetViewScaleMode,
         MovieStep, MovieSetViewScaleMode
<1>3. ASSUME TableInv PROVE InjectsMovie
  <2>1. MovieIsFirst(Images[image])
    BY <1>3, ImagesAssumption DEF ImagesAssumption, TableInv
  <2>2. MovieTable(Images[image]) = Images[image].movie
    BY <2>1, FindsMovie
  <2> QED
    BY <1>3, <2>2 DEF TableInv, InjectsMovie
<1> QED
  BY <1>1, <1>2, <1>3, PTL DEF UiSpec
=============================================================================
