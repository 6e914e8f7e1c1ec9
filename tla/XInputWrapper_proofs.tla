------------------------ MODULE XInputWrapper_proofs -------------------------
(***************************************************************************)
(* Proofs about the XInput wrapper for any set of threads, any number of   *)
(* exported functions and any behaviour of LoadLibraryW.                   *)
(***************************************************************************)
EXTENDS XInputWrapper, TLAPS

-----------------------------------------------------------------------------
(* The inductive invariant.                                                *)

\* Threads run only while the process does.
DeadOutsideRun == phase # "running" => \A t \in Threads : pc[t] = "dead"

\* Where a non-null value came from.
Origin ==
  /\ outcomes \subseteq LoadOutcomes
  /\ s_xinput => refs > 0 /\ TRUE \in outcomes
  /\ \A f \in Fns : s_fn[f] => refs > 0 /\ TRUE \in outcomes /\ f \in Provided
  /\ TRUE \in outcomes => PathUsable
  /\ \A t \in Threads :
       /\ pc[t] \in {"load", "check", "resolve", "store"} => PathUsable
       /\ pc[t] = "store" /\ proc[t] =>
            refs > 0 /\ TRUE \in outcomes /\ next[t] \in Provided
       /\ pc[t] = "forward" => TRUE \in outcomes /\ req[t] \in Provided

\* A thread that has asked for the library does not come back to "load".
LoadOnce ==
  \A t \in Threads :
    /\ pc[t] \in {"select", "forward"} => s_loaded
    /\ pc[t] \in {"load"} => attempts[t] = 0
    /\ attempts[t] = 1 /\ pc[t] \in {"idle", "test"} => s_loaded

Filled == \A f \in Provided : s_fn[f]

\* While no load has failed, the flag is set only after the last pointer, and
\* no thread ever takes a pointer back.
Complete ==
  phase = "running" /\ PathUsable /\ FALSE \notin outcomes =>
    /\ s_loaded => Filled
    /\ \A t \in Threads :
         /\ pc[t] \in {"check", "resolve", "store"} => s_xinput
         /\ pc[t] \in {"resolve", "store"} =>
              \A f \in Provided : f < next[t] => s_fn[f]
         /\ pc[t] = "store" => (next[t] \in Provided => proc[t])
         /\ pc[t] = "mark" => Filled

IInv ==
  /\ TypeOK /\ DeadOutsideRun /\ Origin /\ LoadOnce /\ Complete
  /\ AttemptsOnce /\ ReplyJustified /\ CrashNeedsMixedLoads

-----------------------------------------------------------------------------
\* Nothing is loaded and nobody has asked for anything at first.
LEMMA InitIInv == Init => IInv
<1> SUFFICES ASSUME Init PROVE IInv
  OBVIOUS
<1> USE WrapperAssumption DEF Init
<1>1. TypeOK
  <2>1. /\ 1 \in Fns /\ 0 \in Nat /\ "idle" \in Labels
        /\ {} \in SUBSET BOOLEAN
    BY DEF Fns, Labels
  <2>2. s_loaded \in BOOLEAN /\ s_xinput \in BOOLEAN
    OBVIOUS
  <2>3. s_fn \in [Fns -> BOOLEAN] /\ proc \in [Threads -> BOOLEAN]
    OBVIOUS
  <2> QED
    BY <2>1, <2>2, <2>3 DEF TypeOK
<1>2. Origin
  BY DEF Origin, Fns
<1>3. LoadOnce /\ Complete
  BY DEF LoadOnce, Complete
<1>4. DeadOutsideRun /\ AttemptsOnce /\ ReplyJustified /\ CrashNeedsMixedLoads
  BY DEF DeadOutsideRun, AttemptsOnce, ReplyJustified, CrashNeedsMixedLoads
<1> QED
  BY <1>1, <1>2, <1>3, <1>4 DEF IInv

\* Every step keeps the inductive invariant, one case for each action.
LEMMA NextIInv == ASSUME IInv, [Next]_vars PROVE IInv'
<1> USE WrapperAssumption DEF Labels, Fns, Filled, Goto, Answer, globals, system, history
<1>1. ASSUME NEW t \in Threads, NEW f \in Fns, Call(t, f) PROVE IInv'
  <2>1. TypeOK'
    BY <1>1 DEF IInv, TypeOK, Call
  <2>2. Origin' /\ Complete'
    BY <1>1 DEF IInv, TypeOK, DeadOutsideRun, Origin, Complete, Call
  <2>3. DeadOutsideRun' /\ LoadOnce' /\ AttemptsOnce'
    BY <1>1 DEF IInv, TypeOK, DeadOutsideRun, LoadOnce, AttemptsOnce, Call
  <2>4. ReplyJustified'
    BY <1>1 DEF IInv, TypeOK, Origin, ReplyJustified, Call
  <2>5. CrashNeedsMixedLoads'
    BY <1>1 DEF IInv, TypeOK, DeadOutsideRun, CrashNeedsMixedLoads, Call
  <2> QED
    BY <2>1, <2>2, <2>3, <2>4, <2>5 DEF IInv
<1>2. ASSUME NEW t \in Threads, TestLoaded(t) PROVE IInv'
  <2>1. TypeOK'
    BY <1>2 DEF IInv, TypeOK, TestLoaded
  <2>2. Origin' /\ Complete'
    BY <1>2 DEF IInv, TypeOK, DeadOutsideRun, Origin, Complete, TestLoaded
  <2>3. DeadOutsideRun' /\ LoadOnce' /\ AttemptsOnce'
    BY <1>2 DEF IInv, TypeOK, DeadOutsideRun, LoadOnce, AttemptsOnce, TestLoaded
  <2>4. ReplyJustified'
    BY <1>2 DEF IInv, TypeOK, Origin, ReplyJustified, TestLoaded
  <2>5. CrashNeedsMixedLoads'
    BY <1>2 DEF IInv, TypeOK, DeadOutsideRun, CrashNeedsMixedLoads, TestLoaded
  <2> QED
    BY <2>1, <2>2, <2>3, <2>4, <2>5 DEF IInv
<1>3. ASSUME NEW t \in Threads, Load(t) PROVE IInv'
  <2>0. PICK found \in LoadOutcomes :
          /\ s_xinput' = found
          /\ refs' = IF found THEN refs + 1 ELSE refs
          /\ outcomes' = outcomes \cup {found}
    BY <1>3 DEF Load
  <2>1. TypeOK'
    BY <1>3, <2>0 DEF IInv, TypeOK, Load
  <2>2. /\ PathUsable /\ phase = "running" /\ found \in BOOLEAN
        /\ found => refs' > 0
        /\ refs > 0 => refs' > 0
    <3>1. PathUsable /\ phase = "running" /\ refs \in Nat
      BY <1>3 DEF IInv, TypeOK, Origin, DeadOutsideRun, Load
    <3>2. found = TRUE \/ found = FALSE
      OBVIOUS
    <3>3. CASE found = TRUE
      BY <2>0, <3>1, <3>3
    <3>4. CASE found = FALSE
      BY <2>0, <3>1, <3>4
    <3> QED
      BY <3>2, <3>3, <3>4
  <2>3. Origin'
    <3>1. ASSUME NEW u \in Threads, pc'[u] = "store", proc'[u]
          PROVE  refs' > 0 /\ TRUE \in outcomes' /\ next'[u] \in Provided
      BY <1>3, <2>0, <2>2, <3>1 DEF IInv, TypeOK, Origin, Load
    <3>2. ASSUME NEW u \in Threads
          PROVE  /\ pc'[u] \in {"load", "check", "resolve", "store"} => PathUsable
                 /\ pc'[u] = "forward" => TRUE \in outcomes' /\ req'[u] \in Provided
      BY <1>3, <2>0, <2>2 DEF IInv, TypeOK, Origin, Load
    <3>3. /\ outcomes' \subseteq LoadOutcomes
          /\ s_xinput' => refs' > 0 /\ TRUE \in outcomes'
          /\ \A f \in Fns :
               s_fn'[f] => refs' > 0 /\ TRUE \in outcomes' /\ f \in Provided
          /\ TRUE \in outcomes' => PathUsable
      BY <1>3, <2>0, <2>2 DEF IInv, TypeOK, Origin, Load
    <3> QED
      BY <3>1, <3>2, <3>3 DEF Origin
  <2>4. Complete'
    <3>1. SUFFICES ASSUME FALSE \notin outcomes'
                   PROVE  Complete'
      BY DEF Complete
    <3>2. s_xinput' = TRUE /\ FALSE \notin outcomes
      BY <2>0, <2>2, <3>1
    <3> QED
      BY <1>3, <2>2, <3>2 DEF IInv, TypeOK, Complete, Load
  <2>5. DeadOutsideRun' /\ LoadOnce' /\ AttemptsOnce'
    BY <1>3 DEF IInv, TypeOK, DeadOutsideRun, LoadOnce, AttemptsOnce, Load
  <2>6. ReplyJustified' /\ CrashNeedsMixedLoads'
    BY <1>3, <2>0, <2>2 DEF IInv, TypeOK, ReplyJustified, CrashNeedsMixedLoads, Load
  <2> QED
    BY <2>1, <2>2, <2>3, <2>4, <2>5, <2>6 DEF IInv
<1>4. ASSUME NEW t \in Threads, Register(t) PROVE IInv'
  <2>1. TypeOK'
    BY <1>4 DEF IInv, TypeOK, Register
  <2>2. Origin' /\ Complete'
    <3>1. Origin'
      BY <1>4 DEF IInv, TypeOK, Origin, Register
    <3>2. Complete'
      BY <1>4 DEF IInv, TypeOK, Complete, Register
    <3> QED
      BY <3>1, <3>2
  <2>3. DeadOutsideRun' /\ LoadOnce' /\ AttemptsOnce'
    BY <1>4 DEF IInv, TypeOK, DeadOutsideRun, LoadOnce, AttemptsOnce, Register
  <2>4. ReplyJustified'
    BY <1>4 DEF IInv, TypeOK, Origin, ReplyJustified, Register
  <2>5. CrashNeedsMixedLoads'
    BY <1>4 DEF IInv, TypeOK, DeadOutsideRun, CrashNeedsMixedLoads, Register
  <2> QED
    BY <2>1, <2>2, <2>3, <2>4, <2>5 DEF IInv
<1>5. ASSUME NEW t \in Threads, NoLibrary(t) PROVE IInv'
  <2>1. TypeOK'
    BY <1>5 DEF IInv, TypeOK, NoLibrary
  <2>2. Origin' /\ Complete'
    BY <1>5 DEF IInv, TypeOK, DeadOutsideRun, Origin, Complete, NoLibrary
  <2>3. DeadOutsideRun' /\ LoadOnce' /\ AttemptsOnce'
    BY <1>5 DEF IInv, TypeOK, DeadOutsideRun, LoadOnce, AttemptsOnce, NoLibrary
  <2>4. ReplyJustified'
    BY <1>5 DEF IInv, TypeOK, Origin, ReplyJustified, NoLibrary
  <2>5. CrashNeedsMixedLoads'
    BY <1>5 DEF IInv, TypeOK, DeadOutsideRun, CrashNeedsMixedLoads, NoLibrary
  <2> QED
    BY <2>1, <2>2, <2>3, <2>4, <2>5 DEF IInv
<1>6. ASSUME NEW t \in Threads, Resolve(t) PROVE IInv'
  <2>1. TypeOK'
    BY <1>6 DEF IInv, TypeOK, Resolve
  <2>2. Origin' /\ Complete'
    BY <1>6 DEF IInv, TypeOK, DeadOutsideRun, Origin, Complete, Resolve
  <2>3. DeadOutsideRun' /\ LoadOnce' /\ AttemptsOnce'
    BY <1>6 DEF IInv, TypeOK, DeadOutsideRun, LoadOnce, AttemptsOnce, Resolve
  <2>4. ReplyJustified'
    BY <1>6 DEF IInv, TypeOK, Origin, ReplyJustified, Resolve
  <2>5. CrashNeedsMixedLoads'
    BY <1>6 DEF IInv, TypeOK, DeadOutsideRun, CrashNeedsMixedLoads, Resolve
  <2> QED
    BY <2>1, <2>2, <2>3, <2>4, <2>5 DEF IInv
<1>7. ASSUME NEW t \in Threads, Store(t) PROVE IInv'
  <2>1. TypeOK'
    BY <1>7 DEF IInv, TypeOK, Store
  <2>2. Origin' /\ Complete'
    <3>1. ASSUME NEW f \in Fns, s_fn'[f]
          PROVE  refs > 0 /\ TRUE \in outcomes /\ f \in Provided
      <4>1. next[t] \in Fns /\ s_fn' = [s_fn EXCEPT ![next[t]] = proc[t]]
        BY <1>7 DEF IInv, TypeOK, Store
      <4>2. CASE f = next[t]
        BY <1>7, <3>1, <4>1, <4>2 DEF IInv, TypeOK, Origin, Store
      <4>3. CASE f # next[t]
        BY <3>1, <4>1, <4>3 DEF IInv, TypeOK, Origin
      <4> QED
        BY <4>2, <4>3
    <3>2. Origin'
      BY <1>7, <3>1 DEF IInv, TypeOK, Origin, Store
    <3>3. Complete'
      <4>1. /\ next[t] \in Fns /\ proc[t] \in BOOLEAN /\ s_fn \in [Fns -> BOOLEAN]
            /\ s_fn' = [s_fn EXCEPT ![next[t]] = proc[t]]
        BY <1>7 DEF IInv, TypeOK, Store
      <4>2. SUFFICES ASSUME Complete, phase = "running", PathUsable,
                            FALSE \notin outcomes
                     PROVE  Complete'
        BY <1>7 DEF IInv, Complete, Store
      <4>3. next[t] \in Provided => proc[t]
        BY <1>7, <4>2 DEF Complete, Store
      <4>4. ASSUME NEW f \in Provided, s_fn[f]
            PROVE  s_fn'[f]
        BY <4>1, <4>3, <4>4
      <4>5. next[t] \in Provided => s_fn'[next[t]]
        BY <4>1, <4>3
      <4>6. \A f \in Provided : f < next[t] => s_fn[f]
        BY <1>7, <4>2 DEF Complete, Store
      <4>7. next[t] = NumFns => Filled'
        BY <4>1, <4>4, <4>5, <4>6
      <4>8. ASSUME NEW f \in Provided, f < next[t] + 1
            PROVE  s_fn'[f]
        <5>1. f < next[t] \/ f = next[t]
          BY <4>1, <4>8
        <5> QED
          BY <4>4, <4>5, <4>6, <5>1
      <4>9. /\ s_loaded' = s_loaded /\ s_xinput' = s_xinput /\ proc' = proc
            /\ phase' = phase /\ outcomes' = outcomes
        BY <1>7 DEF Store
      <4>10. s_loaded' => Filled'
        BY <4>2, <4>4, <4>9 DEF Complete
      <4>11. ASSUME NEW u \in Threads
             PROVE  /\ pc'[u] \in {"check", "resolve", "store"} => s_xinput'
                    /\ pc'[u] \in {"resolve", "store"} =>
                         \A f \in Provided : f < next'[u] => s_fn'[f]
                    /\ pc'[u] = "store" => (next'[u] \in Provided => proc'[u])
                    /\ pc'[u] = "mark" => Filled'
        <5>1. CASE u # t
          BY <1>7, <4>2, <4>4, <4>9, <5>1 DEF IInv, TypeOK, Complete, Store
        <5>2. CASE u = t /\ next[t] = NumFns
          BY <1>7, <4>7, <5>2 DEF IInv, TypeOK, Store
        <5>3. CASE u = t /\ next[t] # NumFns
          <6>1. pc'[t] = "resolve" /\ next'[t] = next[t] + 1
            BY <1>7, <5>3 DEF IInv, TypeOK, Store
          <6>2. s_xinput'
            BY <1>7, <4>2, <4>9 DEF Complete, Store
          <6> QED
            BY <4>8, <5>3, <6>1, <6>2
        <5> QED
          BY <5>1, <5>2, <5>3
      <4> QED
        BY <4>10, <4>11 DEF Complete
    <3> QED
      BY <3>2, <3>3
  <2>3. DeadOutsideRun' /\ LoadOnce' /\ AttemptsOnce'
    BY <1>7 DEF IInv, TypeOK, DeadOutsideRun, LoadOnce, AttemptsOnce, Store
  <2>4. ReplyJustified'
    BY <1>7 DEF IInv, TypeOK, Origin, ReplyJustified, Store
  <2>5. CrashNeedsMixedLoads'
    BY <1>7 DEF IInv, TypeOK, DeadOutsideRun, CrashNeedsMixedLoads, Store
  <2> QED
    BY <2>1, <2>2, <2>3, <2>4, <2>5 DEF IInv
<1>8. ASSUME NEW t \in Threads, Mark(t) PROVE IInv'
  <2>1. TypeOK'
    BY <1>8 DEF IInv, TypeOK, Mark
  <2>2. Origin' /\ Complete'
    BY <1>8 DEF IInv, TypeOK, DeadOutsideRun, Origin, Complete, Mark
  <2>3. DeadOutsideRun' /\ LoadOnce' /\ AttemptsOnce'
    BY <1>8 DEF IInv, TypeOK, DeadOutsideRun, LoadOnce, AttemptsOnce, Mark
  <2>4. ReplyJustified'
    BY <1>8 DEF IInv, TypeOK, Origin, ReplyJustified, Mark
  <2>5. CrashNeedsMixedLoads'
    BY <1>8 DEF IInv, TypeOK, DeadOutsideRun, CrashNeedsMixedLoads, Mark
  <2> QED
    BY <2>1, <2>2, <2>3, <2>4, <2>5 DEF IInv
<1>9. ASSUME NEW t \in Threads, NotConnected(t) PROVE IInv'
  <2>1. TypeOK'
    BY <1>9 DEF IInv, TypeOK, NotConnected
  <2>2. Origin' /\ Complete'
    BY <1>9 DEF IInv, TypeOK, Origin, Complete, NotConnected
  <2>3. DeadOutsideRun' /\ LoadOnce' /\ AttemptsOnce'
    BY <1>9 DEF IInv, TypeOK, DeadOutsideRun, LoadOnce, AttemptsOnce, NotConnected
  <2>4. phase = "running" /\ s_loaded
    BY <1>9 DEF IInv, DeadOutsideRun, LoadOnce, NotConnected
  <2>5. req[t] \notin Provided \/ ~PathUsable \/ FALSE \in outcomes
    BY <1>9, <2>4 DEF IInv, Complete, NotConnected
  <2>6. ReplyJustified'
    BY <1>9, <2>5 DEF IInv, TypeOK, ReplyJustified, NotConnected
  <2>7. CrashNeedsMixedLoads'
    BY <1>9 DEF IInv, CrashNeedsMixedLoads, NotConnected
  <2> QED
    BY <2>1, <2>2, <2>3, <2>4, <2>5, <2>6, <2>7 DEF IInv
<1>10. ASSUME NEW t \in Threads, Select(t) PROVE IInv'
  <2>1. TypeOK'
    BY <1>10 DEF IInv, TypeOK, Select
  <2>2. Origin' /\ Complete'
    BY <1>10 DEF IInv, TypeOK, DeadOutsideRun, Origin, Complete, Select
  <2>3. DeadOutsideRun' /\ LoadOnce' /\ AttemptsOnce'
    BY <1>10 DEF IInv, TypeOK, DeadOutsideRun, LoadOnce, AttemptsOnce, Select
  <2>4. ReplyJustified'
    BY <1>10 DEF IInv, TypeOK, Origin, ReplyJustified, Select
  <2>5. CrashNeedsMixedLoads'
    BY <1>10 DEF IInv, TypeOK, DeadOutsideRun, CrashNeedsMixedLoads, Select
  <2> QED
    BY <2>1, <2>2, <2>3, <2>4, <2>5 DEF IInv
<1>11. ASSUME NEW t \in Threads, Forward(t) PROVE IInv'
  <2>1. TypeOK'
    BY <1>11 DEF IInv, TypeOK, Forward
  <2>2. Origin' /\ Complete'
    BY <1>11 DEF IInv, TypeOK, DeadOutsideRun, Origin, Complete, Forward
  <2>3. DeadOutsideRun' /\ LoadOnce' /\ AttemptsOnce'
    BY <1>11 DEF IInv, TypeOK, DeadOutsideRun, LoadOnce, AttemptsOnce, Forward
  <2>4. ReplyJustified'
    BY <1>11 DEF IInv, TypeOK, Origin, ReplyJustified, Forward
  <2>5. CrashNeedsMixedLoads'
    BY <1>11 DEF IInv, TypeOK, DeadOutsideRun, CrashNeedsMixedLoads, Forward
  <2> QED
    BY <2>1, <2>2, <2>3, <2>4, <2>5 DEF IInv
<1>12. ASSUME NEW t \in Threads, NullCall(t) PROVE IInv'
  <2>1. TypeOK'
    BY <1>12 DEF IInv, TypeOK, NullCall
  <2>2. Origin' /\ Complete'
    BY <1>12 DEF IInv, TypeOK, DeadOutsideRun, Origin, Complete, NullCall
  <2>3. DeadOutsideRun' /\ LoadOnce' /\ AttemptsOnce'
    BY <1>12 DEF IInv, TypeOK, DeadOutsideRun, LoadOnce, AttemptsOnce, NullCall
  <2>4. ReplyJustified'
    BY <1>12 DEF IInv, TypeOK, Origin, ReplyJustified, NullCall
  <2>5. CrashNeedsMixedLoads'
    BY <1>12 DEF IInv, TypeOK, DeadOutsideRun, Origin, LoadOnce, Complete, CrashNeedsMixedLoads, NullCall
  <2> QED
    BY <2>1, <2>2, <2>3, <2>4, <2>5 DEF IInv
<1>13. CASE Exit
  BY <1>13 DEF IInv, TypeOK, DeadOutsideRun, Origin, LoadOnce, Complete, AttemptsOnce,
               ReplyJustified, CrashNeedsMixedLoads, Exit
<1>14. CASE UnloadXInput
  <2>1. \A t \in Threads : pc[t] = "dead"
    BY <1>14 DEF IInv, DeadOutsideRun, UnloadXInput
  <2>2. TypeOK'
    <3>1. refs' \in Nat
      <4>1. refs \in Nat /\ (s_xinput => refs > 0)
        BY DEF IInv, TypeOK, Origin
      <4>2. CASE s_xinput
        BY <1>14, <4>1, <4>2 DEF UnloadXInput
      <4>3. CASE ~s_xinput
        BY <1>14, <4>1, <4>3 DEF UnloadXInput
      <4> QED
        BY <4>2, <4>3
    <3>2. handlers' \in Nat
      BY <1>14 DEF IInv, TypeOK, UnloadXInput
    <3>3. s_fn' \in [Fns -> BOOLEAN] /\ s_xinput' \in BOOLEAN
      BY <1>14 DEF UnloadXInput
    <3>4. UNCHANGED <<s_loaded, pc, req, next, proc, reply, phase, history>>
      BY <1>14 DEF UnloadXInput
    <3> QED
      BY <3>1, <3>2, <3>3, <3>4 DEF IInv, TypeOK
  <2>3. Origin' /\ Complete' /\ DeadOutsideRun' /\ LoadOnce'
    BY <1>14, <2>1 DEF IInv, TypeOK, Origin, Complete, DeadOutsideRun, LoadOnce, UnloadXInput
  <2> QED
    BY <1>14, <2>2, <2>3
    DEF IInv, AttemptsOnce, ReplyJustified, CrashNeedsMixedLoads, UnloadXInput
<1>15. CASE UNCHANGED vars
  BY <1>15 DEF IInv, TypeOK, DeadOutsideRun, Origin, LoadOnce, Complete, AttemptsOnce,
               ReplyJustified, CrashNeedsMixedLoads, vars
<1>16. CASE Terminated
  BY <1>15, <1>16 DEF Terminated
<1> QED
  BY <1>1, <1>2, <1>3, <1>4, <1>5, <1>6, <1>7, <1>8, <1>9, <1>10, <1>11, <1>12,
     <1>13, <1>14, <1>15, <1>16
  DEF Next, Step, LoadStep, CallStep

\* The inductive invariant always holds.
THEOREM Invariance == Spec => []IInv
<1>1. Init => IInv
  BY InitIInv
<1>2. IInv /\ [Next]_vars => IInv'
  BY NextIInv
<1> QED
  BY <1>1, <1>2, PTL DEF Spec

-----------------------------------------------------------------------------
(* What follows from it. *)

\* Every variable keeps its type: the counters stay natural numbers, so no
\* UnloadXInput ever gives back a reference that is not held.
THEOREM Typing == Spec => []TypeOK
<1>1. IInv => TypeOK
  BY DEF IInv
<1> QED
  BY <1>1, Invariance, PTL

\* Every answer has its reason, for any number of threads racing through
\* LoadXInput and whatever LoadLibraryW returns to each of them.
THEOREM Replies == Spec => []ReplyJustified
<1>1. IInv => ReplyJustified
  BY DEF IInv
<1> QED
  BY <1>1, Invariance, PTL

\* A thread asks for the real library at most once in its life.
THEOREM Attempts == Spec => []AttemptsOnce
<1>1. IInv => AttemptsOnce
  BY DEF IInv
<1> QED
  BY <1>1, Invariance, PTL

\* The handle and the pointers are null once the last reference is given back.
THEOREM Held == Spec => []HandleHeld
<1>1. IInv => HandleHeld
  BY DEF IInv, Origin, HandleHeld
<1> QED
  BY <1>1, Invariance, PTL

\* A null pointer is called only when one load failed and another succeeded.
THEOREM Crashes == Spec => []CrashNeedsMixedLoads
<1>1. IInv => CrashNeedsMixedLoads
  BY DEF IInv
<1> QED
  BY <1>1, Invariance, PTL
-----------------------------------------------------------------------------
(* The wrapper implements the service.                                     *)

\* When LoadLibraryW always gives the same result, a thread that is about to
\* answer sees exactly the pointers that the library provides.
LEMMA Deterministic ==
  ASSUME ~PathUsable \/ LoadOutcomes # BOOLEAN, IInv,
         NEW t \in Threads, NEW f \in Fns,
         pc[t] = "select"
  PROVE  s_fn[f] <=> PathUsable /\ LoadOutcomes = {TRUE} /\ f \in Provided
<1> USE WrapperAssumption
<1>1. phase = "running" /\ s_loaded
  BY DEF IInv, DeadOutsideRun, LoadOnce
<1>2. ASSUME s_fn[f]
      PROVE  PathUsable /\ LoadOutcomes = {TRUE} /\ f \in Provided
  <2>1. TRUE \in LoadOutcomes /\ PathUsable /\ f \in Provided
    BY <1>2 DEF IInv, Origin
  <2> QED
    BY <2>1
<1>3. ASSUME PathUsable, LoadOutcomes = {TRUE}, f \in Provided
      PROVE  s_fn[f]
  <2>1. FALSE \notin outcomes
    BY <1>3 DEF IInv, Origin
  <2> QED
    BY <1>1, <1>3, <2>1 DEF IInv, Complete, Filled
<1> QED
  BY <1>2, <1>3

\* Every step of the wrapper is a step of the service or invisible to the game.
LEMMA StepRefines ==
  ASSUME ~PathUsable \/ LoadOutcomes # BOOLEAN, IInv, [Next]_vars
  PROVE  [Service!Next]_Service!vars
<1> USE DEF Goto, Answer, globals, system, history, Service!vars
<1>0. pc \in [Threads -> Labels] /\ req \in [Threads -> Fns]
  BY DEF IInv, TypeOK
<1> DEFINE stage == [t \in Threads |-> Stage(t)]
           Available == IF PathUsable /\ LoadOutcomes = {TRUE} THEN Provided ELSE {}
<1>1. ASSUME NEW t \in Threads, NEW f \in Fns, Call(t, f)
      PROVE  Service!Next
  <2>1. stage[t] = "idle" /\ stage' = [stage EXCEPT ![t] = "busy"]
    BY <1>0, <1>1 DEF Call, Stage
  <2>2. Service!Call(t, f)
    BY <1>1, <2>1 DEF Call, Service!Call
  <2> QED
    BY <2>2 DEF Service!Next
<1>2. ASSUME NEW t \in Threads, NotConnected(t) \/ Forward(t)
      PROVE  Service!Next
  <2>1. stage[t] = "busy" /\ stage' = [stage EXCEPT ![t] = "idle"]
    BY <1>0, <1>2 DEF NotConnected, Forward, Stage
  <2>2. reply' = [reply EXCEPT ![t] =
                    IF req[t] \in Available THEN "forwarded" ELSE "not_connected"]
    <3>1. CASE NotConnected(t)
      BY <1>0, <3>1, Deterministic DEF NotConnected
    <3>2. CASE Forward(t)
      <4>1. TRUE \in LoadOutcomes /\ PathUsable /\ req[t] \in Provided
        BY <3>2 DEF IInv, Origin, Forward
      <4>2. req[t] \in Available
        BY <4>1, WrapperAssumption
      <4> QED
        BY <3>2, <4>2 DEF Forward
    <3> QED
      BY <1>2, <3>1, <3>2
  <2>3. UNCHANGED req
    BY <1>2 DEF NotConnected, Forward
  <2>4. Service!Answer(t)
    BY <2>1, <2>2, <2>3 DEF Service!Answer
  <2> QED
    BY <2>4 DEF Service!Next
<1>3. ASSUME NEW t \in Threads, LoadStep(t) \/ Select(t)
      PROVE  UNCHANGED Service!vars
  <2>1. stage' = stage
    BY <1>0, <1>3 DEF LoadStep, TestLoaded, Load, Register, NoLibrary, Resolve, Store,
                      Mark, Select, Stage
  <2>2. UNCHANGED <<req, reply>>
    BY <1>3 DEF LoadStep, TestLoaded, Load, Register, NoLibrary, Resolve, Store,
                Mark, Select
  <2> QED
    BY <2>1, <2>2
<1>4. ASSUME \/ Exit
             \/ \E t \in Threads : NullCall(t)
      PROVE  Service!Next
  <2>1. stage' = [t \in Threads |-> "gone"] /\ UNCHANGED <<req, reply>>
    BY <1>0, <1>4 DEF Exit, NullCall, Stage
  <2>2. Service!Exit
    BY <2>1 DEF Service!Exit
  <2> QED
    BY <2>2 DEF Service!Next
<1>5. CASE UnloadXInput \/ Terminated \/ UNCHANGED vars
  BY <1>5 DEF UnloadXInput, Terminated, vars, Stage
<1> QED
  BY <1>1, <1>2, <1>3, <1>4, <1>5 DEF Next, Step, LoadStep, CallStep

\* The safety part of ImplementsService for any number of threads: the game
\* cannot tell the unlocked lazy loading from a library that was always there,
\* or never there, as long as loading it does not sometimes fail.
THEOREM Refinement ==
  ASSUME ~PathUsable \/ LoadOutcomes # BOOLEAN
  PROVE  Spec => Service!Init /\ [][Service!Next]_Service!vars
<1>1. Init => Service!Init
  BY WrapperAssumption DEF Init, Service!Init, Stage, Fns
<1>2. IInv /\ [Next]_vars => [Service!Next]_Service!vars
  BY StepRefines
<1> QED
  BY <1>1, <1>2, Invariance, PTL DEF Spec

-----------------------------------------------------------------------------
(* No thread waits for another. *)

\* How many steps of its own a thread is at most from the answer: two for each
\* pointer it still looks up.
ToAnswer(t) ==
  CASE pc[t] = "forward" -> 1
    [] pc[t] = "select" -> 2
    [] pc[t] = "mark" -> 3
    [] pc[t] = "store" -> 4 + 2 * (NumFns - next[t])
    [] pc[t] = "resolve" -> 5 + 2 * (NumFns - next[t])
    [] pc[t] = "check" -> 4 + 2 * NumFns
    [] pc[t] = "load" -> 5 + 2 * NumFns
    [] pc[t] = "test" -> 6 + 2 * NumFns
    [] OTHER -> 0

\* Each step of a thread in a call brings it nearer to the answer, and no step of
\* another thread takes it away from it.
WaitFree ==
  [][\A t \in Threads :
       /\ Step(t) => ToAnswer(t)' \in 0 .. ToAnswer(t) - 1
       /\ pc[t] # "idle" => ToAnswer(t)' <= ToAnswer(t)]_vars

LEMMA StepNearer ==
  ASSUME TypeOK, NEW t \in Threads, Step(t)
  PROVE  /\ ToAnswer(t) \in Nat /\ ToAnswer(t)' \in 0 .. ToAnswer(t) - 1
         /\ \A u \in Threads : u # t => ToAnswer(u)' = ToAnswer(u) \/ ToAnswer(u)' = 0
<1>1. /\ NumFns \in Nat /\ next[t] \in 1 .. NumFns /\ pc[t] \in Labels
      /\ pc \in [Threads -> Labels] /\ next \in [Threads -> 1 .. NumFns]
  BY WrapperAssumption DEF WrapperAssumption, TypeOK, Fns
<1>2. CASE TestLoaded(t) \/ Load(t) \/ NoLibrary(t)
  BY <1>1, <1>2 DEF TestLoaded, Load, NoLibrary, Goto, ToAnswer
<1>3. CASE Register(t)
  BY <1>1, <1>3 DEF Register, Goto, ToAnswer
<1>4. CASE Resolve(t)
  BY <1>1, <1>4 DEF Resolve, Goto, ToAnswer
<1>5. CASE Store(t)
  <2>1. CASE next[t] = NumFns
    BY <1>1, <1>5, <2>1 DEF Store, Goto, ToAnswer
  <2>2. CASE next[t] # NumFns
    <3>1. /\ pc[t] = "store" /\ pc' = [pc EXCEPT ![t] = "resolve"]
          /\ next' = [next EXCEPT ![t] = next[t] + 1]
      BY <1>1, <1>5, <2>2 DEF Store, Goto
    <3> QED
      BY <1>1, <2>2, <3>1 DEF ToAnswer
  <2> QED
    BY <2>1, <2>2
<1>6. CASE Mark(t) \/ NotConnected(t) \/ Select(t) \/ Forward(t)
  BY <1>1, <1>6 DEF Mark, NotConnected, Select, Forward, Goto, ToAnswer
<1>7. CASE NullCall(t)
  BY <1>1, <1>7 DEF NullCall, ToAnswer
<1> QED
  BY <1>2, <1>3, <1>4, <1>5, <1>6, <1>7 DEF Step, LoadStep, CallStep

\* A thread is idle or in a call, and where it is it cannot be rewound: the steps
\* of a thread are enough for its call to be answered, however many other threads
\* load the library meanwhile (XInput1_3.cpp:62-111).
THEOREM AnswersInTime == Spec => WaitFree
<1>1. ASSUME TypeOK, [Next]_vars
      PROVE  [\A t \in Threads :
                /\ Step(t) => ToAnswer(t)' \in 0 .. ToAnswer(t) - 1
                /\ pc[t] # "idle" => ToAnswer(t)' <= ToAnswer(t)]_vars
  <2> SUFFICES ASSUME NEW t \in Threads
               PROVE  /\ Step(t) => ToAnswer(t)' \in 0 .. ToAnswer(t) - 1
                      /\ pc[t] # "idle" => ToAnswer(t)' <= ToAnswer(t)
    OBVIOUS
  <2>1. Step(t) => ToAnswer(t)' \in 0 .. ToAnswer(t) - 1
    BY <1>1, StepNearer
  <2>2. ToAnswer(t) \in Nat
    <3>1. NumFns \in Nat /\ next[t] \in 1 .. NumFns
      BY <1>1, WrapperAssumption DEF WrapperAssumption, TypeOK, Fns
    <3> QED
      BY <3>1 DEF ToAnswer
  <2>3. CASE \E u \in Threads : Step(u)
    <3>1. PICK u \in Threads : Step(u)
      BY <2>3
    <3>2. CASE u = t
      <4>1. ToAnswer(t)' \in 0 .. ToAnswer(t) - 1
        BY <2>1, <3>1, <3>2
      <4> QED
        BY <2>1, <2>2, <4>1
    <3>3. CASE u # t
      <4>1. ToAnswer(t)' = ToAnswer(t) \/ ToAnswer(t)' = 0
        BY <1>1, <3>1, <3>3, StepNearer
      <4> QED
        BY <2>1, <2>2, <4>1
    <3> QED
      BY <3>2, <3>3
  <2>4. CASE \E u \in Threads, f \in Fns : Call(u, f)
    <3>1. PICK u \in Threads, f \in Fns : Call(u, f)
      BY <2>4
    <3>2. pc[t] # "idle" => pc'[t] = pc[t] /\ next' = next
      BY <1>1, <3>1 DEF Call, Goto, TypeOK
    <3>3. pc[t] # "idle" => ToAnswer(t)' = ToAnswer(t)
      BY <3>2 DEF ToAnswer
    <3> QED
      BY <2>1, <2>2, <3>3
  <2>5. CASE Exit
    <3>1. ToAnswer(t)' = 0
      BY <2>5 DEF Exit, ToAnswer
    <3> QED
      BY <2>1, <2>2, <3>1
  <2>6. CASE UnloadXInput \/ UNCHANGED vars
    <3>1. ToAnswer(t)' = ToAnswer(t)
      BY <2>6 DEF UnloadXInput, vars, ToAnswer
    <3> QED
      BY <2>1, <2>2, <3>1
  <2> QED
    BY <1>1, <2>3, <2>4, <2>5, <2>6 DEF Next, Terminated
<1> QED
  BY <1>1, Typing, PTL DEF Spec, WaitFree
=============================================================================
