------------------------------- MODULE VfTable -------------------------------
(***************************************************************************)
(* hooks.cpp: VfTable::Inject puts a function of the wrench into one entry *)
(* of a virtual table of the running game, and keeps what was there so     *)
(* that the replacement can call it.                                       *)
(*                                                                         *)
(* The render thread injects, from a device-creation callback, while other *)
(* threads call the method through the same entry.  Nothing is locked: the *)
(* two exchanges of Inject are the only synchronisation.  Both callers of  *)
(* Inject (uiscale and backdrop in dllmain.cpp) use a replacement that     *)
(* calls *prev exactly once.                                               *)
(***************************************************************************)
EXTENDS Integers

CONSTANTS
  Threads,      \* threads of the game that call the method
  Injections,   \* bound: how often a device is created, so Inject is called
  StackDepth    \* bound: frames of the replacement that fit on a stack

ASSUME VfTableAssumption == Injections \in Nat /\ StackDepth \in Nat \ {0}

VARIABLES
  entry,      \* the table entry: "original" or "hook"
  prev,       \* the saved pointer: "null", "original" or "hook"
  inject,     \* where Inject is: "idle", "save" or "publish"
  injected,   \* calls of Inject so far
  pc,         \* pc[t]: where thread t is in a call of the method
  depth,      \* depth[t]: frames of the replacement on the stack of t
  reached     \* history: reached[t] times the call got to the original

slot == <<entry, prev>>
injector == <<inject, injected>>
calls == <<pc, depth, reached>>
vars == <<slot, injector, calls>>

Init ==
  /\ entry = "original"
  /\ prev = "null"
  /\ inject = "idle"
  /\ injected = 0
  /\ pc = [t \in Threads |-> "idle"]
  /\ depth = [t \in Threads |-> 0]
  /\ reached = [t \in Threads |-> 0]

-----------------------------------------------------------------------------
(* Inject. *)

\* Make the entry writable.  When that fails nothing is injected.
Unprotect ==
  /\ inject = "idle"
  /\ injected < Injections
  /\ injected' = injected + 1
  /\ inject' \in {"save", "idle"}
  /\ UNCHANGED <<slot, calls>>

\* Mutant: the entry is replaced before its old value is saved.
PublishEarly ==
  /\ inject = "save"
  /\ inject' = "publish"
  /\ entry' = "hook"
  /\ UNCHANGED <<prev, injected, calls>>

SavePrev ==
  /\ inject = "save"
  /\ inject' = "publish"
  /\ prev' = entry
  /\ UNCHANGED <<entry, injected, calls>>

\* Restoring the protection afterwards changes nothing a thread can see.
Publish ==
  /\ inject = "publish"
  /\ inject' = "idle"
  /\ entry' = "hook"
  /\ UNCHANGED <<prev, injected, calls>>

-----------------------------------------------------------------------------
(* A call of the method by the game. *)

Goto(t, from, to) == pc[t] = from /\ pc' = [pc EXCEPT ![t] = to]

Call(t) ==
  /\ Goto(t, "idle", entry)
  /\ depth' = [depth EXCEPT ![t] = IF entry = "hook" THEN 1 ELSE 0]
  /\ reached' = [reached EXCEPT ![t] = 0]
  /\ UNCHANGED <<slot, injector>>

\* The replacement calls whatever prev points to when it gets there.
Callee(t) == CASE prev = "null" -> "crashed"
               [] prev = "hook" /\ depth[t] = StackDepth -> "crashed"
               [] OTHER -> prev

\* Mutant: the replacement returns without calling the original.
CallPrevSkipped(t) ==
  /\ Goto(t, "hook", "return")
  /\ UNCHANGED <<slot, injector, depth, reached>>

CallPrev(t) ==
  /\ Goto(t, "hook", Callee(t))
  /\ depth' = [depth EXCEPT ![t] = IF Callee(t) = "hook" THEN @ + 1 ELSE @]
  /\ UNCHANGED <<slot, injector, reached>>

RunOriginal(t) ==
  /\ Goto(t, "original", "return")
  /\ reached' = [reached EXCEPT ![t] = @ + 1]
  /\ UNCHANGED <<slot, injector, depth>>

Return(t) ==
  /\ Goto(t, "return", "idle")
  /\ depth' = [depth EXCEPT ![t] = 0]
  /\ UNCHANGED <<slot, injector, reached>>

-----------------------------------------------------------------------------
\* The game's calls neither go through a null pointer nor overflow the stack.
Alive == \A t \in Threads : pc[t] # "crashed"

Inject == Unprotect \/ SavePrev \/ Publish

Step(t) == CallPrev(t) \/ RunOriginal(t) \/ Return(t)

Next == Alive /\ (Inject \/ \E t \in Threads : Call(t) \/ Step(t))

\* A thread inside the method keeps running; the game calls when it likes.
Spec == Init /\ [][Next]_vars /\ \A t \in Threads : WF_vars(Alive /\ Step(t))

-----------------------------------------------------------------------------
(* Correctness. *)

TypeOK ==
  /\ entry \in {"original", "hook"}
  /\ prev \in {"null", "original", "hook"}
  /\ inject \in {"idle", "save", "publish"}
  /\ injected \in 0 .. Injections
  /\ pc \in [Threads -> {"idle", "hook", "original", "return", "crashed"}]
  /\ depth \in [Threads -> 0 .. StackDepth]
  /\ reached \in [Threads -> 0 .. 1]

\* However the game's calls fall between the two exchanges of Inject, a thread
\* inside the replacement finds the original behind prev (hooks.cpp:232-233).
HookReachesOriginal ==
  (entry = "hook" \/ \E t \in Threads : pc[t] = "hook") => prev = "original"

\* A call comes back only after the original ran once, injected or not
\* (dllmain.cpp:107, 237).
OriginalOnce ==
  \A t \in Threads : pc[t] = "return" => reached[t] = 1

\* Every call of the method comes back.
CallsReturn == \A t \in Threads : pc[t] # "idle" ~> pc[t] = "idle"
=============================================================================
