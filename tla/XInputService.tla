---------------------------- MODULE XInputService ----------------------------
(***************************************************************************)
(* What the XInput wrapper promises to the game, without saying how: a     *)
(* call to an exported function is answered once, by the real XInput       *)
(* library when the function is available there and with                   *)
(* ERROR_DEVICE_NOT_CONNECTED when it is not.  The answer depends on the   *)
(* function alone, never on which thread calls or on what the other        *)
(* threads are doing.                                                      *)
(***************************************************************************)
CONSTANTS
  Threads,     \* threads of the game that call the wrapper
  Fns,         \* functions the wrapper exports
  Available    \* those that the real library provides

VARIABLES
  stage,       \* stage[t]: "idle", "busy" in a call, "gone" with the process
  req,         \* req[t]: the function of the current or last call
  reply        \* reply[t]: the answer of the last call, "none" before it

vars == <<stage, req, reply>>

Init ==
  /\ stage = [t \in Threads |-> "idle"]
  /\ req \in [Threads -> Fns]
  /\ reply = [t \in Threads |-> "none"]

Call(t, f) ==
  /\ stage[t] = "idle"
  /\ stage' = [stage EXCEPT ![t] = "busy"]
  /\ req' = [req EXCEPT ![t] = f]
  /\ reply' = [reply EXCEPT ![t] = "none"]

Answer(t) ==
  /\ stage[t] = "busy"
  /\ stage' = [stage EXCEPT ![t] = "idle"]
  /\ reply' = [reply EXCEPT ![t] =
                 IF req[t] \in Available THEN "forwarded" ELSE "not_connected"]
  /\ UNCHANGED req

\* The process exits; calls in progress are never answered.
Exit ==
  /\ stage' = [t \in Threads |-> "gone"]
  /\ UNCHANGED <<req, reply>>

Next ==
  \/ \E t \in Threads : Answer(t) \/ \E f \in Fns : Call(t, f)
  \/ Exit

Spec == Init /\ [][Next]_vars /\ \A t \in Threads : WF_vars(Answer(t))
=============================================================================
