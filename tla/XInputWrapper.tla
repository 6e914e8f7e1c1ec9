---------------------------- MODULE XInputWrapper ----------------------------
(***************************************************************************)
(* XInput1_3.cpp: the exported XInput functions and the lazy, unlocked     *)
(* loading of the real library behind them.                                *)
(*                                                                         *)
(* Every exported function calls LoadXInput first and then goes through a  *)
(* static function pointer.  The pointers, the module handle and the flag  *)
(* s_loaded are plain globals: any thread of the game may run any of the   *)
(* steps below between two steps of another.  One action is one access to  *)
(* the shared state.                                                       *)
(*                                                                         *)
(* The path option (lines 66-87) was fixed when the library was attached,  *)
(* so whether it gives a usable path is the constant PathUsable.  A call   *)
(* of LoadLibraryW may return any outcome in LoadOutcomes.                 *)
(***************************************************************************)
EXTENDS Integers

CONSTANTS
  Threads,       \* threads of the game that call XInput
  NumFns,        \* the exported functions are 1..NumFns, in order of lookup
  Provided,      \* those that the configured library exports
  PathUsable,    \* the option XInput.Path is set and converts to a path
  LoadOutcomes   \* what LoadLibraryW may return: TRUE is a handle

Fns == 1 .. NumFns

ASSUME WrapperAssumption ==
  /\ NumFns \in Nat \ {0}
  /\ Provided \subseteq Fns
  /\ PathUsable \in BOOLEAN
  /\ LoadOutcomes \in (SUBSET BOOLEAN) \ {{}}

VARIABLES
  s_loaded,    \* the flag tested first
  s_xinput,    \* TRUE: the handle is not null
  s_fn,        \* s_fn[f]: the pointer of function f is not null
  pc,          \* pc[t]: where thread t is
  req,         \* req[t]: the function thread t called
  next,        \* next[t]: the function whose address t looks up
  proc,        \* proc[t]: the address it found, not stored yet, is not null
  reply,       \* reply[t]: the answer of the last call of t
  refs,        \* references to the real library held by this process
  handlers,    \* registrations of UnloadXInput with atexit
  phase,       \* "running", "exiting", "crashed"
  attempts,    \* history: calls of LoadLibraryW made by each thread
  outcomes     \* history: what those calls have returned

globals == <<s_loaded, s_xinput, s_fn>>
system == <<refs, handlers, phase>>
history == <<attempts, outcomes>>
vars == <<globals, pc, req, next, proc, reply, system, history>>

Labels == {"idle", "test", "load", "check", "resolve", "store", "mark",
           "select", "forward", "dead"}

Init ==
  /\ s_loaded = FALSE
  /\ s_xinput = FALSE
  /\ s_fn = [f \in Fns |-> FALSE]
  /\ pc = [t \in Threads |-> "idle"]
  /\ req = [t \in Threads |-> 1]
  /\ next = [t \in Threads |-> 1]
  /\ proc = [t \in Threads |-> FALSE]
  /\ reply = [t \in Threads |-> "none"]
  /\ refs = 0
  /\ handlers = 0
  /\ phase = "running"
  /\ attempts = [t \in Threads |-> 0]
  /\ outcomes = {}

Goto(t, from, to) == pc[t] = from /\ pc' = [pc EXCEPT ![t] = to]

-----------------------------------------------------------------------------
(* The game calls an exported function. *)

Call(t, f) ==
  /\ Goto(t, "idle", "test")
  /\ req' = [req EXCEPT ![t] = f]
  /\ reply' = [reply EXCEPT ![t] = "none"]
  /\ UNCHANGED <<globals, next, proc, system, history>>

-----------------------------------------------------------------------------
(* LoadXInput. *)

\* Mutant: the flag is set on the way in, before the pointers are filled.
TestLoadedFlagFirst(t) ==
  /\ Goto(t, "test", IF s_loaded THEN "select"
                     ELSE IF PathUsable THEN "load" ELSE "mark")
  /\ s_loaded' = TRUE
  /\ UNCHANGED <<s_xinput, s_fn, req, next, proc, reply, system, history>>

TestLoaded(t) ==
  /\ Goto(t, "test", IF s_loaded THEN "select"
                     ELSE IF PathUsable THEN "load" ELSE "mark")
  /\ UNCHANGED <<globals, req, next, proc, reply, system, history>>

\* Mutant: the pointers are reset before the library is asked for again.
LoadResets(t) ==
  /\ Goto(t, "load", "check")
  /\ \E found \in LoadOutcomes :
       /\ s_xinput' = found
       /\ refs' = IF found THEN refs + 1 ELSE refs
       /\ outcomes' = outcomes \cup {found}
  /\ s_fn' = [f \in Fns |-> FALSE]
  /\ attempts' = [attempts EXCEPT ![t] = @ + 1]
  /\ UNCHANGED <<s_loaded, req, next, proc, reply, handlers, phase>>

Load(t) ==
  /\ Goto(t, "load", "check")
  /\ \E found \in LoadOutcomes :
       /\ s_xinput' = found
       /\ refs' = IF found THEN refs + 1 ELSE refs
       /\ outcomes' = outcomes \cup {found}
  /\ attempts' = [attempts EXCEPT ![t] = @ + 1]
  /\ UNCHANGED <<s_loaded, s_fn, req, next, proc, reply, handlers, phase>>

\* The handle is read again: another thread may have replaced it.
Register(t) ==
  /\ s_xinput
  /\ Goto(t, "check", "resolve")
  /\ handlers' = handlers + 1
  /\ next' = [next EXCEPT ![t] = 1]
  /\ UNCHANGED <<globals, req, proc, reply, refs, phase, history>>

NoLibrary(t) ==
  /\ ~s_xinput
  /\ Goto(t, "check", "mark")
  /\ UNCHANGED <<globals, req, next, proc, reply, system, history>>

\* GetProcAddress with whatever handle s_xinput holds by now.  With a null
\* handle it searches the executable, which exports none of the functions.
Resolve(t) ==
  /\ Goto(t, "resolve", "store")
  /\ proc' = [proc EXCEPT ![t] = s_xinput /\ next[t] \in Provided]
  /\ UNCHANGED <<globals, req, next, reply, system, history>>

\* Mutant: the lookup runs one function past the table.
StorePastEnd(t) ==
  /\ Goto(t, "store", IF next[t] = NumFns THEN "mark" ELSE "resolve")
  /\ s_fn' = [s_fn EXCEPT ![next[t]] = proc[t]]
  /\ next' = [next EXCEPT ![t] = @ + 1]
  /\ UNCHANGED <<s_loaded, s_xinput, req, proc, reply, system, history>>

Store(t) ==
  /\ Goto(t, "store", IF next[t] = NumFns THEN "mark" ELSE "resolve")
  /\ s_fn' = [s_fn EXCEPT ![next[t]] = proc[t]]
  /\ next' = [next EXCEPT ![t] = IF @ = NumFns THEN 1 ELSE @ + 1]
  /\ UNCHANGED <<s_loaded, s_xinput, req, proc, reply, system, history>>

\* Mutant: a failed load is not flagged as loaded.
MarkIfFound(t) ==
  /\ Goto(t, "mark", "select")
  /\ s_loaded' = s_xinput
  /\ UNCHANGED <<s_xinput, s_fn, req, next, proc, reply, system, history>>

\* Reached whether or not the library was found.
Mark(t) ==
  /\ Goto(t, "mark", "select")
  /\ s_loaded' = TRUE
  /\ UNCHANGED <<s_xinput, s_fn, req, next, proc, reply, system, history>>

-----------------------------------------------------------------------------
(* The body of the exported function. *)

Answer(t, answer) == reply' = [reply EXCEPT ![t] = answer]

NotConnected(t) ==
  /\ ~s_fn[req[t]]
  /\ Goto(t, "select", "idle")
  /\ Answer(t, "not_connected")
  /\ UNCHANGED <<globals, req, next, proc, system, history>>

Select(t) ==
  /\ s_fn[req[t]]
  /\ Goto(t, "select", "forward")
  /\ UNCHANGED <<globals, req, next, proc, reply, system, history>>

\* An optimised build calls the pointer it tested.
Forward(t) ==
  /\ Goto(t, "forward", "idle")
  /\ Answer(t, "forwarded")
  /\ UNCHANGED <<globals, req, next, proc, system, history>>

\* A debug build reads the pointer again and may find that it is null now.
NullCall(t) ==
  /\ ~s_fn[req[t]]
  /\ pc[t] = "forward"
  /\ pc' = [u \in Threads |-> "dead"]
  /\ phase' = "crashed"
  /\ UNCHANGED <<globals, req, next, proc, reply, refs, handlers, history>>

-----------------------------------------------------------------------------
(* The process exits: the system ends every other thread wherever it is,   *)
(* then the library is detached and runs its atexit handlers.              *)

Exit ==
  /\ phase = "running"
  /\ phase' = "exiting"
  /\ pc' = [t \in Threads |-> "dead"]
  /\ UNCHANGED <<globals, req, next, proc, reply, refs, handlers, history>>

\* Mutant: the handle is freed but not forgotten.
UnloadKeepsHandle ==
  /\ phase = "exiting"
  /\ handlers > 0
  /\ handlers' = handlers - 1
  /\ s_fn' = [f \in Fns |-> FALSE]
  /\ refs' = IF s_xinput THEN refs - 1 ELSE refs
  /\ UNCHANGED <<s_loaded, s_xinput, pc, req, next, proc, reply, phase, history>>

UnloadXInput ==
  /\ phase = "exiting"
  /\ handlers > 0
  /\ handlers' = handlers - 1
  /\ s_fn' = [f \in Fns |-> FALSE]
  /\ s_xinput' = FALSE
  /\ refs' = IF s_xinput THEN refs - 1 ELSE refs
  /\ UNCHANGED <<s_loaded, pc, req, next, proc, reply, phase, history>>

Terminated ==
  /\ phase = "crashed" \/ (phase = "exiting" /\ handlers = 0)
  /\ UNCHANGED vars

-----------------------------------------------------------------------------
LoadStep(t) ==
  \/ TestLoaded(t) \/ Load(t) \/ Register(t) \/ NoLibrary(t)
  \/ Resolve(t) \/ Store(t) \/ Mark(t)

CallStep(t) == NotConnected(t) \/ Select(t) \/ Forward(t) \/ NullCall(t)

Step(t) == LoadStep(t) \/ CallStep(t)

Next ==
  \/ \E t \in Threads : Step(t) \/ \E f \in Fns : Call(t, f)
  \/ Exit
  \/ UnloadXInput
  \/ Terminated

\* A thread inside a call keeps running; nothing makes the game call or exit.
Fairness == \A t \in Threads : WF_vars(Step(t))

Spec == Init /\ [][Next]_vars /\ Fairness

-----------------------------------------------------------------------------
(* Correctness. *)

TypeOK ==
  /\ s_loaded \in BOOLEAN /\ s_xinput \in BOOLEAN
  /\ s_fn \in [Fns -> BOOLEAN]
  /\ pc \in [Threads -> Labels]
  /\ req \in [Threads -> Fns] /\ next \in [Threads -> Fns]
  /\ proc \in [Threads -> BOOLEAN]
  /\ reply \in [Threads -> {"none", "forwarded", "not_connected"}]
  /\ refs \in Nat /\ handlers \in Nat
  /\ phase \in {"running", "exiting", "crashed"}
  /\ attempts \in [Threads -> Nat]
  /\ outcomes \in SUBSET BOOLEAN

\* A call is answered "not connected" only for a reason: the function is not
\* there, no path is configured, or the library failed to load for some
\* thread.  In particular no thread can see s_loaded set and find the pointers
\* half filled in by another (XInput1_3.cpp:93-111).  A call is forwarded only
\* to a function that a successfully loaded library provides.
ReplyJustified ==
  \A t \in Threads :
    /\ reply[t] = "forwarded" => req[t] \in Provided /\ TRUE \in outcomes
    /\ reply[t] = "not_connected" =>
         req[t] \notin Provided \/ ~PathUsable \/ FALSE \in outcomes

\* "We should always flag it as loaded, even if it failed.  If not, we will
\* just keep trying over and over": no thread asks for the library twice
\* (XInput1_3.cpp:109-111).
AttemptsOnce == \A t \in Threads : attempts[t] <= 1

\* The handle and the pointers are used only while the process holds a
\* reference to the library, although racing loads register the unload handler
\* more than once (XInput1_3.cpp:40-58, 91).
HandleHeld == s_xinput \/ (\E f \in Fns : s_fn[f]) => refs > 0

\* Only a load that fails while another thread's load succeeds can clear a
\* pointer between the test and the call of an exported function
\* (XInput1_3.cpp:88, 124-126).
CrashNeedsMixedLoads == phase = "crashed" => outcomes = BOOLEAN

Stage(t) == CASE pc[t] = "idle" -> "idle"
              [] pc[t] = "dead" -> "gone"
              [] OTHER -> "busy"

\* When loading always gives the same result the wrapper is the service of
\* XInputService: the interleavings of lines 62-111 are invisible to the game
\* and every call is answered.
Service == INSTANCE XInputService WITH
  Available <- IF PathUsable /\ LoadOutcomes = {TRUE} THEN Provided ELSE {},
  stage <- [t \in Threads |-> Stage(t)]

ImplementsService == Service!Spec
=============================================================================
