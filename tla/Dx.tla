--------------------------------- MODULE Dx ----------------------------------
(***************************************************************************)
(* dx.cpp: the hooks around Direct3D 11.                                   *)
(*                                                                         *)
(* While the library is attached the features register callbacks and the   *)
(* creation function is detoured.  Each creation then remembers the swap   *)
(* chain, detours the methods that a callback wants (once per process),    *)
(* and runs the callbacks.  The hook of ResizeBuffers tells the viewport   *)
(* callbacks the new size of the remembered chain; those of the context    *)
(* tell of memory that is mapped, and of constant buffers that are set.    *)
(*                                                                         *)
(* A size stands for a width and a height; 0 for a pair with a zero in it, *)
(* which asks Direct3D for the size of the window.  One action is one      *)
(* access to the statics, one callback or one call of Direct3D.            *)
(***************************************************************************)
EXTENDS Integers, Sequences

CONSTANTS
  Threads,     \* threads of the game that call Direct3D
  Creators,    \* those that create devices
  Users,       \* those that use the context
  Clients,     \* the features, in the order in which they are initialised
  Wants,       \* Wants[c]: the kinds of callback that feature c registers
  Chains,      \* addresses of swap chains
  NoChain,     \* the null pointer
  Sizes,       \* sizes of back buffers
  DescSizes,   \* sizes that descriptions passed to creation may have
  Buffers,     \* constant buffers
  MayFail,     \* methods whose detour may fail
  Devices      \* bound: devices that are created

Methods == {"map", "unmap", "constants", "viewport"}
Kinds == {"create"} \cup Methods
NoSize == -1
NoBuffer == 0
ClientNames == {Clients[k] : k \in DOMAIN Clients}

ASSUME DxAssumption ==
  /\ Creators \subseteq Threads /\ Users \subseteq Threads
  /\ Clients \in Seq(ClientNames)
  /\ Wants \in [ClientNames -> SUBSET Kinds]
  /\ NoChain \notin Chains
  /\ Sizes \subseteq Nat \ {0} /\ Sizes # {}
  /\ DescSizes \subseteq Sizes \cup {0}
  /\ MayFail \subseteq Methods /\ Devices \in Nat
  /\ Buffers \subseteq Nat \ {NoBuffer}

VARIABLES
  boot,          \* features initialised so far, plus one for dx::Init
  callbacks,     \* callbacks[k]: the clients registered for kind k, in order
  hooked,        \* the creation function is detoured
  s_swapChain,   \* the remembered chain, possibly dangling
  valid,         \* valid[v]: static table v ("context" or "chain") is set
  detours,       \* history: detours[m]: how often method m was detoured
  failed,        \* history: the methods that could not be detoured
  saved,         \* saved[m]: where the pointer to the original of method m leads
  held,          \* chains that the game holds
  given,         \* the game has a device, and so a context
  created,       \* devices created so far
  size,          \* size[c]: size of the back buffers of chain c, 0 without any
  context,       \* what the context does: a resource is mapped, a buffer set
  pc,            \* pc[t]: where thread t is
  chain,         \* chain[t]: the chain its hook is about
  desc,          \* desc[t]: the size passed in or read, NoSize without description
  out,           \* out[t]: the caller of creation wants the chain
  k,             \* k[t]: the callback to run next
  told,          \* history: told[c]: the device callback of c has run
  seen,          \* history: seen[c]: last size told to c, NoSize before
  knows,         \* history: knows[c]: what c was told of the context
  missed,        \* history: the last size could not be read, or a creation told 0
  overlap        \* history: what two threads were in at once, "hooks" or "creations"

statics == <<s_swapChain, valid>>
locals == <<chain, desc, out, k>>
chains == <<held, given, created, size>>
world == <<chains, context>>
viewports == <<seen, missed>>
history == <<told, viewports, knows, overlap>>
setup == <<boot, callbacks, hooked>>
hooks == <<detours, failed, saved>>
vars == <<setup, statics, hooks, world, pc, locals, history>>

Tables == {"context", "chain"}
Creating == {"track", "context", "setContext", "detourMap", "saveMap", "detourUnmap",
             "saveUnmap", "detourConstants", "saveConstants", "chain", "setChain",
             "detourChain", "saveChain", "created", "viewport", "finish"}
Resizing == {"resized", "describe", "announce"}
Using == {"mapped", "unmapping", "bound"}
Labels == Creating \cup Resizing \cup Using \cup {"idle", "crashed", "lost"}

\* A saved pointer is null until a detour succeeds; a trampoline made of a method
\* that was detoured before holds a jump that cannot be moved.
Pointers == {"null", "original", "astray"}

\* What a context does at first: nothing is mapped and no buffer is set.
Fallow == [mapped |-> FALSE, buffer |-> NoBuffer]

Init ==
  /\ boot = 0
  /\ callbacks = [kind \in Kinds |-> <<>>]
  /\ hooked = FALSE
  /\ s_swapChain = NoChain
  /\ valid = [v \in Tables |-> FALSE]
  /\ detours = [m \in Methods |-> 0]
  /\ failed = {}
  /\ saved = [m \in Methods |-> "null"]
  /\ held = {}
  /\ given = FALSE
  /\ created = 0
  /\ size = [c \in Chains |-> 0]
  /\ context = Fallow
  /\ pc = [t \in Threads |-> "idle"]
  /\ chain = [t \in Threads |-> NoChain]
  /\ desc = [t \in Threads |-> NoSize]
  /\ out = [t \in Threads |-> FALSE]
  /\ k = [t \in Threads |-> 1]
  /\ told = [c \in ClientNames |-> FALSE]
  /\ seen = [c \in ClientNames |-> NoSize]
  /\ knows = [c \in ClientNames |-> Fallow]
  /\ missed = FALSE
  /\ overlap = {}

Goto(t, from, to) == pc[t] = from /\ pc' = [pc EXCEPT ![t] = to]

-----------------------------------------------------------------------------
(* Attaching the library: uiscale::Init, backdrop::Init, dx::Init.         *)

\* Mutant: the creation function is detoured before the features register.
RegisterLate ==
  /\ boot < Len(Clients)
  /\ boot' = boot + 1
  /\ hooked' = TRUE
  /\ callbacks' = [kind \in Kinds |->
                     IF kind \in Wants[Clients[boot + 1]]
                     THEN Append(callbacks[kind], Clients[boot + 1])
                     ELSE callbacks[kind]]
  /\ UNCHANGED <<statics, hooks, world, pc, locals, history>>

\* A feature that the options turn off registers nothing.
Register ==
  /\ boot < Len(Clients)
  /\ boot' = boot + 1
  /\ LET c == Clients[boot + 1] IN
     \E enabled \in BOOLEAN :
       callbacks' = [kind \in Kinds |->
                      IF enabled /\ kind \in Wants[c] THEN Append(callbacks[kind], c)
                      ELSE callbacks[kind]]
  /\ UNCHANGED <<hooked, statics, hooks, world, pc, locals, history>>

\* Without Direct3D in the process, or when the detour fails, nothing is hooked.
DxInit ==
  /\ boot = Len(Clients)
  /\ boot' = boot + 1
  /\ hooked' \in BOOLEAN
  /\ UNCHANGED <<callbacks, statics, hooks, world, pc, locals, history>>

-----------------------------------------------------------------------------
(* CreateDeviceAndSwapChain.  A creation that fails returns at once and    *)
(* changes nothing.  The hook always asks for the context and the device,  *)
(* so they are never null; the chain is null if no description was given.  *)

Fresh == Chains \ (held \cup {chain[t] : t \in Threads})

Others(t, labels) == \E u \in Threads \ {t} : pc[u] \in labels

Enter(t) ==
  /\ overlap' = overlap \cup (IF Others(t, Creating \cup Resizing) THEN {"hooks"} ELSE {})
                        \cup (IF pc'[t] = "track" /\ Others(t, Creating) THEN {"creations"}
                              ELSE {})
  /\ UNCHANGED <<told, viewports, knows>>

CreateDevice(t) ==
  /\ hooked
  /\ t \in Creators /\ created < Devices
  /\ created' = created + 1
  /\ Goto(t, "idle", "track")
  /\ out' \in {[out EXCEPT ![t] = b] : b \in BOOLEAN}
  /\ \/ UNCHANGED <<chain, desc, size>>
     \/ \E c \in Fresh, d \in DescSizes, s \in Sizes :
          /\ d # 0 => s = d
          /\ chain' = [chain EXCEPT ![t] = c]
          /\ desc' = [desc EXCEPT ![t] = d]
          /\ size' = [size EXCEPT ![c] = s]
  /\ Enter(t)
  /\ UNCHANGED <<setup, statics, hooks, held, given, context, k>>

\* Mutant: only the first chain is remembered.
TrackFirst(t) ==
  /\ Goto(t, "track", "context")
  /\ s_swapChain' = IF s_swapChain = NoChain THEN chain[t] ELSE s_swapChain
  /\ UNCHANGED <<setup, valid, hooks, world, locals, history>>

Track(t) ==
  /\ Goto(t, "track", "context")
  /\ s_swapChain' = chain[t]
  /\ UNCHANGED <<setup, valid, hooks, world, locals, history>>

\* Mutant: the static table is not consulted.
TestContextAlways(t) ==
  /\ Goto(t, "context", "setContext")
  /\ UNCHANGED <<setup, statics, hooks, world, locals, history>>

TestContext(t) ==
  /\ Goto(t, "context", IF valid["context"] THEN "chain" ELSE "setContext")
  /\ UNCHANGED <<setup, statics, hooks, world, locals, history>>

SetContext(t) ==
  /\ Goto(t, "setContext", "detourMap")
  /\ valid' = [valid EXCEPT !["context"] = TRUE]
  /\ UNCHANGED <<setup, s_swapChain, hooks, world, locals, history>>

\* DetourImpl begins by clearing the pointer.  It may fail, for want of memory
\* near the method or because its code cannot be moved, and is not tried again.
Fail(m) ==
  /\ callbacks[m] # <<>> /\ m \in MayFail
  /\ failed' = failed \cup {m}
  /\ saved' = [saved EXCEPT ![m] = "null"]
  /\ UNCHANGED detours

Patch(m) ==
  /\ callbacks[m] # <<>>
  /\ detours' = [detours EXCEPT ![m] = @ + 1]
  /\ saved' = [saved EXCEPT ![m] = "null"]
  /\ UNCHANGED failed

\* Of two detours of one method either may have copied the jump of the other.
Save(m) ==
  /\ \E p \in {"original"} \cup (IF detours[m] > 1 THEN {"astray"} ELSE {}) :
       saved' = [saved EXCEPT ![m] = p]
  /\ UNCHANGED <<detours, failed>>

\* Only what a feature wants is detoured, in two steps: the method is patched
\* before the pointer is set.
Detour(t, m, at, save, then) ==
  \/ Goto(t, at, then) /\ (Fail(m) \/ (callbacks[m] = <<>> /\ UNCHANGED hooks))
  \/ Goto(t, at, save) /\ Patch(m)
  \/ Goto(t, save, then) /\ Save(m)

DetourContext(t) ==
  /\ \/ Detour(t, "map", "detourMap", "saveMap", "detourUnmap")
     \/ Detour(t, "unmap", "detourUnmap", "saveUnmap", "detourConstants")
     \/ Detour(t, "constants", "detourConstants", "saveConstants", "chain")
  /\ UNCHANGED <<setup, statics, world, locals, history>>

\* Mutant: the static table is not consulted.
TestChainAlways(t) ==
  /\ Goto(t, "chain", IF chain[t] # NoChain THEN "setChain" ELSE "created")
  /\ UNCHANGED <<setup, statics, hooks, world, locals, history>>

TestChain(t) ==
  /\ Goto(t, "chain", IF chain[t] # NoChain /\ ~valid["chain"] THEN "setChain"
                      ELSE "created")
  /\ UNCHANGED <<setup, statics, hooks, world, locals, history>>

SetChain(t) ==
  /\ Goto(t, "setChain", "detourChain")
  /\ valid' = [valid EXCEPT !["chain"] = TRUE]
  /\ UNCHANGED <<setup, s_swapChain, hooks, world, locals, history>>

DetourChain(t) ==
  /\ Detour(t, "viewport", "detourChain", "saveChain", "created")
  /\ UNCHANGED <<setup, statics, world, locals, history>>

CreateCallback(t) ==
  /\ pc[t] = "created"
  /\ k[t] <= Len(callbacks["create"])
  /\ told' = [told EXCEPT ![callbacks["create"][k[t]]] = TRUE]
  /\ k' = [k EXCEPT ![t] = @ + 1]
  /\ UNCHANGED <<setup, statics, hooks, world, pc, chain, desc, out, viewports, knows, overlap>>

\* Mutant: the last device callback is left out.
CreateCallbacksDoneEarly(t) ==
  /\ k[t] >= Len(callbacks["create"])
  /\ Goto(t, "created", IF chain[t] # NoChain THEN "viewport" ELSE "finish")
  /\ k' = [k EXCEPT ![t] = 1]
  /\ UNCHANGED <<setup, statics, hooks, world, chain, desc, out, history>>

\* Mutant: the second loop starts before the first callback.
CreateCallbacksDoneAtZero(t) ==
  /\ k[t] > Len(callbacks["create"])
  /\ Goto(t, "created", IF chain[t] # NoChain THEN "viewport" ELSE "finish")
  /\ k' = [k EXCEPT ![t] = 0]
  /\ UNCHANGED <<setup, statics, hooks, world, chain, desc, out, history>>

CreateCallbacksDone(t) ==
  /\ k[t] > Len(callbacks["create"])
  /\ Goto(t, "created", IF chain[t] # NoChain THEN "viewport" ELSE "finish")
  /\ k' = [k EXCEPT ![t] = 1]
  /\ UNCHANGED <<setup, statics, hooks, world, chain, desc, out, history>>

\* The viewport callbacks are told desc[t]: after a creation the size that was
\* asked for, after a resize the size that was asked for or read back.
ViewportCallback(t) ==
  /\ pc[t] \in {"viewport", "announce"}
  /\ k[t] <= Len(callbacks["viewport"])
  /\ seen' = [seen EXCEPT ![callbacks["viewport"][k[t]]] = desc[t]]
  /\ k' = [k EXCEPT ![t] = @ + 1]
  /\ missed' = (pc[t] = "viewport" /\ desc[t] = 0)
  /\ UNCHANGED <<setup, statics, hooks, world, pc, chain, desc, out, told, knows, overlap>>

Forget(t) ==
  /\ chain' = [chain EXCEPT ![t] = NoChain]
  /\ desc' = [desc EXCEPT ![t] = NoSize]
  /\ out' = [out EXCEPT ![t] = FALSE]
  /\ k' = [k EXCEPT ![t] = 1]

ViewportCallbacksDone(t) ==
  /\ k[t] > Len(callbacks["viewport"])
  /\ \/ Goto(t, "viewport", "finish") /\ UNCHANGED locals
     \/ Goto(t, "announce", "idle") /\ Forget(t)
  /\ UNCHANGED <<setup, statics, hooks, world, history>>

\* The chain goes to the caller, or is released and so destroyed; the caller may
\* keep the device and the context.
Finish(t) ==
  /\ out[t] \/ chain[t] # NoChain
  /\ Goto(t, "finish", "idle")
  /\ held' = IF out[t] THEN held \cup ({chain[t]} \ {NoChain}) ELSE held
  /\ size' = [c \in Chains |-> IF ~out[t] /\ c = chain[t] THEN 0 ELSE size[c]]
  /\ given' = TRUE
  /\ Forget(t)
  /\ UNCHANGED <<setup, statics, hooks, created, context, history>>

\* A caller that gave no description and wants no chain.
ReleaseNull(t) ==
  /\ ~out[t] /\ chain[t] = NoChain
  /\ Goto(t, "finish", "crashed")
  /\ UNCHANGED <<setup, statics, hooks, world, locals, history>>

-----------------------------------------------------------------------------
(* SwapChainResizeBuffers, reached once ResizeBuffers is detoured.         *)

\* A hook finds the original behind the saved pointer, or the game dies.
Intact(m) == detours[m] = 0 \/ saved[m] = "original"

CallLost(t, m, from) ==
  /\ ~Intact(m) /\ Goto(t, from, "lost")
  /\ UNCHANGED <<setup, statics, hooks, world, locals, history>>

ResizeLost(t) == held # {} /\ CallLost(t, "viewport", "idle")

ResizeBuffers(t) ==
  \E c \in held, w \in Sizes \cup {0}, s \in Sizes :
    /\ Intact("viewport")
    /\ w # 0 => s = w
    /\ size' = [size EXCEPT ![c] = s]
    /\ IF detours["viewport"] = 0
       THEN pc[t] = "idle" /\ UNCHANGED <<pc, chain, desc>>
       ELSE /\ Goto(t, "idle", "resized")
            /\ chain' = [chain EXCEPT ![t] = c]
            /\ desc' = [desc EXCEPT ![t] = w]
    /\ Enter(t)
    /\ UNCHANGED <<setup, statics, hooks, held, given, created, context, out, k>>

OtherChain(t) ==
  /\ s_swapChain # chain[t]
  /\ Goto(t, "resized", "idle")
  /\ Forget(t)
  /\ UNCHANGED <<setup, statics, hooks, world, history>>

TrackedChain(t) ==
  /\ s_swapChain = chain[t]
  /\ Goto(t, "resized", IF desc[t] = 0 THEN "describe" ELSE "announce")
  /\ UNCHANGED <<setup, statics, hooks, world, locals, history>>

GetDesc(t) ==
  /\ Goto(t, "describe", "announce")
  /\ desc' = [desc EXCEPT ![t] = size[chain[t]]]
  /\ UNCHANGED <<setup, statics, hooks, world, chain, out, k, history>>

GetDescFails(t) ==
  /\ Goto(t, "describe", "idle")
  /\ missed' = TRUE
  /\ Forget(t)
  /\ UNCHANGED <<setup, statics, hooks, world, told, seen, knows, overlap>>

-----------------------------------------------------------------------------
(* DeviceContextMap, DeviceContextUnmap and DeviceContextVsSetConstantBuffers. *)
(* The game has a context once a creation has returned, and its threads    *)
(* use it one at a time.                                                   *)

MayUse(t) == t \in Users /\ given /\ \A u \in Threads : pc[u] \notin Using

\* A call of method m, which leaves the context as it is after; where m is
\* hooked, the callbacks see it as it is before or after the original.
UseContext(t, m, label, seenAs, after) ==
  /\ MayUse(t)
  /\ IF detours[m] = 0
     THEN pc[t] = "idle" /\ context' = after /\ UNCHANGED pc
     ELSE Goto(t, "idle", label) /\ context' = seenAs
  /\ Enter(t)
  /\ UNCHANGED <<setup, statics, hooks, chains, locals>>

\* Mutant: the callbacks are run for a Map that failed as well.
MapUnchecked(t) ==
  LET mapped == [context EXCEPT !.mapped = TRUE] IN
  /\ ~context.mapped /\ Intact("map")
  /\ \E seenAs \in {mapped, context} : UseContext(t, "map", "mapped", seenAs, mapped)

\* A Map that fails returns at once and changes nothing.
Map(t) ==
  LET mapped == [context EXCEPT !.mapped = TRUE] IN
  ~context.mapped /\ Intact("map") /\ UseContext(t, "map", "mapped", mapped, mapped)

\* Mutant: the memory goes before the features are told.
UnmapFirst(t) ==
  LET unmapped == [context EXCEPT !.mapped = FALSE] IN
  context.mapped /\ UseContext(t, "unmap", "unmapping", unmapped, unmapped)

Unmap(t) ==
  context.mapped
  /\ UseContext(t, "unmap", "unmapping", context, [context EXCEPT !.mapped = FALSE])

SetBuffer(t) ==
  \E b \in Buffers :
    LET set == [context EXCEPT !.buffer = b] IN
    Intact("constants") /\ UseContext(t, "constants", "bound", set, set)

UseLost(t) ==
  /\ MayUse(t)
  /\ \/ ~context.mapped /\ CallLost(t, "map", "idle")
     \/ Buffers # {} /\ CallLost(t, "constants", "idle")

Hooked == [mapped |-> "map", unmapping |-> "unmap", bound |-> "constants"]

\* Callback k of a hook is told what the context does, or is about to do.
ContextCallback(t) ==
  /\ pc[t] \in Using
  /\ LET listeners == callbacks[Hooked[pc[t]]] IN
     /\ k[t] <= Len(listeners)
     /\ knows' = [knows EXCEPT ![listeners[k[t]]] =
                    CASE pc[t] = "mapped" -> [@ EXCEPT !.mapped = TRUE]
                      [] pc[t] = "unmapping" -> [@ EXCEPT !.mapped = FALSE]
                      [] pc[t] = "bound" -> [@ EXCEPT !.buffer = context.buffer]]
  /\ k' = [k EXCEPT ![t] = @ + 1]
  /\ UNCHANGED <<setup, statics, hooks, world, pc, chain, desc, out, told, viewports, overlap>>

\* The hook returns; that of Unmap calls the original only now.
ContextDone(t) ==
  /\ pc[t] \in Using /\ k[t] > Len(callbacks[Hooked[pc[t]]])
  /\ pc[t] = "unmapping" => Intact("unmap")
  /\ Goto(t, pc[t], "idle")
  /\ context' = IF pc[t] = "unmapping" THEN [context EXCEPT !.mapped = FALSE] ELSE context
  /\ Forget(t)
  /\ UNCHANGED <<setup, statics, hooks, chains, history>>

UnmapLost(t) == k[t] > Len(callbacks["unmap"]) /\ CallLost(t, "unmap", "unmapping")

-----------------------------------------------------------------------------
(* The game destroys a chain that no call is using.                        *)

ReleaseChain(c) ==
  /\ c \in held /\ \A t \in Threads : chain[t] # c
  /\ held' = held \ {c}
  /\ size' = [size EXCEPT ![c] = 0]
  /\ UNCHANGED <<setup, statics, hooks, given, created, context, pc, locals, history>>

Alive == \A t \in Threads : pc[t] \notin {"crashed", "lost"}

CreateStep(t) ==
  \/ Track(t) \/ TestContext(t) \/ SetContext(t) \/ DetourContext(t) \/ TestChain(t)
  \/ SetChain(t) \/ DetourChain(t) \/ CreateCallback(t)
  \/ CreateCallbacksDone(t) \/ Finish(t) \/ ReleaseNull(t)

ViewportStep(t) == ViewportCallback(t) \/ ViewportCallbacksDone(t)

ResizeStep(t) ==
  OtherChain(t) \/ TrackedChain(t) \/ GetDesc(t) \/ GetDescFails(t) \/ ResizeLost(t)

ContextStep(t) ==
  \/ Map(t) \/ Unmap(t) \/ SetBuffer(t) \/ ContextCallback(t) \/ ContextDone(t)
  \/ UseLost(t) \/ UnmapLost(t)

Step(t) == CreateStep(t) \/ ViewportStep(t) \/ ResizeStep(t) \/ ContextStep(t)

Next ==
  /\ Alive
  /\ \/ Register \/ DxInit
     \/ \E t \in Threads : CreateDevice(t) \/ ResizeBuffers(t) \/ Step(t)
     \/ \E c \in Chains : ReleaseChain(c)

Spec == Init /\ [][Next]_vars

-----------------------------------------------------------------------------
(* Correctness. *)

Contexts == [mapped : BOOLEAN, buffer : Buffers \cup {NoBuffer}]

TypeOK ==
  /\ boot \in 0 .. Len(Clients) + 1
  /\ callbacks \in [Kinds -> Seq(ClientNames)]
  /\ hooked \in BOOLEAN
  /\ s_swapChain \in Chains \cup {NoChain}
  /\ valid \in [Tables -> BOOLEAN]
  /\ detours \in [Methods -> Nat]
  /\ failed \subseteq Methods
  /\ saved \in [Methods -> Pointers]
  /\ held \subseteq Chains /\ given \in BOOLEAN
  /\ created \in 0 .. Devices
  /\ size \in [Chains -> Sizes \cup {0}]
  /\ context \in Contexts
  /\ pc \in [Threads -> Labels]
  /\ chain \in [Threads -> Chains \cup {NoChain}]
  /\ desc \in [Threads -> Sizes \cup {0, NoSize}]
  /\ out \in [Threads -> BOOLEAN]
  /\ k \in [Threads -> Nat \ {0}]
  /\ told \in [ClientNames -> BOOLEAN]
  /\ seen \in [ClientNames -> Sizes \cup {0, NoSize}]
  /\ knows \in [ClientNames -> Contexts]
  /\ missed \in BOOLEAN
  /\ overlap \subseteq {"hooks", "creations"}

Listeners(kind) == {callbacks[kind][j] : j \in DOMAIN callbacks[kind]}

\* "Invoke DeviceCreate and Resize callbacks, in that order": no feature is
\* told a viewport while another has not been told of a device, on whatever
\* thread a resize comes in (dx.cpp:194-202).
DeviceBeforeViewport ==
  (\E c \in ClientNames : seen[c] # NoSize) => \A c \in Listeners("create") : told[c]

\* The static tables are only there to know "whether we've already detoured
\* the functions or not": no method is detoured twice, nor again after its detour
\* failed (dx.cpp:159-192).
Attempts(m) == detours[m] + (IF m \in failed THEN 1 ELSE 0)

DetouredOnce ==
  "creations" \notin overlap => \A m \in Methods : Attempts(m) <= 1

\* A chain only reaches the game when its ResizeBuffers reaches the callbacks,
\* unless the detour was tried and failed (dx.cpp:182-209).
HeldChainsHooked ==
  held # {} /\ callbacks["viewport"] # <<>> /\ "creations" \notin overlap =>
    detours["viewport"] > 0 \/ "viewport" \in failed

\* Between hooks, every viewport callback knows the size the remembered chain
\* really has, through zero sizes, resizes of other chains and new devices,
\* unless ResizeBuffers could not be detoured, Direct3D would not describe the
\* chain, or two threads were in hooks at the same time (dx.cpp:70-99, 157, 199-202).
ViewportIsCurrent ==
  (\A t \in Threads : pc[t] = "idle") /\ s_swapChain \in held /\ ~missed
    /\ "viewport" \notin failed /\ overlap = {}
  => \A c \in Listeners("viewport") : seen[c] = size[s_swapChain]

\* "afterResourceMap" and "beforeResourceUnmap": a feature that wants both never
\* takes memory for mapped that is gone, and between hooks knows what is mapped
\* and which buffer is set, unless a method could not be detoured, or the game
\* got a chain while another creation was still detouring
\* (dx.cpp:41-68, 101-111, 163-178).
ContextAsTold ==
  LET between == \A t \in Threads : pc[t] \notin Using IN
  "creations" \notin overlap =>
    /\ \A c \in Listeners("map") \cap Listeners("unmap") :
         /\ "unmap" \notin failed => (knows[c].mapped => context.mapped)
         /\ {"map", "unmap"} \cap failed = {} /\ between
            => knows[c].mapped = context.mapped
    /\ \A c \in Listeners("constants") :
         "constants" \notin failed /\ between => knows[c].buffer = context.buffer

\* A hook always finds the original, on whatever thread a call comes in between
\* the steps of a detour and however many devices are created: no method that the
\* game can call is detoured half, again, or by a detour that failed, unless two
\* creations overlap (dx.cpp:48, 67, 77, 106, 159-192, hooks.cpp:126, 182-188).
OriginalsIntact ==
  "creations" \notin overlap => \A t \in Threads : pc[t] # "lost"
=============================================================================
