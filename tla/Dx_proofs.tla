------------------------------ MODULE Dx_proofs ------------------------------
(***************************************************************************)
(* Proofs about Dx, for any number of threads, creators, features, chains  *)
(* and devices.                                                            *)
(***************************************************************************)
EXTENDS Dx, TLAPS

\* Before dx::Init nothing of Direct3D is hooked, and no hook has run.
Dormant ==
  boot <= Len(Clients) =>
    /\ ~hooked /\ held = {} /\ ~given
    /\ \A t \in Threads : pc[t] = "idle"
    /\ \A v \in Tables : ~valid[v]
    /\ \A m \in Methods : detours[m] = 0
    /\ \A c \in ClientNames : seen[c] = NoSize

\* What a thread carries through its hook.
LocalsOK ==
  \A t \in Threads :
    /\ pc[t] = "idle" => chain[t] = NoChain /\ desc[t] = NoSize /\ k[t] = 1
    /\ pc[t] \in Creating \ {"created", "viewport", "finish"} => k[t] = 1
    /\ pc[t] \in Creating /\ chain[t] = NoChain => desc[t] = NoSize
    /\ pc[t] \in Resizing => chain[t] \in Chains

IInv == TypeOK /\ Dormant /\ LocalsOK

-----------------------------------------------------------------------------
\* Nothing is hooked at first.
LEMMA InitIInv == Init => IInv
<1> SUFFICES ASSUME Init PROVE IInv
  OBVIOUS
<1> USE DxAssumption DEF DxAssumption, Init
<1>1. /\ pc \in [Threads -> Labels]
      /\ Fallow \in Contexts
      /\ "idle" \notin Creating \cup Resizing
  BY DEF Labels, Fallow, Contexts, Creating, Resizing
<1>2. callbacks \in [Kinds -> Seq(ClientNames)]
  OBVIOUS
<1>3. TypeOK
  <2>1. /\ boot \in 0 .. Len(Clients) + 1
        /\ created \in 0 .. Devices
        /\ context \in Contexts /\ knows \in [ClientNames -> Contexts]
    BY <1>1
  <2>2. /\ hooked \in BOOLEAN
        /\ s_swapChain \in Chains \cup {NoChain}
        /\ valid \in [Tables -> BOOLEAN]
        /\ detours \in [Methods -> Nat]
        /\ failed \subseteq Methods
        /\ saved \in [Methods -> Pointers]
        /\ held \subseteq Chains /\ given \in BOOLEAN
        /\ size \in [Chains -> Sizes \cup {0}]
    BY DEF Pointers
  <2>3. /\ chain \in [Threads -> Chains \cup {NoChain}]
        /\ desc \in [Threads -> Sizes \cup {0, NoSize}]
        /\ out \in [Threads -> BOOLEAN]
        /\ k \in [Threads -> Nat \ {0}]
    OBVIOUS
  <2>4. /\ told \in [ClientNames -> BOOLEAN]
        /\ seen \in [ClientNames -> Sizes \cup {0, NoSize}]
        /\ missed \in BOOLEAN
        /\ overlap \subseteq {"hooks", "creations"}
    OBVIOUS
  <2> QED
    BY <1>1, <1>2, <2>1, <2>2, <2>3, <2>4 DEF TypeOK
<1>4. Dormant /\ LocalsOK
  BY <1>1 DEF Dormant, LocalsOK
<1> QED
  BY <1>3, <1>4 DEF IInv

\* A jump leaves a thread at a label.
LEMMA GotoOK ==
  ASSUME TypeOK, NEW t \in Threads, NEW from, NEW to \in Labels, Goto(t, from, to)
  PROVE  pc' \in [Threads -> Labels]
BY DEF TypeOK, Goto

\* A hook that returns leaves the thread with nothing.
LEMMA ForgetOK ==
  ASSUME TypeOK, NEW t \in Threads, Forget(t)
  PROVE  /\ chain' \in [Threads -> Chains \cup {NoChain}]
         /\ desc' \in [Threads -> Sizes \cup {0, NoSize}]
         /\ out' \in [Threads -> BOOLEAN]
         /\ k' \in [Threads -> Nat \ {0}]
<1>1. chain' \in [Threads -> Chains \cup {NoChain}] /\ out' \in [Threads -> BOOLEAN]
  BY DEF TypeOK, Forget
<1>2. desc' \in [Threads -> Sizes \cup {0, NoSize}]
  BY DEF TypeOK, Forget
<1>3. k' \in [Threads -> Nat \ {0}]
  BY DEF TypeOK, Forget
<1> QED
  BY <1>1, <1>2, <1>3

\* The next callback.
LEMMA NextCallbackOK ==
  ASSUME TypeOK, NEW t \in Threads, k' = [k EXCEPT ![t] = @ + 1]
  PROVE  k' \in [Threads -> Nat \ {0}]
<1>1. k[t] + 1 \in Nat \ {0} /\ k \in [Threads -> Nat \ {0}]
  BY DEF TypeOK
<1> QED
  BY <1>1

\* One step of a detour of method m.
DetourStep(m) ==
  Fail(m) \/ (callbacks[m] = <<>> /\ UNCHANGED hooks) \/ Patch(m) \/ Save(m)

AtDetour == {"detourMap", "saveMap", "detourUnmap", "saveUnmap", "detourConstants",
             "saveConstants", "detourChain", "saveChain"}

\* Where a step of a detour leads.
LEMMA DetourGoes ==
  ASSUME NEW t \in Threads, DetourContext(t) \/ DetourChain(t)
  PROVE  /\ \E from \in AtDetour, to \in AtDetour \cup {"chain", "created"} : Goto(t, from, to)
         /\ \E m \in Methods : DetourStep(m)
         /\ UNCHANGED <<setup, statics, world, locals, history>>
<1>1. ASSUME NEW m \in Methods, NEW at \in AtDetour, NEW save \in AtDetour,
             NEW then \in AtDetour \cup {"chain", "created"}, Detour(t, m, at, save, then)
      PROVE  /\ \E from \in AtDetour, to \in AtDetour \cup {"chain", "created"} :
                  Goto(t, from, to)
             /\ \E n \in Methods : DetourStep(n)
  BY <1>1 DEF Detour, DetourStep
<1>2. CASE DetourContext(t)
  BY <1>1, <1>2 DEF DetourContext, AtDetour, Methods
<1>3. CASE DetourChain(t)
  BY <1>1, <1>3 DEF DetourChain, AtDetour, Methods
<1> QED
  BY <1>2, <1>3

\* A detour keeps the types of what is known of detours.
LEMMA DetourOK ==
  ASSUME TypeOK, NEW m \in Methods, DetourStep(m)
  PROVE  /\ detours' \in [Methods -> Nat] /\ failed' \subseteq Methods
         /\ saved' \in [Methods -> Pointers]
<1>1. /\ detours \in [Methods -> Nat] /\ failed \subseteq Methods
      /\ saved \in [Methods -> Pointers]
      /\ {"null", "original", "astray"} = Pointers
  BY DEF TypeOK, Pointers
<1>2. CASE Patch(m)
  BY <1>1, <1>2 DEF Patch
<1>3. CASE Fail(m)
  BY <1>1, <1>3 DEF Fail
<1>4. CASE Save(m)
  <2>1. \E p \in Pointers : saved' = [saved EXCEPT ![m] = p]
    BY <1>1, <1>4 DEF Save
  <2> QED
    BY <1>1, <1>4, <2>1 DEF Save
<1> QED
  BY <1>1, <1>2, <1>3, <1>4 DEF DetourStep, hooks

\* Registering a feature keeps the lists of callbacks.
LEMMA RegisterOK == ASSUME TypeOK, Register PROVE callbacks' \in [Kinds -> Seq(ClientNames)]
<1>1. boot + 1 \in DOMAIN Clients
  BY DxAssumption DEF DxAssumption, TypeOK, Register
<1>2. Clients[boot + 1] \in ClientNames
  BY <1>1 DEF ClientNames
<1>3. PICK enabled \in BOOLEAN :
        callbacks' = [kind \in Kinds |->
                       IF enabled /\ kind \in Wants[Clients[boot + 1]]
                       THEN Append(callbacks[kind], Clients[boot + 1])
                       ELSE callbacks[kind]]
  BY DEF Register
<1>4. ASSUME NEW kind \in Kinds
      PROVE  /\ callbacks[kind] \in Seq(ClientNames)
             /\ Append(callbacks[kind], Clients[boot + 1]) \in Seq(ClientNames)
  BY <1>2 DEF TypeOK
<1> QED
  BY <1>3, <1>4

\* Every step keeps the types.
LEMMA NextTypeOK == ASSUME TypeOK, LocalsOK, Next PROVE TypeOK'
<1> USE DEF setup, statics, hooks, world, chains, locals, history, viewports
<1>0. /\ {"idle", "track", "context", "setContext", "chain", "setChain", "created",
          "viewport", "finish", "resized", "describe", "announce", "mapped", "unmapping",
          "bound", "crashed", "lost"} \subseteq Labels
      /\ AtDetour \subseteq Labels
      /\ Tables = {"context", "chain"}
      /\ {"map", "unmap", "constants", "viewport"} = Methods
      /\ {"create"} \cup Methods = Kinds
  BY DEF Labels, Creating, Resizing, Using, AtDetour, Tables, Methods, Kinds
<1>1. ASSUME Register PROVE TypeOK'
  <2>1. boot' \in 0 .. Len(Clients) + 1
    BY <1>1, DxAssumption DEF DxAssumption, TypeOK, Register
  <2> QED
    BY <1>1, <2>1, RegisterOK DEF TypeOK, Register
<1>2. ASSUME DxInit PROVE TypeOK'
  <2>1. boot' \in 0 .. Len(Clients) + 1
    BY <1>2, DxAssumption DEF DxAssumption, TypeOK, DxInit
  <2> QED
    BY <1>2, <2>1 DEF TypeOK, DxInit
<1>3. ASSUME NEW t \in Threads, Enter(t), TypeOK
      PROVE  overlap' \subseteq {"hooks", "creations"}
  BY <1>3 DEF Enter, TypeOK
<1>4. ASSUME NEW t \in Threads, CreateDevice(t) PROVE TypeOK'
  <2>1. pc' \in [Threads -> Labels]
    BY <1>0, <1>4, GotoOK DEF CreateDevice
  <2>2. created' \in 0 .. Devices
    <3>1. created \in 0 .. Devices /\ Devices \in Nat
      BY DxAssumption DEF DxAssumption, TypeOK
    <3>2. created < Devices /\ created' = created + 1
      BY <1>4 DEF CreateDevice
    <3> QED
      BY <3>1, <3>2
  <2>3. out' \in [Threads -> BOOLEAN]
    <3>1. PICK b \in BOOLEAN : out' = [out EXCEPT ![t] = b]
      BY <1>4 DEF CreateDevice
    <3> QED
      BY <3>1 DEF TypeOK
  <2>4. /\ chain' \in [Threads -> Chains \cup {NoChain}]
        /\ desc' \in [Threads -> Sizes \cup {0, NoSize}]
        /\ size' \in [Chains -> Sizes \cup {0}]
    <3>1. CASE UNCHANGED <<chain, desc, size>>
      BY <3>1 DEF TypeOK
    <3>2. CASE \E c \in Fresh, d \in DescSizes, s \in Sizes :
                 /\ d # 0 => s = d
                 /\ chain' = [chain EXCEPT ![t] = c]
                 /\ desc' = [desc EXCEPT ![t] = d]
                 /\ size' = [size EXCEPT ![c] = s]
      <4>1. PICK c \in Fresh, d \in DescSizes, s \in Sizes :
              /\ chain' = [chain EXCEPT ![t] = c]
              /\ desc' = [desc EXCEPT ![t] = d]
              /\ size' = [size EXCEPT ![c] = s]
        BY <3>2
      <4>2. c \in Chains /\ d \in Sizes \cup {0, NoSize} /\ s \in Sizes \cup {0}
        BY DxAssumption DEF DxAssumption, Fresh
      <4> QED
        BY <4>1, <4>2 DEF TypeOK
    <3> QED
      BY <1>4, <3>1, <3>2 DEF CreateDevice
  <2>5. Enter(t) /\ overlap' \subseteq {"hooks", "creations"}
    BY <1>3, <1>4 DEF CreateDevice
  <2> QED
    BY <1>4, <2>1, <2>2, <2>3, <2>4, <2>5 DEF TypeOK, CreateDevice, Enter
<1>5. ASSUME NEW t \in Threads, NEW to \in Labels, NEW from, Goto(t, from, to),
             UNCHANGED <<setup, hooks, world, locals, history>>,
             s_swapChain' \in Chains \cup {NoChain}, valid' \in [Tables -> BOOLEAN]
      PROVE  TypeOK'
  <2>1. pc' \in [Threads -> Labels]
    BY <1>5, GotoOK
  <2> QED
    BY <1>5, <2>1 DEF TypeOK
<1>6. ASSUME NEW t \in Threads, Track(t) PROVE TypeOK'
  BY <1>0, <1>5, <1>6 DEF TypeOK, Track
<1>7. ASSUME NEW t \in Threads, TestContext(t) \/ TestChain(t) PROVE TypeOK'
  BY <1>0, <1>5, <1>7 DEF TypeOK, TestContext, TestChain
<1>8. ASSUME NEW t \in Threads, SetContext(t) \/ SetChain(t) PROVE TypeOK'
  <2>1. ASSUME NEW v \in Tables, valid' = [valid EXCEPT ![v] = TRUE]
        PROVE  valid' \in [Tables -> BOOLEAN]
    BY <2>1 DEF TypeOK
  <2>2. valid' \in [Tables -> BOOLEAN]
    BY <1>0, <1>8, <2>1 DEF SetContext, SetChain
  <2>3. s_swapChain' \in Chains \cup {NoChain}
    BY <1>8 DEF TypeOK, SetContext, SetChain
  <2> QED
    BY <1>0, <1>5, <1>8, <2>2, <2>3 DEF SetContext, SetChain, AtDetour
<1>9. ASSUME NEW t \in Threads, CreateCallbacksDone(t) PROVE TypeOK'
  <2>1. pc' \in [Threads -> Labels]
    BY <1>0, <1>9, GotoOK DEF CreateCallbacksDone
  <2>2. k' \in [Threads -> Nat \ {0}]
    BY <1>9 DEF CreateCallbacksDone, TypeOK
  <2> QED
    BY <1>9, <2>1, <2>2 DEF TypeOK, CreateCallbacksDone
<1>10. ASSUME NEW t \in Threads, ReleaseNull(t) \/ TrackedChain(t) PROVE TypeOK'
  <2>1. pc' \in [Threads -> Labels]
    BY <1>0, <1>10, GotoOK DEF ReleaseNull, TrackedChain
  <2> QED
    BY <1>10, <2>1 DEF TypeOK, ReleaseNull, TrackedChain
<1>11. ASSUME NEW t \in Threads, DetourContext(t) \/ DetourChain(t) PROVE TypeOK'
  <2>1. /\ \E from \in AtDetour, to \in AtDetour \cup {"chain", "created"} : Goto(t, from, to)
        /\ \E m \in Methods : DetourStep(m)
        /\ UNCHANGED <<setup, statics, world, locals, history>>
    BY <1>11, DetourGoes
  <2>2. pc' \in [Threads -> Labels]
    BY <1>0, <2>1, GotoOK
  <2>3. /\ detours' \in [Methods -> Nat] /\ failed' \subseteq Methods
        /\ saved' \in [Methods -> Pointers]
    BY <2>1, DetourOK
  <2> QED
    BY <2>1, <2>2, <2>3 DEF TypeOK
<1>12. ASSUME NEW t \in Threads, CreateCallback(t) PROVE TypeOK'
  <2>1. k' \in [Threads -> Nat \ {0}]
    BY <1>12, NextCallbackOK DEF CreateCallback
  <2>2. told' \in [ClientNames -> BOOLEAN]
    BY <1>12 DEF CreateCallback, TypeOK
  <2> QED
    BY <1>12, <2>1, <2>2 DEF TypeOK, CreateCallback
<1>13. ASSUME NEW t \in Threads, ViewportCallback(t) PROVE TypeOK'
  <2>1. k' \in [Threads -> Nat \ {0}]
    BY <1>13, NextCallbackOK DEF ViewportCallback
  <2>2. seen' \in [ClientNames -> Sizes \cup {0, NoSize}] /\ missed' \in BOOLEAN
    BY <1>13 DEF ViewportCallback, TypeOK
  <2> QED
    BY <1>13, <2>1, <2>2 DEF TypeOK, ViewportCallback
<1>14. ASSUME NEW t \in Threads, Finish(t) PROVE TypeOK'
  <2>1. pc' \in [Threads -> Labels]
    BY <1>0, <1>14, GotoOK DEF Finish
  <2>2. held' \subseteq Chains
    BY <1>14 DEF Finish, TypeOK
  <2>3. size' \in [Chains -> Sizes \cup {0}]
    BY <1>14 DEF Finish, TypeOK
  <2> QED
    BY <1>14, <2>1, <2>2, <2>3, ForgetOK DEF TypeOK, Finish
<1>15. ASSUME NEW t \in Threads, ViewportCallbacksDone(t) PROVE TypeOK'
  <2>1. pc' \in [Threads -> Labels]
    BY <1>0, <1>15, GotoOK DEF ViewportCallbacksDone
  <2>2. /\ chain' \in [Threads -> Chains \cup {NoChain}]
        /\ desc' \in [Threads -> Sizes \cup {0, NoSize}]
        /\ out' \in [Threads -> BOOLEAN]
        /\ k' \in [Threads -> Nat \ {0}]
    <3>1. CASE UNCHANGED locals
      BY <3>1 DEF TypeOK
    <3>2. CASE Forget(t)
      BY <3>2, ForgetOK
    <3> QED
      BY <1>15, <3>1, <3>2 DEF ViewportCallbacksDone
  <2> QED
    BY <1>15, <2>1, <2>2 DEF TypeOK, ViewportCallbacksDone
<1>16. ASSUME NEW t \in Threads, ResizeBuffers(t) PROVE TypeOK'
  <2>1. PICK c \in held, w \in Sizes \cup {0}, s \in Sizes :
          /\ size' = [size EXCEPT ![c] = s]
          /\ IF detours["viewport"] = 0
             THEN pc[t] = "idle" /\ UNCHANGED <<pc, chain, desc>>
             ELSE /\ Goto(t, "idle", "resized")
                  /\ chain' = [chain EXCEPT ![t] = c]
                  /\ desc' = [desc EXCEPT ![t] = w]
          /\ Enter(t)
          /\ UNCHANGED <<setup, statics, hooks, held, given, created, context, out, k>>
    BY <1>16 DEF ResizeBuffers
  <2>2. size' \in [Chains -> Sizes \cup {0}]
    BY <2>1 DEF TypeOK
  <2>3. /\ pc' \in [Threads -> Labels]
        /\ chain' \in [Threads -> Chains \cup {NoChain}]
        /\ desc' \in [Threads -> Sizes \cup {0, NoSize}]
    <3>1. CASE detours["viewport"] = 0
      BY <2>1, <3>1 DEF TypeOK
    <3>2. CASE detours["viewport"] # 0
      <4>1. pc' \in [Threads -> Labels]
        BY <1>0, <2>1, <3>2, GotoOK
      <4>2. c \in Chains /\ w \in Sizes \cup {0, NoSize}
        BY DEF TypeOK
      <4> QED
        BY <2>1, <3>2, <4>1, <4>2 DEF TypeOK
    <3> QED
      BY <3>1, <3>2
  <2>4. overlap' \subseteq {"hooks", "creations"}
    BY <1>3, <2>1
  <2> QED
    BY <2>1, <2>2, <2>3, <2>4 DEF TypeOK, Enter
<1>17. ASSUME NEW t \in Threads, OtherChain(t) PROVE TypeOK'
  <2>1. pc' \in [Threads -> Labels]
    BY <1>0, <1>17, GotoOK DEF OtherChain
  <2> QED
    BY <1>17, <2>1, ForgetOK DEF TypeOK, OtherChain
<1>18. ASSUME NEW t \in Threads, GetDesc(t) PROVE TypeOK'
  <2>1. pc' \in [Threads -> Labels]
    BY <1>0, <1>18, GotoOK DEF GetDesc
  <2>2. desc' \in [Threads -> Sizes \cup {0, NoSize}]
    <3>1. size[chain[t]] \in Sizes \cup {0, NoSize}
      <4>1. chain[t] \in Chains
        BY <1>18 DEF GetDesc, Goto, LocalsOK, Resizing
      <4> QED
        BY <4>1 DEF TypeOK
    <3> QED
      BY <1>18, <3>1 DEF GetDesc, TypeOK
  <2> QED
    BY <1>18, <2>1, <2>2 DEF TypeOK, GetDesc
<1>19. ASSUME NEW t \in Threads, GetDescFails(t) PROVE TypeOK'
  <2>1. pc' \in [Threads -> Labels]
    BY <1>0, <1>19, GotoOK DEF GetDescFails
  <2> QED
    BY <1>19, <2>1, ForgetOK DEF TypeOK, GetDescFails
<1>20. ASSUME NEW t \in Threads, NEW m, NEW label \in Labels, NEW seenAs \in Contexts,
              NEW after \in Contexts, UseContext(t, m, label, seenAs, after)
       PROVE  TypeOK'
  <2>1. pc' \in [Threads -> Labels] /\ context' \in Contexts
    BY <1>20, GotoOK DEF UseContext, TypeOK
  <2>2. overlap' \subseteq {"hooks", "creations"}
    BY <1>3, <1>20 DEF UseContext
  <2> QED
    BY <1>20, <2>1, <2>2 DEF TypeOK, UseContext, Enter
<1>21. ASSUME NEW b \in BOOLEAN PROVE [context EXCEPT !.mapped = b] \in Contexts
  BY DEF TypeOK, Contexts
<1>22. ASSUME NEW b \in Buffers PROVE [context EXCEPT !.buffer = b] \in Contexts
  BY DEF TypeOK, Contexts
<1>23. ASSUME NEW t \in Threads, Map(t) PROVE TypeOK'
  BY <1>0, <1>20, <1>21, <1>23 DEF Map
<1>24. ASSUME NEW t \in Threads, Unmap(t) PROVE TypeOK'
  <2>1. context \in Contexts
    BY DEF TypeOK
  <2> QED
    BY <1>0, <1>20, <1>21, <1>24, <2>1 DEF Unmap
<1>25. ASSUME NEW t \in Threads, SetBuffer(t) PROVE TypeOK'
  BY <1>0, <1>20, <1>22, <1>25 DEF SetBuffer
<1>26. ASSUME NEW t \in Threads, ContextCallback(t) PROVE TypeOK'
  <2>1. k' \in [Threads -> Nat \ {0}]
    BY <1>26, NextCallbackOK DEF ContextCallback
  <2>2. knows' \in [ClientNames -> Contexts]
    <3>1. PICK c : knows' = [knows EXCEPT ![c] =
                      CASE pc[t] = "mapped" -> [@ EXCEPT !.mapped = TRUE]
                        [] pc[t] = "unmapping" -> [@ EXCEPT !.mapped = FALSE]
                        [] pc[t] = "bound" -> [@ EXCEPT !.buffer = context.buffer]]
      BY <1>26 DEF ContextCallback
    <3>2. pc[t] \in {"mapped", "unmapping", "bound"}
      BY <1>26 DEF ContextCallback, Using
    <3>3. knows \in [ClientNames -> Contexts] /\ context.buffer \in Buffers \cup {NoBuffer}
      BY DEF TypeOK, Contexts
    <3>4. CASE c \in ClientNames
      <4>1. /\ [knows[c] EXCEPT !.mapped = TRUE] \in Contexts
            /\ [knows[c] EXCEPT !.mapped = FALSE] \in Contexts
            /\ [knows[c] EXCEPT !.buffer = context.buffer] \in Contexts
        BY <3>3, <3>4 DEF Contexts
      <4> QED
        BY <3>1, <3>2, <3>3, <4>1
    <3>5. CASE c \notin ClientNames
      BY <3>1, <3>3, <3>5
    <3> QED
      BY <3>4, <3>5
  <2> QED
    BY <1>26, <2>1, <2>2 DEF TypeOK, ContextCallback
<1>27. ASSUME NEW t \in Threads, ContextDone(t) PROVE TypeOK'
  <2>1. pc' \in [Threads -> Labels]
    BY <1>0, <1>27, GotoOK DEF ContextDone
  <2>2. context' \in Contexts
    BY <1>21, <1>27 DEF ContextDone, TypeOK
  <2> QED
    BY <1>27, <2>1, <2>2, ForgetOK DEF TypeOK, ContextDone
<1>28. ASSUME NEW c \in Chains, ReleaseChain(c) PROVE TypeOK'
  <2>1. size' \in [Chains -> Sizes \cup {0}] /\ held' \subseteq Chains
    BY <1>28 DEF ReleaseChain, TypeOK
  <2> QED
    BY <1>28, <2>1 DEF TypeOK, ReleaseChain
<1>29. ASSUME NEW t \in Threads, ResizeLost(t) \/ UseLost(t) \/ UnmapLost(t) PROVE TypeOK'
  <2>1. PICK m, from : CallLost(t, m, from)
    BY <1>29 DEF ResizeLost, UseLost, UnmapLost
  <2>2. pc' \in [Threads -> Labels]
    BY <1>0, <2>1, GotoOK DEF CallLost
  <2> QED
    BY <2>1, <2>2 DEF TypeOK, CallLost
<1> QED
  BY <1>1, <1>2, <1>4, <1>6, <1>7, <1>8, <1>9, <1>10, <1>11, <1>12, <1>13, <1>14, <1>15,
     <1>16, <1>17, <1>18, <1>19, <1>23, <1>24, <1>25, <1>26, <1>27, <1>28, <1>29
  DEF Next, Step, CreateStep, ViewportStep, ResizeStep, ContextStep

-----------------------------------------------------------------------------
\* No thread changes what the attach set up.
LEMMA SetupKept ==
  ASSUME NEW t \in Threads, CreateDevice(t) \/ ResizeBuffers(t) \/ Step(t)
  PROVE  UNCHANGED setup
<1>1. CASE CreateDevice(t) \/ ResizeBuffers(t)
  BY <1>1 DEF CreateDevice, ResizeBuffers
<1>2. CASE CreateStep(t)
  BY <1>2
  DEF CreateStep, Track, TestContext, SetContext, DetourContext, TestChain, SetChain,
      DetourChain, CreateCallback, CreateCallbacksDone, Finish, ReleaseNull
<1>3. CASE ViewportStep(t) \/ ResizeStep(t)
  BY <1>3
  DEF ViewportStep, ResizeStep, ViewportCallback, ViewportCallbacksDone, OtherChain,
      TrackedChain, GetDesc, GetDescFails, ResizeLost, CallLost
<1>4. CASE ContextStep(t)
  BY <1>4
  DEF ContextStep, Map, Unmap, SetBuffer, UseContext, ContextCallback, ContextDone, UseLost,
      UnmapLost, CallLost
<1> QED
  BY <1>1, <1>2, <1>3, <1>4 DEF Step

\* What was once in hooks at the same time stays on record.
LEMMA OverlapStays ==
  ASSUME NEW t \in Threads, CreateDevice(t) \/ ResizeBuffers(t) \/ Step(t)
  PROVE  overlap \subseteq overlap'
<1>1. CASE CreateDevice(t) \/ ResizeBuffers(t) \/ Map(t) \/ Unmap(t) \/ SetBuffer(t)
  <2>1. Enter(t)
    BY <1>1 DEF CreateDevice, ResizeBuffers, Map, Unmap, SetBuffer, UseContext
  <2> QED
    BY <2>1 DEF Enter
<1>2. CASE ~(CreateDevice(t) \/ ResizeBuffers(t) \/ Map(t) \/ Unmap(t) \/ SetBuffer(t))
  <2>1. UNCHANGED overlap
    BY <1>2
    DEF Step, CreateStep, ViewportStep, ResizeStep, ContextStep, Track, TestContext,
        SetContext, DetourContext, TestChain, SetChain, DetourChain, CreateCallback,
        CreateCallbacksDone, Finish, ReleaseNull, ViewportCallback, ViewportCallbacksDone,
        OtherChain, TrackedChain, GetDesc, GetDescFails, ResizeLost, ContextCallback,
        ContextDone, UseLost, UnmapLost, CallLost, history, viewports
  <2> QED
    BY <2>1
<1> QED
  BY <1>1, <1>2

\* Every step keeps what holds before dx::Init.
LEMMA NextDormant == ASSUME IInv, Next PROVE Dormant'
<1> USE DEF setup, statics, hooks, world, chains, locals, history, viewports
<1>0. boot \in Nat /\ Len(Clients) \in Nat
  <2>1. Len(Clients) \in Nat
    BY DxAssumption DEF DxAssumption
  <2> QED
    BY <2>1 DEF IInv, TypeOK
<1>1. CASE boot > Len(Clients)
  <2>1. ~Register /\ ~DxInit
    BY <1>0, <1>1 DEF Register, DxInit
  <2>2. ASSUME NEW t \in Threads, CreateDevice(t) \/ ResizeBuffers(t) \/ Step(t)
        PROVE  UNCHANGED setup
    BY <2>2, SetupKept
  <2>3. ASSUME NEW c \in Chains, ReleaseChain(c) PROVE UNCHANGED setup
    BY <2>3 DEF ReleaseChain
  <2>4. boot' = boot
    BY <2>1, <2>2, <2>3 DEF Next
  <2> QED
    BY <1>1, <2>4, <1>0 DEF Dormant
<1>2. CASE boot <= Len(Clients)
  <2>1. /\ ~hooked /\ held = {} /\ ~given
        /\ \A t \in Threads : pc[t] = "idle"
        /\ \A v \in Tables : ~valid[v]
        /\ \A m \in Methods : detours[m] = 0
        /\ \A c \in ClientNames : seen[c] = NoSize
    BY <1>2 DEF IInv, Dormant
  <2>2. CASE Register
    BY <2>1, <2>2 DEF Register, Dormant
  <2>3. CASE DxInit
    BY <1>0, <2>3 DEF DxInit, Dormant
  <2>4. ASSUME NEW t \in Threads PROVE ~(CreateDevice(t) \/ ResizeBuffers(t) \/ Step(t))
    BY <2>1
    DEF Step, CreateStep, ViewportStep, ResizeStep, ContextStep, CreateDevice, Goto,
        Track, TestContext, SetContext, DetourContext, Detour, TestChain, SetChain,
        DetourChain, CreateCallback, CreateCallbacksDone, Finish, ReleaseNull,
        ViewportCallback, ViewportCallbacksDone, ResizeBuffers, OtherChain, TrackedChain,
        GetDesc, GetDescFails, ResizeLost, Map, Unmap, SetBuffer, UseContext, MayUse,
        ContextCallback, ContextDone, UseLost, UnmapLost, CallLost, Using
  <2>5. ASSUME NEW c \in Chains PROVE ~ReleaseChain(c)
    BY <2>1 DEF ReleaseChain
  <2> QED
    BY <2>2, <2>3, <2>4, <2>5 DEF Next
<1> QED
  BY <1>0, <1>1, <1>2

\* A hook that returns leaves its thread idle.
LEMMA Returns ==
  ASSUME IInv, NEW t \in Threads, NEW from, Goto(t, from, "idle"), Forget(t)
  PROVE  LocalsOK'
<1>1. pc[t] = from /\ pc' = [pc EXCEPT ![t] = "idle"]
  BY DEF Goto
<1> QED
  BY <1>1 DEF Forget, LocalsOK, IInv, TypeOK, Creating, Resizing

\* Every step keeps what the threads carry.
LEMMA NextLocalsOK == ASSUME IInv, Next PROVE LocalsOK'
<1> USE DEF setup, statics, hooks, world, chains, locals, history, viewports, IInv
<1>0. /\ pc \in [Threads -> Labels]
      /\ chain \in [Threads -> Chains \cup {NoChain}]
      /\ desc \in [Threads -> Sizes \cup {0, NoSize}]
      /\ out \in [Threads -> BOOLEAN]
      /\ k \in [Threads -> Nat \ {0}]
      /\ NoChain \notin Chains /\ held \subseteq Chains
  BY DxAssumption DEF DxAssumption, TypeOK
<1>1. ASSUME UNCHANGED <<pc, locals>> PROVE LocalsOK'
  BY <1>1 DEF LocalsOK
<1>2. ASSUME NEW t \in Threads, CreateDevice(t) PROVE LocalsOK'
  <2>1. pc[t] = "idle" /\ pc' = [pc EXCEPT ![t] = "track"]
    BY <1>2 DEF CreateDevice, Goto
  <2>2. /\ k' = k
        /\ \A u \in Threads \ {t} :
             chain'[u] = chain[u] /\ desc'[u] = desc[u] /\ out'[u] = out[u]
    <3>1. PICK b \in BOOLEAN : out' = [out EXCEPT ![t] = b]
      BY <1>2 DEF CreateDevice
    <3> QED
      BY <1>0, <1>2, <3>1 DEF CreateDevice
  <2>3. chain'[t] = NoChain => desc'[t] = NoSize
    <3>1. CASE UNCHANGED <<chain, desc, size>>
      BY <2>1, <3>1 DEF LocalsOK
    <3>2. CASE \E c \in Fresh : chain' = [chain EXCEPT ![t] = c]
      BY <1>0, <3>2 DEF Fresh
    <3> QED
      BY <1>2, <3>1, <3>2 DEF CreateDevice
  <2> QED
    BY <1>0, <2>1, <2>2, <2>3 DEF LocalsOK, Creating, Resizing
<1>3. ASSUME NEW t \in Threads, NEW from \in Creating, NEW to \in Creating,
             Goto(t, from, to), UNCHANGED <<chain, desc, out>>,
             \/ k' = [k EXCEPT ![t] = 1]
             \/ /\ UNCHANGED k
                /\ from \notin {"created", "viewport", "finish"} \/ to = "finish"
      PROVE  LocalsOK'
  BY <1>0, <1>3 DEF Goto, LocalsOK, Creating, Resizing
<1>4. ASSUME NEW t \in Threads,
             Track(t) \/ TestContext(t) \/ SetContext(t) \/ DetourContext(t) \/ TestChain(t)
             \/ SetChain(t) \/ DetourChain(t)
      PROVE  LocalsOK'
  <2>1. CASE DetourContext(t) \/ DetourChain(t)
    <3>1. /\ \E from \in AtDetour, to \in AtDetour \cup {"chain", "created"} : Goto(t, from, to)
          /\ UNCHANGED locals
      BY <2>1, DetourGoes
    <3> QED
      BY <1>3, <3>1 DEF Creating, AtDetour
  <2> QED
    BY <1>3, <1>4, <2>1 DEF Creating, Track, TestContext, SetContext, TestChain, SetChain
<1>5. ASSUME NEW t \in Threads, CreateCallbacksDone(t) PROVE LocalsOK'
  BY <1>3, <1>5 DEF Creating, CreateCallbacksDone
<1>6. ASSUME NEW t \in Threads,
             CreateCallback(t) \/ ViewportCallback(t) \/ ContextCallback(t)
      PROVE  LocalsOK'
  <2>1. /\ pc[t] \in {"created", "viewport", "announce"} \cup Using
        /\ UNCHANGED <<pc, chain, desc, out>>
        /\ k' = [k EXCEPT ![t] = @ + 1]
    BY <1>6 DEF CreateCallback, ViewportCallback, ContextCallback
  <2> QED
    BY <1>0, <2>1 DEF LocalsOK, Creating, Resizing, Using
<1>7. ASSUME NEW t \in Threads, Finish(t) \/ OtherChain(t) \/ GetDescFails(t) \/ ContextDone(t)
      PROVE  LocalsOK'
  BY <1>7, Returns DEF Finish, OtherChain, GetDescFails, ContextDone
<1>8. ASSUME NEW t \in Threads, ViewportCallbacksDone(t) PROVE LocalsOK'
  <2>1. CASE Goto(t, "viewport", "finish") /\ UNCHANGED locals
    BY <1>3, <2>1 DEF Creating
  <2>2. CASE Goto(t, "announce", "idle") /\ Forget(t)
    BY <2>2, Returns
  <2> QED
    BY <1>8, <2>1, <2>2 DEF ViewportCallbacksDone
<1>9. ASSUME NEW t \in Threads, ReleaseNull(t) PROVE LocalsOK'
  <2>1. pc' = [pc EXCEPT ![t] = "crashed"] /\ UNCHANGED locals
    BY <1>9 DEF ReleaseNull, Goto
  <2> QED
    BY <1>0, <2>1 DEF LocalsOK, Creating, Resizing
<1>10. ASSUME NEW t \in Threads, ResizeBuffers(t) PROVE LocalsOK'
  <2>1. CASE UNCHANGED <<pc, chain, desc, out, k>>
    BY <1>1, <2>1
  <2>2. ASSUME NEW c \in held, NEW w, Goto(t, "idle", "resized"),
               chain' = [chain EXCEPT ![t] = c], desc' = [desc EXCEPT ![t] = w],
               UNCHANGED <<out, k>>
        PROVE  LocalsOK'
    <3>1. pc' = [pc EXCEPT ![t] = "resized"]
      BY <2>2 DEF Goto
    <3>2. /\ pc'[t] = "resized" /\ chain'[t] \in Chains
          /\ \A u \in Threads \ {t} :
               pc'[u] = pc[u] /\ chain'[u] = chain[u] /\ desc'[u] = desc[u]
      BY <1>0, <2>2, <3>1
    <3> QED
      BY <2>2, <3>2 DEF LocalsOK, Creating, Resizing
  <2> QED
    BY <1>10, <2>1, <2>2 DEF ResizeBuffers
<1>11. ASSUME NEW t \in Threads, TrackedChain(t) PROVE LocalsOK'
  BY <1>0, <1>11 DEF TrackedChain, LocalsOK, Creating, Resizing, Goto
<1>12. ASSUME NEW t \in Threads, GetDesc(t) PROVE LocalsOK'
  <2>1. /\ pc[t] = "describe" /\ pc' = [pc EXCEPT ![t] = "announce"]
        /\ UNCHANGED <<chain, out, k>>
        /\ desc' = [desc EXCEPT ![t] = size[chain[t]]]
    BY <1>12 DEF GetDesc, Goto
  <2>2. /\ pc'[t] = "announce"
        /\ \A u \in Threads \ {t} : pc'[u] = pc[u] /\ desc'[u] = desc[u]
    BY <1>0, <2>1
  <2> QED
    BY <2>1, <2>2 DEF LocalsOK, Creating, Resizing
<1>13. ASSUME NEW t \in Threads, Map(t) \/ Unmap(t) \/ SetBuffer(t) PROVE LocalsOK'
  <2>1. UNCHANGED locals
    BY <1>13 DEF Map, Unmap, SetBuffer, UseContext
  <2>2. UNCHANGED pc \/ \E label \in Using : Goto(t, "idle", label)
    BY <1>13 DEF Map, Unmap, SetBuffer, UseContext, Using
  <2> QED
    BY <1>0, <1>1, <2>1, <2>2 DEF LocalsOK, Creating, Resizing, Using, Goto
<1>14. CASE Register \/ DxInit \/ \E c \in Chains : ReleaseChain(c)
  BY <1>1, <1>14 DEF Register, DxInit, ReleaseChain
<1>15. ASSUME NEW t \in Threads, ResizeLost(t) \/ UseLost(t) \/ UnmapLost(t) PROVE LocalsOK'
  <2>1. pc' = [pc EXCEPT ![t] = "lost"] /\ UNCHANGED locals
    BY <1>15 DEF ResizeLost, UseLost, UnmapLost, CallLost, Goto
  <2> QED
    BY <1>0, <2>1 DEF LocalsOK, Creating, Resizing
<1> QED
  BY <1>2, <1>4, <1>5, <1>6, <1>7, <1>8, <1>9, <1>10, <1>11, <1>12, <1>13, <1>14, <1>15
  DEF Next, Step, CreateStep, ViewportStep, ResizeStep, ContextStep

\* Every step keeps the inductive invariant.
LEMMA NextIInv == ASSUME IInv, [Next]_vars PROVE IInv'
<1>1. CASE Next
  BY <1>1, NextTypeOK, NextDormant, NextLocalsOK DEF IInv
<1>2. CASE UNCHANGED vars
  BY <1>2
  DEF IInv, TypeOK, Dormant, LocalsOK, vars, setup, statics, hooks, world, chains, locals,
      history, viewports
<1> QED
  BY <1>1, <1>2

\* The inductive invariant always holds.
THEOREM Invariance == Spec => []IInv
<1>1. ASSUME IInv, [Next]_vars PROVE IInv'
  BY <1>1, NextIInv
<1> QED
  BY InitIInv, <1>1, PTL DEF Spec

\* The hooks keep their types.
THEOREM Typing == Spec => []TypeOK
<1>1. IInv => TypeOK
  BY DEF IInv
<1> QED
  BY <1>1, Invariance, PTL

-----------------------------------------------------------------------------
(* Every device callback comes before every viewport callback. *)

AllTold == \A c \in Listeners("create") : told[c]

\* Who is past the device callbacks, holds a chain or was told a size: all
\* device callbacks have run.
ToldInv ==
  /\ held # {} => AllTold
  /\ \A c \in ClientNames : seen[c] # NoSize => AllTold
  /\ \A t \in Threads : pc[t] \in {"viewport", "finish"} \cup Resizing => AllTold
  /\ \A t \in Threads : pc[t] = "created" =>
       \A j \in DOMAIN callbacks["create"] : j < k[t] => told[callbacks["create"][j]]

\* A step that tells nothing of a device, and leads nowhere from where not all
\* have been told, keeps the invariant.
LEMMA ToldKept ==
  ASSUME IInv, ToldInv, UNCHANGED <<callbacks, told>>,
         held' # {} => held # {} \/ AllTold,
         \A c \in ClientNames : seen'[c] # NoSize => seen[c] # NoSize \/ AllTold,
         \A t \in Threads : pc'[t] \in {"viewport", "finish"} \cup Resizing =>
           pc[t] \in {"viewport", "finish"} \cup Resizing \/ AllTold,
         \A t \in Threads : pc'[t] = "created" =>
           (pc[t] = "created" /\ k'[t] = k[t]) \/ k'[t] = 1
  PROVE  ToldInv'
<1>1. AllTold => AllTold'
  BY DEF AllTold, Listeners
<1>2. /\ held' # {} => AllTold'
      /\ \A c \in ClientNames : seen'[c] # NoSize => AllTold'
      /\ \A t \in Threads : pc'[t] \in {"viewport", "finish"} \cup Resizing => AllTold'
  BY <1>1 DEF ToldInv
<1>3. callbacks["create"] \in Seq(ClientNames)
  BY DEF IInv, TypeOK, Kinds
<1>4. ASSUME NEW t \in Threads, pc'[t] = "created", NEW j \in DOMAIN callbacks["create"],
             j < k'[t]
      PROVE  told[callbacks["create"][j]]
  <2>1. CASE pc[t] = "created" /\ k'[t] = k[t]
    BY <1>4, <2>1 DEF ToldInv
  <2>2. CASE k'[t] = 1
    BY <1>3, <1>4, <2>2
  <2> QED
    BY <1>4, <2>1, <2>2
<1> QED
  BY <1>2, <1>4 DEF ToldInv

\* Every step keeps the order of the callbacks.
LEMMA NextTold == ASSUME IInv, ToldInv, Next PROVE ToldInv'
<1> USE DEF setup, statics, hooks, world, chains, locals, history, viewports
<1>0. /\ pc \in [Threads -> Labels]
      /\ k \in [Threads -> Nat \ {0}]
      /\ told \in [ClientNames -> BOOLEAN]
      /\ seen \in [ClientNames -> Sizes \cup {0, NoSize}]
      /\ callbacks["create"] \in Seq(ClientNames)
  BY DEF IInv, TypeOK, Kinds
<1>1. CASE Register
  <2>1. /\ held = {}
        /\ \A t \in Threads : pc[t] = "idle"
        /\ \A c \in ClientNames : seen[c] = NoSize
    BY <1>1, DxAssumption DEF DxAssumption, IInv, TypeOK, Dormant, Register
  <2> QED
    BY <1>1, <2>1 DEF Register, ToldInv, Resizing
<1>2. CASE DxInit \/ \E c \in Chains : ReleaseChain(c)
  BY <1>2, ToldKept DEF DxInit, ReleaseChain
<1>3. ASSUME NEW t \in Threads,
             \/ CreateDevice(t) \/ Track(t) \/ TestContext(t) \/ SetContext(t)
             \/ DetourContext(t) \/ SetChain(t) \/ ReleaseNull(t) \/ ResizeLost(t)
      PROVE  ToldInv'
  <2>1. \E to \in Labels \ ({"created", "viewport", "finish"} \cup Resizing) :
          pc' = [pc EXCEPT ![t] = to]
    BY <1>3
    DEF CreateDevice, Track, TestContext, SetContext, DetourContext, Detour, SetChain,
        ReleaseNull, ResizeLost, CallLost, Goto, Labels, Creating, Resizing
  <2>2. UNCHANGED <<callbacks, told, held, seen, k>>
    BY <1>3
    DEF CreateDevice, Enter, Track, TestContext, SetContext, DetourContext, SetChain,
        ReleaseNull, ResizeLost, CallLost
  <2> QED
    BY <1>0, <2>1, <2>2, ToldKept
<1>4. ASSUME NEW t \in Threads, TestChain(t) \/ DetourChain(t) PROVE ToldInv'
  <2>1. /\ pc[t] \in {"chain", "detourChain", "saveChain"}
        /\ UNCHANGED <<callbacks, told, held, seen, k>>
        /\ \E to \in {"created", "setChain", "saveChain"} : pc' = [pc EXCEPT ![t] = to]
    BY <1>4 DEF TestChain, DetourChain, Detour, Goto
  <2>2. k[t] = 1
    BY <2>1 DEF IInv, LocalsOK, Creating
  <2> QED
    BY <1>0, <2>1, <2>2, ToldKept DEF Resizing
<1>5. ASSUME NEW t \in Threads, CreateCallback(t) PROVE ToldInv'
  <2>1. /\ pc[t] = "created" /\ k[t] \in DOMAIN callbacks["create"]
        /\ told' = [told EXCEPT ![callbacks["create"][k[t]]] = TRUE]
        /\ k' = [k EXCEPT ![t] = @ + 1]
        /\ UNCHANGED <<callbacks, held, seen, pc>>
    BY <1>0, <1>5 DEF CreateCallback
  <2>2. \A c \in ClientNames : told[c] => told'[c]
    BY <1>0, <2>1
  <2>3. \A j \in DOMAIN callbacks["create"] : callbacks["create"][j] \in ClientNames
    BY <1>0
  <2>4. AllTold => AllTold'
    BY <2>1, <2>2, <2>3 DEF AllTold, Listeners
  <2>5. /\ held' # {} => AllTold'
        /\ \A c \in ClientNames : seen'[c] # NoSize => AllTold'
        /\ \A u \in Threads : pc'[u] \in {"viewport", "finish"} \cup Resizing => AllTold'
    BY <2>1, <2>4 DEF ToldInv
  <2>6. ASSUME NEW u \in Threads, pc'[u] = "created", NEW j \in DOMAIN callbacks["create"],
               j < k'[u]
        PROVE  told'[callbacks["create"][j]]
    <3>1. CASE j < k[u]
      BY <2>1, <2>2, <2>3, <2>6, <3>1 DEF ToldInv
    <3>2. CASE ~(j < k[u])
      <4>1. u = t /\ j = k[t]
        BY <1>0, <2>1, <2>6, <3>2
      <4> QED
        BY <1>0, <2>1, <2>3, <4>1
    <3> QED
      BY <3>1, <3>2
  <2> QED
    BY <2>1, <2>5, <2>6 DEF ToldInv
<1>6. ASSUME NEW t \in Threads, CreateCallbacksDone(t) PROVE ToldInv'
  <2>1. /\ pc[t] = "created" /\ k[t] > Len(callbacks["create"])
        /\ pc' = [pc EXCEPT ![t] = "viewport"] \/ pc' = [pc EXCEPT ![t] = "finish"]
        /\ k' = [k EXCEPT ![t] = 1]
        /\ UNCHANGED <<callbacks, told, held, seen>>
    BY <1>6 DEF CreateCallbacksDone, Goto
  <2>2. AllTold
    <3>1. ASSUME NEW j \in DOMAIN callbacks["create"] PROVE told[callbacks["create"][j]]
      <4>1. j < k[t]
        BY <1>0, <2>1
      <4> QED
        BY <2>1, <4>1 DEF ToldInv
    <3> QED
      BY <3>1 DEF AllTold, Listeners
  <2> QED
    BY <1>0, <2>1, <2>2, ToldKept
<1>7. ASSUME NEW t \in Threads, ViewportCallback(t) PROVE ToldInv'
  <2>1. /\ pc[t] \in {"viewport", "announce"}
        /\ UNCHANGED <<callbacks, told, held, pc>>
        /\ k' = [k EXCEPT ![t] = @ + 1]
    BY <1>7 DEF ViewportCallback
  <2>2. AllTold
    BY <2>1 DEF ToldInv, Resizing
  <2> QED
    BY <1>0, <2>1, <2>2, ToldKept
<1>8. ASSUME NEW t \in Threads,
             \/ Finish(t) \/ ViewportCallbacksDone(t) \/ OtherChain(t) \/ TrackedChain(t)
             \/ GetDesc(t) \/ GetDescFails(t)
      PROVE  ToldInv'
  <2>1. /\ pc[t] \in {"viewport", "finish"} \cup Resizing
        /\ \E to \in Labels \ {"created"} : pc' = [pc EXCEPT ![t] = to]
        /\ UNCHANGED <<callbacks, told, seen>>
        /\ \A u \in Threads \ {t} : k'[u] = k[u]
    BY <1>0, <1>8
    DEF Finish, ViewportCallbacksDone, OtherChain, TrackedChain, GetDesc, GetDescFails,
        Goto, Forget, Labels, Creating, Resizing
  <2>2. AllTold
    BY <2>1 DEF ToldInv
  <2> QED
    BY <1>0, <2>1, <2>2, ToldKept
<1>9. ASSUME NEW t \in Threads, ResizeBuffers(t) PROVE ToldInv'
  <2>1. /\ held # {} /\ UNCHANGED <<callbacks, told, held, seen, k>>
        /\ UNCHANGED pc \/ pc' = [pc EXCEPT ![t] = "resized"]
    BY <1>9 DEF ResizeBuffers, Enter, Goto
  <2>2. AllTold
    BY <2>1 DEF ToldInv
  <2> QED
    BY <1>0, <2>1, <2>2, ToldKept
<1>10. ASSUME NEW t \in Threads, ContextStep(t) PROVE ToldInv'
  <2>1. /\ UNCHANGED <<callbacks, told, held, seen>>
        /\ UNCHANGED pc \/ \E to \in Using \cup {"idle", "lost"} : pc' = [pc EXCEPT ![t] = to]
        /\ \A u \in Threads : pc[u] = "created" => k'[u] = k[u]
    <3>1. CASE Map(t) \/ Unmap(t) \/ SetBuffer(t)
      BY <3>1 DEF Map, Unmap, SetBuffer, UseContext, Enter, Goto, Using
    <3>2. CASE ContextCallback(t)
      BY <1>0, <3>2 DEF ContextCallback, Using
    <3>3. CASE ContextDone(t)
      BY <1>0, <3>3 DEF ContextDone, Forget, Goto, Using
    <3>4. CASE UseLost(t) \/ UnmapLost(t)
      BY <3>4 DEF UseLost, UnmapLost, CallLost, Goto
    <3> QED
      BY <1>10, <3>1, <3>2, <3>3, <3>4 DEF ContextStep
  <2>2. \A u \in Threads : pc'[u] \in {"created", "viewport", "finish"} \cup Resizing
                             => pc'[u] = pc[u]
    BY <1>0, <2>1 DEF Using, Resizing
  <2> QED
    BY <1>0, <2>1, <2>2, ToldKept
<1> QED
  BY <1>1, <1>2, <1>3, <1>4, <1>5, <1>6, <1>7, <1>8, <1>9, <1>10
  DEF Next, Step, CreateStep, ViewportStep, ResizeStep

\* "Invoke DeviceCreate and Resize callbacks, in that order": no feature is told
\* a viewport before every feature was told of a device, however many threads
\* create devices and resize chains (dx.cpp:194-202).
THEOREM DeviceFirst == Spec => []DeviceBeforeViewport
<1>1. Init => ToldInv
  BY DEF Init, ToldInv, Resizing
<1>2. ASSUME IInv, ToldInv, [Next]_vars PROVE ToldInv'
  <2>1. CASE UNCHANGED vars
    <3>1. UNCHANGED <<callbacks, told, held, seen, pc, k>>
      BY <2>1 DEF vars, setup, statics, hooks, world, chains, locals, history, viewports
    <3> QED
      BY <1>2, <3>1, ToldKept
  <2> QED
    BY <1>2, <2>1, NextTold
<1>3. ToldInv => DeviceBeforeViewport
  BY DEF ToldInv, AllTold, DeviceBeforeViewport
<1> QED
  BY <1>1, <1>2, <1>3, Invariance, PTL DEF Spec

-----------------------------------------------------------------------------
(* Every method is detoured once, and before a chain reaches the game. *)

ViewportHooked ==
  callbacks["viewport"] = <<>> \/ detours["viewport"] > 0 \/ "viewport" \in failed

OfContext == {"map", "unmap", "constants"}

DetoursContext == {"detourMap", "saveMap", "detourUnmap", "saveUnmap", "detourConstants",
                   "saveConstants"}
DetoursChain == {"detourChain", "saveChain"}

Untried(m) == detours[m] = 0 /\ m \notin failed

\* What thread t relies on where it is.
Relies(t) ==
  /\ pc[t] = "setContext" => ~valid["context"]
  /\ pc[t] \in DetoursContext => valid["context"]
  /\ pc[t] = "detourMap" => Untried("map")
  /\ pc[t] \in {"detourMap", "saveMap", "detourUnmap"} => Untried("unmap")
  /\ pc[t] \in {"detourMap", "saveMap", "detourUnmap", "saveUnmap", "detourConstants"}
       => Untried("constants")
  /\ pc[t] = "setChain" => ~valid["chain"]
  /\ pc[t] \in DetoursChain => valid["chain"]
  /\ pc[t] = "detourChain" => Untried("viewport")
  /\ pc[t] = "saveChain" => ViewportHooked
  /\ pc[t] \in {"created", "viewport", "finish"} /\ chain[t] # NoChain => ViewportHooked

TablesTell ==
  /\ \A m \in Methods : detours[m] = 0 \/ (detours[m] = 1 /\ m \notin failed)
  /\ ~valid["context"] => \A m \in OfContext : Untried(m)
  /\ ~valid["chain"] => Untried("viewport")

\* While no two creations overlap, the test and the assignment of a static
\* table are as good as one step.
Detouring ==
  /\ TablesTell
  /\ \A t, u \in Threads : pc[t] \in Creating /\ pc[u] \in Creating => t = u
  /\ \A t \in Threads : Relies(t)
  /\ valid["chain"] => ViewportHooked \/ \E t \in Threads : pc[t] = "detourChain"
  /\ held # {} => ViewportHooked

OnceInv == "creations" \notin overlap => Detouring

\* A step outside of creations detours nothing.
LEMMA DetouringKept ==
  ASSUME Detouring, UNCHANGED <<callbacks, valid, detours, failed>>,
         held' # {} => held # {} \/ ViewportHooked,
         \A t \in Threads : pc'[t] \in Creating => pc'[t] = pc[t] /\ chain'[t] = chain[t],
         \A t \in Threads : pc[t] = "detourChain" => pc'[t] = pc[t]
  PROVE  Detouring'
<1>1. ViewportHooked' <=> ViewportHooked
  BY DEF ViewportHooked
<1> QED
  BY <1>1 DEF Detouring, Relies, TablesTell, Untried, Creating, DetoursContext, DetoursChain

\* The only creation there is goes on: nothing but its own part is at stake.
LEMMA CreationGoesOn ==
  ASSUME IInv, Detouring, NEW t \in Threads, NEW from \in Creating, NEW to \in Creating,
         Goto(t, from, to), UNCHANGED <<callbacks, held>>,
         \A u \in Threads \ {t} : chain'[u] = chain[u],
         TablesTell', Relies(t)', ViewportHooked => ViewportHooked',
         valid'["chain"] => ViewportHooked' \/ to = "detourChain"
  PROVE  Detouring'
<1>1. /\ pc[t] = from /\ pc'[t] = to
      /\ \A u \in Threads \ {t} : pc'[u] = pc[u]
  BY DEF Goto, IInv, TypeOK
<1>2. \A u \in Threads \ {t} : pc'[u] \notin Creating
  BY <1>1 DEF Detouring
<1>3. \A u \in Threads \ {t} : Relies(u)'
  BY <1>2 DEF Relies, Creating, DetoursContext, DetoursChain
<1> QED
  BY <1>1, <1>2, <1>3 DEF Detouring

\* While it goes on, a valid table is one whose method has been detoured, or
\* will be by its next step.
LEMMA TableOrStep ==
  ASSUME Detouring, NEW t \in Threads, pc[t] \in Creating, valid["chain"]
  PROVE  ViewportHooked \/ pc[t] = "detourChain"
BY DEF Detouring, Creating

\* Every step keeps the detours in order.
LEMMA NextOnce == ASSUME IInv, OnceInv, Next PROVE OnceInv'
<1> USE DEF setup, statics, hooks, world, chains, locals, history, viewports
<1>0. /\ pc \in [Threads -> Labels]
      /\ chain \in [Threads -> Chains \cup {NoChain}]
      /\ valid \in [Tables -> BOOLEAN] /\ {"context", "chain"} = Tables
      /\ detours \in [Methods -> Nat]
      /\ OfContext \cup {"viewport"} = Methods
      /\ overlap \subseteq {"hooks", "creations"}
  BY DEF IInv, TypeOK, Tables, Methods, OfContext
<1>1. CASE Register
  <2>1. /\ held = {}
        /\ \A t \in Threads : pc[t] = "idle"
        /\ \A v \in Tables : ~valid[v]
    BY <1>1, DxAssumption DEF DxAssumption, IInv, TypeOK, Dormant, Register
  <2>2. "creations" \notin overlap' => Detouring
    BY <1>1 DEF OnceInv, Register
  <2>3. UNCHANGED <<statics, hooks, held, pc, chain>>
    BY <1>1 DEF Register
  <2> QED
    BY <1>0, <2>1, <2>2, <2>3
    DEF OnceInv, Detouring, Relies, TablesTell, Untried, Creating, DetoursContext, DetoursChain
<1>2. ASSUME NEW t \in Threads, Enter(t), "creations" \notin overlap'
      PROVE  Detouring /\ (pc'[t] = "track" => ~Others(t, Creating))
  BY <1>2 DEF Enter, OnceInv
<1>3. CASE DxInit \/ \E c \in Chains : ReleaseChain(c)
  BY <1>3, DetouringKept DEF OnceInv, DxInit, ReleaseChain
<1>4. ASSUME NEW t \in Threads, CreateDevice(t), "creations" \notin overlap' PROVE Detouring'
  <2>1. /\ pc' = [pc EXCEPT ![t] = "track"] /\ pc'[t] = "track"
        /\ UNCHANGED <<callbacks, valid, detours, failed, held>>
        /\ \A u \in Threads \ {t} : chain'[u] = chain[u]
    <3>1. UNCHANGED chain \/ \E c : chain' = [chain EXCEPT ![t] = c]
      BY <1>4 DEF CreateDevice
    <3> QED
      BY <1>0, <1>4, <3>1 DEF CreateDevice, Goto
  <2>2. Detouring /\ \A u \in Threads \ {t} : pc[u] \notin Creating
    BY <1>2, <1>4, <2>1 DEF CreateDevice, Others
  <2>3. ViewportHooked' <=> ViewportHooked
    BY <2>1 DEF ViewportHooked
  <2>4. pc[t] = "idle"
    BY <1>4 DEF CreateDevice, Goto
  <2> QED
    BY <1>0, <2>1, <2>2, <2>3, <2>4
    DEF Detouring, Relies, TablesTell, Untried, Creating, DetoursContext, DetoursChain
<1>5. ASSUME NEW t \in Threads,
             ResizeBuffers(t) \/ Map(t) \/ Unmap(t) \/ SetBuffer(t)
      PROVE  OnceInv'
  <2>1. /\ UNCHANGED <<callbacks, valid, detours, failed, held>>
        /\ Enter(t)
        /\ pc[t] = "idle"
        /\ UNCHANGED pc \/ \E to \in Using \cup {"resized"} : pc' = [pc EXCEPT ![t] = to]
        /\ \A u \in Threads \ {t} : chain'[u] = chain[u]
    <3>1. CASE ResizeBuffers(t)
      <4>1. UNCHANGED chain \/ \E c : chain' = [chain EXCEPT ![t] = c]
        BY <3>1 DEF ResizeBuffers
      <4> QED
        BY <1>0, <3>1, <4>1 DEF ResizeBuffers, Goto
    <3>2. CASE Map(t) \/ Unmap(t) \/ SetBuffer(t)
      BY <3>2 DEF Map, Unmap, SetBuffer, UseContext, Goto, Using
    <3> QED
      BY <1>5, <3>1, <3>2
  <2>2. \A u \in Threads : /\ pc'[u] \in Creating => pc'[u] = pc[u] /\ chain'[u] = chain[u]
                           /\ pc[u] = "detourChain" => pc'[u] = pc[u]
    BY <1>0, <2>1 DEF Creating, Using
  <2> QED
    BY <1>2, <2>1, <2>2, DetouringKept DEF OnceInv
<1>6. ASSUME NEW t \in Threads,
             \/ CreateCallback(t) \/ ViewportCallback(t) \/ OtherChain(t) \/ TrackedChain(t)
             \/ GetDesc(t) \/ GetDescFails(t) \/ ContextCallback(t) \/ ContextDone(t)
             \/ ReleaseNull(t) \/ ResizeLost(t) \/ UseLost(t) \/ UnmapLost(t)
      PROVE  OnceInv'
  <2>1. /\ UNCHANGED <<callbacks, valid, detours, failed, held, overlap>>
        /\ UNCHANGED <<pc, chain>>
           \/ /\ pc[t] \in Resizing \cup Using \cup {"finish", "idle"}
              /\ \E to \in Resizing \cup {"idle", "crashed", "lost"} : pc' = [pc EXCEPT ![t] = to]
              /\ \A u \in Threads \ {t} : chain'[u] = chain[u]
    <3>1. CASE CreateCallback(t) \/ ViewportCallback(t) \/ ContextCallback(t)
      BY <3>1 DEF CreateCallback, ViewportCallback, ContextCallback
    <3>2. CASE OtherChain(t) \/ GetDescFails(t) \/ ContextDone(t)
      BY <1>0, <3>2
      DEF OtherChain, GetDescFails, ContextDone, Forget, Goto, Resizing, Using
    <3>3. CASE TrackedChain(t) \/ GetDesc(t) \/ ReleaseNull(t)
      BY <3>3 DEF TrackedChain, GetDesc, ReleaseNull, Goto, Resizing
    <3>4. CASE ResizeLost(t) \/ UseLost(t) \/ UnmapLost(t)
      BY <3>4 DEF ResizeLost, UseLost, UnmapLost, CallLost, Goto, Using
    <3> QED
      BY <1>6, <3>1, <3>2, <3>3, <3>4
  <2>2. \A u \in Threads : /\ pc'[u] \in Creating => pc'[u] = pc[u] /\ chain'[u] = chain[u]
                           /\ pc[u] = "detourChain" => pc'[u] = pc[u]
    BY <1>0, <2>1 DEF Creating, Using, Resizing
  <2> QED
    BY <2>1, <2>2, DetouringKept DEF OnceInv
<1>7. ASSUME NEW t \in Threads, ViewportCallbacksDone(t), Detouring PROVE Detouring'
  <2>1. UNCHANGED <<callbacks, valid, detours, failed, held>>
    BY <1>7 DEF ViewportCallbacksDone
  <2>2. CASE Goto(t, "viewport", "finish") /\ UNCHANGED locals
    <3>1. ViewportHooked' <=> ViewportHooked
      BY <2>1 DEF ViewportHooked
    <3>2. pc[t] = "viewport" /\ pc'[t] = "finish" /\ Relies(t) /\ TablesTell
      BY <1>0, <1>7, <2>2 DEF Goto, Detouring
    <3>3. Relies(t)' /\ TablesTell'
      BY <2>1, <2>2, <3>1, <3>2 DEF Relies, TablesTell, Untried, DetoursContext, DetoursChain
    <3>4. valid'["chain"] => ViewportHooked'
      BY <1>7, <2>1, <3>1, <3>2, TableOrStep DEF Creating
    <3> QED
      BY <1>7, <2>1, <2>2, <3>1, <3>3, <3>4, CreationGoesOn DEF Creating
  <2>3. CASE Goto(t, "announce", "idle") /\ Forget(t)
    <3>1. \A u \in Threads : /\ pc'[u] \in Creating => pc'[u] = pc[u] /\ chain'[u] = chain[u]
                             /\ pc[u] = "detourChain" => pc'[u] = pc[u]
      BY <1>0, <2>3 DEF Creating, Goto, Forget
    <3> QED
      BY <1>7, <2>1, <3>1, DetouringKept
  <2> QED
    BY <1>7, <2>2, <2>3 DEF ViewportCallbacksDone
<1>8. ASSUME NEW t \in Threads, Detouring, NEW from \in Creating \ {"detourChain"},
             NEW to \in Creating, Goto(t, from, to),
             UNCHANGED <<callbacks, valid, detours, failed, held, chain>>, Relies(t)'
      PROVE  Detouring'
  <2>1. ViewportHooked' <=> ViewportHooked
    BY <1>8 DEF ViewportHooked
  <2>2. TablesTell'
    BY <1>8 DEF Detouring, TablesTell, Untried
  <2>3. valid'["chain"] => ViewportHooked'
    BY <1>8, <2>1, TableOrStep DEF Goto
  <2> QED
    BY <1>8, <2>1, <2>2, <2>3, CreationGoesOn
<1>9. ASSUME NEW t \in Threads, Detouring,
             Track(t) \/ TestContext(t) \/ CreateCallbacksDone(t) \/ TestChain(t)
      PROVE  Detouring'
  <2>1. UNCHANGED <<callbacks, valid, detours, failed, held, chain>>
    BY <1>9 DEF Track, TestContext, CreateCallbacksDone, TestChain
  <2>2. ViewportHooked' <=> ViewportHooked
    BY <2>1 DEF ViewportHooked
  <2>3. CASE Goto(t, "track", "context")
    <3>1. Relies(t)'
      BY <1>0, <2>3 DEF Relies, Goto, DetoursContext, DetoursChain
    <3> QED
      BY <1>8, <1>9, <2>1, <2>3, <3>1 DEF Creating
  <2>4. CASE Goto(t, "context", IF valid["context"] THEN "chain" ELSE "setContext")
    <3>1. Relies(t)'
      BY <1>0, <2>1, <2>4 DEF Relies, Goto, DetoursContext, DetoursChain
    <3> QED
      BY <1>8, <1>9, <2>1, <2>4, <3>1 DEF Creating
  <2>5. CASE Goto(t, "created", IF chain[t] # NoChain THEN "viewport" ELSE "finish")
    <3>1. Relies(t)
      BY <1>9 DEF Detouring
    <3>2. Relies(t)'
      BY <1>0, <2>1, <2>2, <2>5, <3>1 DEF Relies, Goto, DetoursContext, DetoursChain
    <3> QED
      BY <1>8, <1>9, <2>1, <2>5, <3>2 DEF Creating
  <2>6. CASE Goto(t, "chain", IF chain[t] # NoChain /\ ~valid["chain"] THEN "setChain"
                              ELSE "created")
    <3>1. valid["chain"] => ViewportHooked
      BY <1>9, <2>6, TableOrStep DEF Goto, Creating
    <3>2. Relies(t)'
      BY <1>0, <2>1, <2>2, <2>6, <3>1 DEF Relies, Goto, DetoursContext, DetoursChain
    <3> QED
      BY <1>8, <1>9, <2>1, <2>6, <3>2 DEF Creating
  <2> QED
    BY <1>9, <2>3, <2>4, <2>5, <2>6 DEF Track, TestContext, CreateCallbacksDone, TestChain
<1>10. ASSUME NEW t \in Threads, SetContext(t) \/ SetChain(t), Detouring PROVE Detouring'
  <2>1. UNCHANGED <<callbacks, detours, failed, held, chain>>
    BY <1>10 DEF SetContext, SetChain
  <2>2. ViewportHooked' <=> ViewportHooked
    BY <2>1 DEF ViewportHooked
  <2>3. Relies(t) /\ TablesTell
    BY <1>10 DEF Detouring
  <2>4. CASE Goto(t, "setContext", "detourMap") /\ valid' = [valid EXCEPT !["context"] = TRUE]
    <3>1. pc[t] = "setContext" /\ pc'[t] = "detourMap"
      BY <1>0, <2>4 DEF Goto
    <3>2. valid'["context"] /\ valid'["chain"] = valid["chain"]
      BY <1>0, <2>4
    <3>3. Relies(t)' /\ TablesTell'
      BY <2>1, <2>3, <3>1, <3>2
      DEF Relies, TablesTell, Untried, OfContext, DetoursContext, DetoursChain
    <3>4. valid'["chain"] => ViewportHooked'
      BY <1>10, <2>2, <3>1, <3>2, TableOrStep DEF Creating
    <3> QED
      BY <1>10, <2>1, <2>2, <2>4, <3>3, <3>4, CreationGoesOn DEF Creating
  <2>5. CASE Goto(t, "setChain", "detourChain") /\ valid' = [valid EXCEPT !["chain"] = TRUE]
    <3>1. pc[t] = "setChain" /\ pc'[t] = "detourChain"
      BY <1>0, <2>5 DEF Goto
    <3>2. valid'["chain"] /\ valid'["context"] = valid["context"]
      BY <1>0, <2>5
    <3>3. Relies(t)' /\ TablesTell'
      BY <2>1, <2>3, <3>1, <3>2 DEF Relies, TablesTell, Untried, DetoursContext, DetoursChain
    <3> QED
      BY <1>10, <2>1, <2>2, <2>5, <3>3, CreationGoesOn DEF Creating
  <2> QED
    BY <1>10, <2>4, <2>5 DEF SetContext, SetChain
<1>11. ASSUME NEW t \in Threads, NEW m \in Methods, Detouring, Untried(m),
              (callbacks[m] = <<>> /\ UNCHANGED hooks) \/ Fail(m) \/ Patch(m),
              UNCHANGED <<callbacks, valid>>,
              m \in OfContext => valid["context"], m = "viewport" => valid["chain"]
       PROVE  /\ TablesTell'
              /\ \A n \in Methods \ {m} : Untried(n) => Untried(n)'
              /\ ViewportHooked => ViewportHooked'
              /\ m = "viewport" => ViewportHooked'
  <2>1. TablesTell
    BY <1>11 DEF Detouring
  <2>2. CASE Patch(m)
    <3>1. /\ detours'[m] = 1 /\ failed' = failed
          /\ \A n \in Methods \ {m} : detours'[n] = detours[n]
      BY <1>0, <1>11, <2>2 DEF Patch, Untried
    <3> QED
      BY <1>0, <1>11, <2>1, <3>1 DEF TablesTell, Untried, ViewportHooked, OfContext
  <2>3. CASE Fail(m)
    BY <1>0, <1>11, <2>1, <2>3 DEF Fail, TablesTell, Untried, ViewportHooked, OfContext
  <2>4. CASE callbacks[m] = <<>> /\ UNCHANGED hooks
    BY <1>11, <2>1, <2>4 DEF TablesTell, Untried, ViewportHooked
  <2> QED
    BY <1>11, <2>2, <2>3, <2>4
<1>12. ASSUME NEW t \in Threads, NEW m \in OfContext, Detouring,
              NEW at \in DetoursContext, NEW save \in DetoursContext,
              NEW then \in DetoursContext \cup {"chain"}, Detour(t, m, at, save, then),
              UNCHANGED <<callbacks, valid, held, chain>>,
              pc[t] = at => Untried(m),
              pc[t] = at /\ (\A n \in Methods \ {m} : Untried(n) => Untried(n)') => Relies(t)',
              pc[t] = save /\ UNCHANGED <<detours, failed>> => Relies(t)'
       PROVE  Detouring'
  <2>1. PICK from \in {at, save}, to \in {save, then} : Goto(t, from, to)
    BY <1>12 DEF Detour
  <2>2. /\ m \in Methods /\ m # "viewport" /\ to # "detourChain"
        /\ from \in Creating \ {"detourChain"} /\ to \in Creating
    BY <1>0 DEF OfContext, DetoursContext, Creating
  <2>3. valid["context"]
    BY <1>12, <2>1 DEF Detouring, Relies, Goto
  <2>4. /\ TablesTell' /\ Relies(t)' /\ (ViewportHooked => ViewportHooked')
    <3>1. CASE pc[t] = save /\ Save(m)
      <4>1. TablesTell' /\ (ViewportHooked => ViewportHooked')
        BY <1>12, <3>1 DEF Save, Detouring, TablesTell, Untried, ViewportHooked
      <4> QED
        BY <1>12, <3>1, <4>1 DEF Save
    <3>2. CASE pc[t] = at /\ ((callbacks[m] = <<>> /\ UNCHANGED hooks) \/ Fail(m) \/ Patch(m))
      BY <1>11, <1>12, <2>2, <2>3, <3>2
    <3> QED
      BY <1>12, <3>1, <3>2 DEF Detour, Goto
  <2>5. valid'["chain"] => ViewportHooked'
    BY <1>12, <2>1, <2>2, <2>4, TableOrStep DEF Goto
  <2> QED
    BY <1>12, <2>1, <2>2, <2>4, <2>5, CreationGoesOn
<1>13. ASSUME NEW t \in Threads, DetourContext(t) \/ DetourChain(t), Detouring
       PROVE  Detouring'
  <2>1. UNCHANGED <<callbacks, valid, held, chain>>
    BY <1>13 DEF DetourContext, DetourChain
  <2>2. Relies(t) /\ TablesTell
    BY <1>13 DEF Detouring
  <2> USE DEF Relies, OfContext, DetoursContext, DetoursChain, Methods
  <2>3. CASE Detour(t, "map", "detourMap", "saveMap", "detourUnmap")
    <3>1. \/ pc[t] = "detourMap" /\ pc'[t] \in {"saveMap", "detourUnmap"}
          \/ pc[t] = "saveMap" /\ pc'[t] = "detourUnmap"
      BY <1>0, <2>3 DEF Detour, Goto
    <3>2. pc[t] = "detourMap" /\ (\A n \in Methods \ {"map"} : Untried(n) => Untried(n)')
            => Relies(t)'
      BY <2>1, <2>2, <3>1
    <3>3. pc[t] = "saveMap" /\ UNCHANGED <<detours, failed>> => Relies(t)'
      BY <2>1, <2>2, <3>1 DEF Untried
    <3> QED
      BY <1>12, <1>13, <2>1, <2>2, <2>3, <3>2, <3>3
  <2>4. CASE Detour(t, "unmap", "detourUnmap", "saveUnmap", "detourConstants")
    <3>1. \/ pc[t] = "detourUnmap" /\ pc'[t] \in {"saveUnmap", "detourConstants"}
          \/ pc[t] = "saveUnmap" /\ pc'[t] = "detourConstants"
      BY <1>0, <2>4 DEF Detour, Goto
    <3>2. pc[t] = "detourUnmap" /\ (\A n \in Methods \ {"unmap"} : Untried(n) => Untried(n)')
            => Relies(t)'
      BY <2>1, <2>2, <3>1
    <3>3. pc[t] = "saveUnmap" /\ UNCHANGED <<detours, failed>> => Relies(t)'
      BY <2>1, <2>2, <3>1 DEF Untried
    <3> QED
      BY <1>12, <1>13, <2>1, <2>2, <2>4, <3>2, <3>3
  <2>5. CASE Detour(t, "constants", "detourConstants", "saveConstants", "chain")
    <3>1. \/ pc[t] = "detourConstants" /\ pc'[t] \in {"saveConstants", "chain"}
          \/ pc[t] = "saveConstants" /\ pc'[t] = "chain"
      BY <1>0, <2>5 DEF Detour, Goto
    <3>2. Relies(t)'
      BY <2>1, <2>2, <3>1
    <3> QED
      BY <1>12, <1>13, <2>1, <2>2, <2>5, <3>2
  <2>6. CASE Detour(t, "viewport", "detourChain", "saveChain", "created")
    <3>1. CASE pc[t] = "saveChain"
      <4>1. Goto(t, "saveChain", "created") /\ UNCHANGED <<detours, failed>>
        BY <2>6, <3>1 DEF Detour, Goto, Save
      <4>2. Relies(t)'
        BY <1>0, <2>1, <2>2, <3>1, <4>1 DEF Goto, ViewportHooked
      <4> QED
        BY <1>8, <1>13, <2>1, <4>1, <4>2 DEF Creating
    <3>2. CASE pc[t] = "detourChain"
      <4>1. /\ \E to \in {"saveChain", "created"} : Goto(t, "detourChain", to)
            /\ \/ callbacks["viewport"] = <<>> /\ UNCHANGED hooks
               \/ Fail("viewport") \/ Patch("viewport")
        BY <2>6, <3>2 DEF Detour, Goto
      <4>2. TablesTell' /\ ViewportHooked'
        BY <1>11, <1>13, <2>1, <2>2, <3>2, <4>1
      <4>3. Relies(t)'
        BY <1>0, <2>1, <2>2, <3>2, <4>1, <4>2 DEF Goto
      <4> QED
        BY <1>13, <2>1, <4>1, <4>2, <4>3, CreationGoesOn DEF Creating
    <3> QED
      BY <2>6, <3>1, <3>2 DEF Detour, Goto
  <2> QED
    BY <1>13, <2>3, <2>4, <2>5, <2>6 DEF DetourContext, DetourChain
<1>14. ASSUME NEW t \in Threads, Finish(t), Detouring PROVE Detouring'
  <2>1. /\ UNCHANGED <<callbacks, valid, detours, failed>>
        /\ pc[t] = "finish" /\ pc' = [pc EXCEPT ![t] = "idle"]
        /\ \A u \in Threads \ {t} : chain'[u] = chain[u]
        /\ held' # {} => held # {} \/ chain[t] # NoChain
    BY <1>0, <1>14 DEF Finish, Forget, Goto
  <2>2. \A u \in Threads : /\ pc'[u] \in Creating => pc'[u] = pc[u] /\ chain'[u] = chain[u]
                           /\ pc[u] = "detourChain" => pc'[u] = pc[u]
    BY <1>0, <2>1 DEF Creating
  <2>3. held' # {} => held # {} \/ ViewportHooked
    <3>1. Relies(t) /\ (held # {} => ViewportHooked)
      BY <1>14 DEF Detouring
    <3>2. chain[t] # NoChain => ViewportHooked
      BY <2>1, <3>1 DEF Relies
    <3> QED
      BY <2>1, <3>1, <3>2
  <2> QED
    BY <1>14, <2>1, <2>2, <2>3, DetouringKept
<1>15. ASSUME NEW t \in Threads,
              \/ ViewportCallbacksDone(t) \/ Track(t) \/ TestContext(t) \/ SetContext(t)
              \/ DetourContext(t) \/ TestChain(t) \/ SetChain(t) \/ DetourChain(t)
              \/ CreateCallbacksDone(t) \/ Finish(t)
       PROVE  OnceInv'
  <2>1. UNCHANGED overlap
    BY <1>15
    DEF ViewportCallbacksDone, Track, TestContext, SetContext, DetourContext, TestChain,
        SetChain, DetourChain, CreateCallbacksDone, Finish
  <2> QED
    BY <1>7, <1>9, <1>10, <1>13, <1>14, <1>15, <2>1 DEF OnceInv
<1> QED
  BY <1>1, <1>3, <1>4, <1>5, <1>6, <1>15
  DEF OnceInv, Next, Step, CreateStep, ViewportStep, ResizeStep, ContextStep

\* While no two creations overlap the detours are in order.
LEMMA Onces == Spec => []OnceInv
<1>1. Init => OnceInv
  BY DEF Init, OnceInv, Detouring, Relies, TablesTell, Untried, Creating, OfContext, Methods,
         Tables, DetoursContext, DetoursChain
<1>2. ASSUME IInv, OnceInv, [Next]_vars PROVE OnceInv'
  <2>1. CASE UNCHANGED vars
    <3>1. UNCHANGED <<callbacks, valid, detours, failed, held, pc, chain, overlap>>
      BY <2>1 DEF vars, setup, statics, hooks, world, chains, locals, history
    <3> QED
      BY <1>2, <3>1, DetouringKept DEF OnceInv
  <2> QED
    BY <1>2, <2>1, NextOnce
<1> QED
  BY <1>1, <1>2, Invariance, PTL DEF Spec

\* No method is detoured twice, nor tried again after its detour failed, unless
\* two creations overlap: with any number of devices and threads (dx.cpp:159-192).
THEOREM Once == Spec => []DetouredOnce
<1>1. OnceInv => DetouredOnce
  BY DEF OnceInv, Detouring, TablesTell, Untried, DetouredOnce, Attempts
<1> QED
  BY <1>1, Onces, PTL

\* A chain only reaches the game when its ResizeBuffers reaches the callbacks,
\* or could not be detoured (dx.cpp:182-209).
THEOREM Hooks == Spec => []HeldChainsHooked
<1>1. OnceInv => HeldChainsHooked
  BY DEF OnceInv, Detouring, ViewportHooked, HeldChainsHooked
<1> QED
  BY <1>1, Onces, PTL

-----------------------------------------------------------------------------
(* Between hooks, every viewport callback knows the size of the chain. *)

Busy == Creating \cup Resizing

\* The callbacks that thread t has run were told its size.
Heard(t) ==
  \A j \in DOMAIN callbacks["viewport"] :
    j < k[t] => seen[callbacks["viewport"][j]] = desc[t]

\* What ViewportIsCurrent says of the remembered chain.
Current ==
  s_swapChain \in held /\ ~missed /\ "viewport" \notin failed =>
    \A c \in Listeners("viewport") : seen[c] = size[s_swapChain]

\* What a creation is about to tell.
Announces(t) ==
  /\ pc[t] \in Creating /\ chain[t] # NoChain =>
       chain[t] \notin held /\ (desc[t] # 0 => size[chain[t]] = desc[t])
  /\ pc[t] \in Creating \ {"track"} => s_swapChain = chain[t]
  /\ pc[t] = "viewport" => Heard(t) /\ (k[t] > 1 /\ ~missed => desc[t] # 0)
  /\ pc[t] = "finish" /\ chain[t] # NoChain =>
       \A c \in Listeners("viewport") : seen[c] = desc[t] /\ (~missed => desc[t] # 0)

\* What the hook of ResizeBuffers is about to tell.
Resizes(t) ==
  /\ pc[t] \in Resizing => chain[t] \in held
  /\ pc[t] = "resized" => /\ s_swapChain # chain[t] => Current
                          /\ desc[t] # 0 => size[chain[t]] = desc[t]
  /\ pc[t] \in {"resized", "describe"} => k[t] = 1
  /\ pc[t] \in {"describe", "announce"} => s_swapChain = chain[t]
  /\ pc[t] = "announce" => desc[t] = size[chain[t]] /\ Heard(t)

\* One thread at a time is in the hooks of the viewport, and while none is, what
\* the features were told is so.
Viewing ==
  /\ \A t, u \in Threads : pc[t] \in Busy /\ pc[u] \in Busy => t = u
  /\ \A t \in Threads : Announces(t) /\ Resizes(t)
  /\ (\A t \in Threads : pc[t] \notin Busy) => Current

ViewInv == overlap = {} => Viewing

\* A step outside the hooks of the viewport touches nothing they rely on.
LEMMA ViewingKept ==
  ASSUME Viewing, UNCHANGED <<callbacks, failed, held, s_swapChain, size, seen, missed>>,
         \A t \in Threads : pc'[t] \in Busy \/ pc[t] \in Busy =>
           pc'[t] = pc[t] /\ chain'[t] = chain[t] /\ desc'[t] = desc[t] /\ k'[t] = k[t]
  PROVE  Viewing'
<1>1. Current' <=> Current
  BY DEF Current, Listeners
<1>2. ASSUME NEW t \in Threads PROVE Announces(t)' /\ Resizes(t)'
  <2>1. CASE pc'[t] \in Busy
    <3>1. /\ pc'[t] = pc[t] /\ chain'[t] = chain[t] /\ desc'[t] = desc[t] /\ k'[t] = k[t]
          /\ Announces(t) /\ Resizes(t)
      BY <2>1 DEF Viewing
    <3>2. Heard(t)' <=> Heard(t)
      BY <3>1 DEF Heard
    <3>3. Announces(t)'
      BY <3>1, <3>2 DEF Announces, Listeners
    <3>4. Resizes(t)'
      BY <1>1, <3>1, <3>2 DEF Resizes
    <3> QED
      BY <3>3, <3>4
  <2>2. CASE pc'[t] \notin Busy
    BY <2>2 DEF Announces, Resizes, Busy, Creating, Resizing
  <2> QED
    BY <2>1, <2>2
<1> QED
  BY <1>1, <1>2 DEF Viewing

\* When only thread t may be in those hooks, only its part is at stake.
LEMMA ViewingAlone ==
  ASSUME NEW t \in Threads, \A u \in Threads \ {t} : pc'[u] \notin Busy,
         Announces(t)', Resizes(t)', pc'[t] \notin Busy => Current'
  PROVE  Viewing'
<1>1. \A u \in Threads \ {t} : Announces(u)' /\ Resizes(u)'
  BY DEF Announces, Resizes, Busy, Creating, Resizing
<1> QED
  BY <1>1 DEF Viewing

\* A thread that leaves those hooks leaves the features with the truth.
LEMMA ViewingLeft ==
  ASSUME NEW t \in Threads, \A u \in Threads : pc'[u] \notin Busy, Current'
  PROVE  Viewing'
BY DEF Viewing, Announces, Resizes, Busy, Creating, Resizing

\* A creation goes on without telling sizes.
LEMMA CreationRemembers ==
  ASSUME IInv, Viewing, NEW t \in Threads,
         NEW from \in Creating \ {"track"}, NEW to \in Creating \ {"track"}, Goto(t, from, to),
         to = "viewport" => k'[t] = 1, to = "finish" => chain[t] = NoChain,
         UNCHANGED <<callbacks, held, s_swapChain, size, chain, desc>>
  PROVE  Viewing'
<1>1. pc[t] = from /\ pc'[t] = to /\ \A u \in Threads \ {t} : pc'[u] = pc[u]
  BY DEF Goto, IInv, TypeOK
<1>2. \A u \in Threads \ {t} : pc'[u] \notin Busy
  BY <1>1 DEF Viewing, Busy
<1>3. /\ chain[t] # NoChain =>
           chain[t] \notin held /\ (desc[t] # 0 => size[chain[t]] = desc[t])
      /\ s_swapChain = chain[t]
  BY <1>1 DEF Viewing, Announces
<1>4. to = "viewport" => Heard(t)'
  <2>1. callbacks["viewport"] \in Seq(ClientNames)
    BY DEF IInv, TypeOK, Kinds, Methods
  <2> QED
    BY <2>1 DEF Heard
<1>5. Announces(t)'
  BY <1>1, <1>3, <1>4 DEF Announces
<1>6. Resizes(t)'
  BY <1>1 DEF Resizes, Creating, Resizing
<1> QED
  BY <1>1, <1>2, <1>5, <1>6, ViewingAlone DEF Busy

\* A thread that turns to the viewport callbacks has run none of them.
LEMMA HeardNone ==
  ASSUME IInv, NEW t \in Threads, k'[t] = 1, UNCHANGED callbacks
  PROVE  Heard(t)'
<1>1. callbacks["viewport"] \in Seq(ClientNames)
  BY DEF IInv, TypeOK, Kinds, Methods
<1> QED
  BY <1>1 DEF Heard

\* Every step keeps what the features know of the chain.
LEMMA NextView == ASSUME IInv, OnceInv, ViewInv, Next PROVE ViewInv'
<1> USE DEF setup, statics, hooks, world, chains, locals, history, viewports
<1>0. /\ pc \in [Threads -> Labels]
      /\ chain \in [Threads -> Chains \cup {NoChain}]
      /\ desc \in [Threads -> Sizes \cup {0, NoSize}]
      /\ k \in [Threads -> Nat \ {0}]
      /\ size \in [Chains -> Sizes \cup {0}]
      /\ seen \in [ClientNames -> Sizes \cup {0, NoSize}]
      /\ callbacks["viewport"] \in Seq(ClientNames)
      /\ held \subseteq Chains /\ NoChain \notin Chains
  BY DxAssumption DEF DxAssumption, IInv, TypeOK, Kinds, Methods
<1>1. ASSUME NEW t \in Threads, Enter(t), overlap' = {}
      PROVE  overlap = {} /\ \A u \in Threads \ {t} : pc[u] \notin Busy
  BY <1>1 DEF Enter, Others, Busy
<1>2. CASE Register
  <2>1. held = {} /\ \A t \in Threads : pc[t] = "idle"
    BY <1>2, DxAssumption DEF DxAssumption, IInv, TypeOK, Dormant, Register
  <2>2. Current' /\ \A t \in Threads : pc'[t] = "idle"
    BY <1>2, <2>1 DEF Register, Current
  <2> QED
    BY <2>2 DEF ViewInv, Viewing, Announces, Resizes, Busy, Creating, Resizing
<1>3. CASE DxInit
  BY <1>3, ViewingKept DEF DxInit, ViewInv
<1>4. ASSUME NEW t \in Threads, CreateDevice(t), overlap' = {} PROVE Viewing'
  <2>1. /\ pc[t] = "idle" /\ pc'[t] = "track" /\ Enter(t)
        /\ \A u \in Threads \ {t} : pc'[u] = pc[u]
    BY <1>0, <1>4 DEF CreateDevice, Goto
  <2>2. \A u \in Threads \ {t} : pc'[u] \notin Busy
    BY <1>1, <1>4, <2>1
  <2>3. chain'[t] # NoChain =>
          chain'[t] \notin held /\ (desc'[t] # 0 => size'[chain'[t]] = desc'[t])
    <3>1. CASE UNCHANGED <<chain, desc, size>>
      BY <2>1, <3>1 DEF IInv, LocalsOK
    <3>2. ASSUME NEW c \in Fresh, NEW d \in DescSizes, NEW s \in Sizes, d # 0 => s = d,
                 chain' = [chain EXCEPT ![t] = c], desc' = [desc EXCEPT ![t] = d],
                 size' = [size EXCEPT ![c] = s]
          PROVE  chain'[t] \notin held /\ (desc'[t] # 0 => size'[chain'[t]] = desc'[t])
      BY <1>0, <3>2 DEF Fresh
    <3> QED
      BY <1>4, <3>1, <3>2 DEF CreateDevice
  <2>4. Announces(t)' /\ Resizes(t)'
    BY <1>4, <2>1, <2>3 DEF CreateDevice, Announces, Resizes, Resizing
  <2> QED
    BY <2>1, <2>2, <2>4, ViewingAlone DEF Busy, Creating
<1>5. ASSUME NEW t \in Threads, Track(t), Viewing PROVE Viewing'
  <2>1. /\ pc[t] = "track" /\ pc'[t] = "context"
        /\ \A u \in Threads \ {t} : pc'[u] = pc[u]
        /\ s_swapChain' = chain[t] /\ UNCHANGED <<held, size, chain, desc>>
    BY <1>0, <1>5 DEF Track, Goto
  <2>2. \A u \in Threads \ {t} : pc'[u] \notin Busy
    BY <1>5, <2>1 DEF Viewing, Busy, Creating
  <2>3. Announces(t)' /\ Resizes(t)'
    BY <1>5, <2>1 DEF Viewing, Announces, Resizes, Creating, Resizing
  <2> QED
    BY <2>1, <2>2, <2>3, ViewingAlone DEF Busy, Creating
<1>6. ASSUME NEW t \in Threads, Viewing,
             \/ TestContext(t) \/ SetContext(t) \/ DetourContext(t) \/ TestChain(t)
             \/ SetChain(t) \/ DetourChain(t) \/ CreateCallbacksDone(t)
      PROVE  Viewing'
  <2>1. UNCHANGED <<callbacks, held, s_swapChain, size, chain, desc>>
    BY <1>6
    DEF TestContext, SetContext, DetourContext, TestChain, SetChain, DetourChain,
        CreateCallbacksDone
  <2>2. CASE CreateCallbacksDone(t)
    <3>1. k'[t] = 1
      BY <1>0, <2>2 DEF CreateCallbacksDone
    <3> QED
      BY <1>6, <2>1, <2>2, <3>1, CreationRemembers DEF CreateCallbacksDone, Creating
  <2>3. CASE ~CreateCallbacksDone(t)
    <3>1. \E from, to \in Creating \ {"track", "viewport", "finish"} : Goto(t, from, to)
      <4>1. CASE DetourContext(t) \/ DetourChain(t)
        BY <4>1, DetourGoes DEF AtDetour, Creating
      <4> QED
        BY <1>6, <2>3, <4>1 DEF TestContext, SetContext, TestChain, SetChain, Creating
    <3> QED
      BY <1>6, <2>1, <3>1, CreationRemembers
  <2> QED
    BY <2>2, <2>3
<1>7. ASSUME NEW t \in Threads, CreateCallback(t), Viewing PROVE Viewing'
  <2>1. /\ pc[t] = "created" /\ UNCHANGED <<pc, held, s_swapChain, size, chain, desc>>
    BY <1>7 DEF CreateCallback
  <2>2. \A u \in Threads \ {t} : pc'[u] \notin Busy
    BY <1>7, <2>1 DEF Viewing, Busy, Creating
  <2>3. Announces(t)' /\ Resizes(t)'
    BY <1>7, <2>1 DEF Viewing, Announces, Resizes, Creating, Resizing
  <2> QED
    BY <2>1, <2>2, <2>3, ViewingAlone DEF Busy, Creating
<1>8. ASSUME NEW t \in Threads, ViewportCallback(t), Viewing PROVE Viewing'
  <2>1. /\ pc[t] \in {"viewport", "announce"} /\ k[t] \in DOMAIN callbacks["viewport"]
        /\ seen' = [seen EXCEPT ![callbacks["viewport"][k[t]]] = desc[t]]
        /\ k'[t] = k[t] + 1
        /\ missed' = (pc[t] = "viewport" /\ desc[t] = 0)
        /\ UNCHANGED <<callbacks, pc, held, s_swapChain, size, chain, desc>>
    BY <1>0, <1>8 DEF ViewportCallback
  <2>2. \A u \in Threads \ {t} : pc'[u] \notin Busy
    BY <1>8, <2>1 DEF Viewing, Busy, Creating, Resizing
  <2>3. Heard(t)'
    <3>1. Heard(t)
      BY <1>8, <2>1 DEF Viewing, Announces, Resizes
    <3> SUFFICES ASSUME NEW j \in DOMAIN callbacks["viewport"], j < k[t] + 1
                 PROVE  seen'[callbacks["viewport"][j]] = desc[t]
      BY <2>1 DEF Heard
    <3>2. callbacks["viewport"][j] \in ClientNames
      BY <1>0
    <3>3. CASE j < k[t]
      BY <1>0, <2>1, <3>1, <3>2, <3>3 DEF Heard
    <3>4. CASE j = k[t]
      BY <1>0, <2>1, <3>2, <3>4
    <3> QED
      BY <1>0, <3>3, <3>4
  <2>4. Announces(t)'
    BY <1>8, <2>1, <2>3 DEF Viewing, Announces, Creating
  <2>5. Resizes(t)'
    BY <1>8, <2>1, <2>3 DEF Viewing, Resizes, Resizing
  <2> QED
    BY <2>1, <2>2, <2>4, <2>5, ViewingAlone DEF Busy, Creating, Resizing
<1>9. ASSUME NEW t \in Threads, Heard(t), k[t] > Len(callbacks["viewport"])
      PROVE  /\ \A c \in Listeners("viewport") : seen[c] = desc[t]
             /\ Listeners("viewport") # {} => k[t] > 1
  BY <1>0, <1>9 DEF Heard, Listeners
<1>10. ASSUME NEW t \in Threads, ViewportCallbacksDone(t), Viewing PROVE Viewing'
  <2>1. /\ k[t] > Len(callbacks["viewport"])
        /\ UNCHANGED <<callbacks, failed, held, s_swapChain, size, seen, missed>>
    BY <1>10 DEF ViewportCallbacksDone
  <2>2. CASE Goto(t, "viewport", "finish") /\ UNCHANGED locals
    <3>1. /\ pc[t] = "viewport" /\ pc'[t] = "finish"
          /\ \A u \in Threads \ {t} : pc'[u] = pc[u]
      BY <1>0, <2>2 DEF Goto
    <3>2. /\ \A u \in Threads \ {t} : pc'[u] \notin Busy
          /\ Heard(t) /\ (k[t] > 1 /\ ~missed => desc[t] # 0)
          /\ Announces(t)
      BY <1>10, <3>1 DEF Viewing, Announces, Busy, Creating
    <3>3. Announces(t)'
      BY <1>9, <2>1, <2>2, <3>1, <3>2 DEF Announces, Listeners, Creating
    <3>4. Resizes(t)'
      BY <3>1 DEF Resizes, Resizing
    <3> QED
      BY <3>1, <3>2, <3>3, <3>4, ViewingAlone DEF Busy, Creating
  <2>3. CASE Goto(t, "announce", "idle") /\ Forget(t)
    <3>1. /\ pc[t] = "announce" /\ pc'[t] = "idle"
          /\ \A u \in Threads \ {t} : pc'[u] = pc[u]
      BY <1>0, <2>3 DEF Goto
    <3>2. /\ \A u \in Threads : pc'[u] \notin Busy
          /\ Heard(t) /\ s_swapChain = chain[t] /\ desc[t] = size[chain[t]]
      BY <1>10, <3>1 DEF Viewing, Resizes, Busy, Creating, Resizing
    <3>3. Current'
      BY <1>9, <2>1, <3>2 DEF Current, Listeners
    <3> QED
      BY <3>2, <3>3, ViewingLeft
  <2> QED
    BY <1>10, <2>2, <2>3 DEF ViewportCallbacksDone
<1>11. ASSUME NEW t \in Threads, Finish(t) \/ ReleaseNull(t), Viewing PROVE Viewing'
  <2>1. /\ pc[t] = "finish" /\ pc'[t] \in {"idle", "crashed"}
        /\ \A u \in Threads \ {t} : pc'[u] = pc[u]
        /\ UNCHANGED <<callbacks, failed, s_swapChain, seen, missed>>
    BY <1>0, <1>11 DEF Finish, ReleaseNull, Goto
  <2>2. \A u \in Threads : pc'[u] \notin Busy
    BY <1>11, <2>1 DEF Viewing, Busy, Creating, Resizing
  <2>3. Announces(t)
    BY <1>11 DEF Viewing
  <2>4. s_swapChain = chain[t]
    BY <2>1, <2>3 DEF Announces, Creating
  <2>5. chain[t] # NoChain =>
          /\ chain[t] \notin held /\ (desc[t] # 0 => size[chain[t]] = desc[t])
          /\ \A c \in Listeners("viewport") : seen[c] = desc[t] /\ (~missed => desc[t] # 0)
    BY <2>1, <2>3 DEF Announces, Creating
  <2>6. CASE chain[t] = NoChain
    <3>1. s_swapChain' \notin held'
      BY <1>0, <1>11, <2>1, <2>4, <2>6 DEF Finish, ReleaseNull
    <3> QED
      BY <2>2, <3>1, ViewingLeft DEF Current
  <2>7. CASE chain[t] # NoChain
    <3>1. Finish(t)
      BY <1>11, <2>7 DEF ReleaseNull
    <3>2. chain[t] \in held' => size'[chain[t]] = size[chain[t]]
      BY <1>0, <2>5, <2>7, <3>1 DEF Finish
    <3>3. Current'
      BY <2>1, <2>4, <2>5, <2>7, <3>2 DEF Current, Listeners
    <3> QED
      BY <2>2, <3>3, ViewingLeft
  <2> QED
    BY <2>6, <2>7
<1>12. ASSUME NEW t \in Threads, ResizeBuffers(t), overlap' = {} PROVE Viewing'
  <2>1. PICK c \in held, w \in Sizes \cup {0}, s \in Sizes :
          /\ w # 0 => s = w
          /\ size' = [size EXCEPT ![c] = s]
          /\ IF detours["viewport"] = 0
             THEN pc[t] = "idle" /\ UNCHANGED <<pc, chain, desc>>
             ELSE /\ Goto(t, "idle", "resized")
                  /\ chain' = [chain EXCEPT ![t] = c]
                  /\ desc' = [desc EXCEPT ![t] = w]
          /\ Enter(t)
          /\ UNCHANGED <<setup, statics, hooks, held, given, created, context, out, k>>
    BY <1>12 DEF ResizeBuffers
  <2>2. pc[t] = "idle" /\ UNCHANGED <<seen, missed>>
    BY <2>1 DEF Goto, Enter
  <2>3. Viewing /\ \A u \in Threads : pc[u] \notin Busy
    BY <1>1, <1>12, <2>1, <2>2 DEF ViewInv, Busy, Creating, Resizing
  <2>4. CASE detours["viewport"] = 0
    <3>1. callbacks["viewport"] = <<>> \/ "viewport" \in failed
      BY <1>1, <1>12, <2>1, <2>4 DEF OnceInv, Detouring, ViewportHooked
    <3>2. Current'
      BY <2>1, <3>1 DEF Current, Listeners
    <3> QED
      BY <2>1, <2>3, <2>4, <3>2, ViewingLeft
  <2>5. CASE detours["viewport"] # 0
    <3>1. /\ pc'[t] = "resized" /\ chain'[t] = c /\ desc'[t] = w /\ k'[t] = 1
          /\ \A u \in Threads \ {t} : pc'[u] = pc[u]
      BY <1>0, <2>1, <2>2, <2>5 DEF Goto, IInv, LocalsOK
    <3>2. s_swapChain # c => Current'
      BY <1>0, <2>1, <2>2, <2>3 DEF Viewing, Current, Listeners
    <3>3. desc'[t] # 0 => size'[chain'[t]] = desc'[t]
      BY <1>0, <2>1, <3>1
    <3>4. Announces(t)' /\ Resizes(t)'
      BY <2>1, <3>1, <3>2, <3>3 DEF Announces, Resizes, Creating, Resizing
    <3> QED
      BY <2>3, <3>1, <3>4, ViewingAlone DEF Busy, Resizing
  <2> QED
    BY <2>4, <2>5
<1>13. ASSUME NEW t \in Threads, OtherChain(t) \/ GetDescFails(t), Viewing PROVE Viewing'
  <2>1. /\ pc[t] \in {"resized", "describe"} /\ pc'[t] = "idle"
        /\ \A u \in Threads \ {t} : pc'[u] = pc[u]
        /\ UNCHANGED <<callbacks, failed, held, s_swapChain, size, seen>>
    BY <1>0, <1>13 DEF OtherChain, GetDescFails, Goto
  <2>2. \A u \in Threads : pc'[u] \notin Busy
    BY <1>13, <2>1 DEF Viewing, Busy, Creating, Resizing
  <2>3. CASE OtherChain(t)
    <3>1. Current /\ UNCHANGED missed
      BY <1>13, <2>3 DEF OtherChain, Goto, Viewing, Resizes
    <3> QED
      BY <2>1, <2>2, <3>1, ViewingLeft DEF Current, Listeners
  <2>4. CASE GetDescFails(t)
    BY <2>2, <2>4, ViewingLeft DEF GetDescFails, Current
  <2> QED
    BY <1>13, <2>3, <2>4
<1>14. ASSUME NEW t \in Threads, TrackedChain(t) \/ GetDesc(t), Viewing PROVE Viewing'
  <2>1. /\ pc[t] \in {"resized", "describe"} /\ pc'[t] \in {"describe", "announce"}
        /\ \A u \in Threads \ {t} : pc'[u] = pc[u]
        /\ UNCHANGED <<callbacks, failed, held, s_swapChain, size, seen, missed, chain, k>>
    BY <1>0, <1>14 DEF TrackedChain, GetDesc, Goto
  <2>2. \A u \in Threads \ {t} : pc'[u] \notin Busy
    BY <1>14, <2>1 DEF Viewing, Busy, Resizing
  <2>3. Resizes(t)
    BY <1>14 DEF Viewing
  <2>4. k[t] = 1 /\ chain[t] \in held
    BY <2>1, <2>3 DEF Resizes, Resizing
  <2>5. Heard(t)'
    BY <2>1, <2>4, HeardNone
  <2>6. s_swapChain = chain[t]
    BY <1>14, <2>3 DEF TrackedChain, GetDesc, Goto, Resizes
  <2>7. pc'[t] = "announce" => desc'[t] = size[chain[t]]
    BY <1>0, <1>14, <2>1, <2>3 DEF TrackedChain, GetDesc, Goto, Resizes
  <2>8. Announces(t)' /\ Resizes(t)'
    BY <2>1, <2>4, <2>5, <2>6, <2>7 DEF Announces, Resizes, Creating, Resizing
  <2> QED
    BY <2>1, <2>2, <2>8, ViewingAlone DEF Busy, Resizing
<1>15. ASSUME NEW t \in Threads, ContextStep(t) \/ ResizeLost(t), Viewing PROVE Viewing'
  <2>1. /\ UNCHANGED <<callbacks, failed, held, s_swapChain, size, seen, missed>>
        /\ \A u \in Threads \ {t} : pc'[u] = pc[u] /\ chain'[u] = chain[u]
                                     /\ desc'[u] = desc[u] /\ k'[u] = k[u]
        /\ pc[t] \in Using \cup {"idle"} /\ pc'[t] \in Using \cup {"idle", "lost"}
    <3>1. CASE Map(t) \/ Unmap(t) \/ SetBuffer(t)
      BY <1>0, <3>1 DEF Map, Unmap, SetBuffer, UseContext, Enter, Goto, Using
    <3>2. CASE ContextCallback(t)
      BY <1>0, <3>2 DEF ContextCallback
    <3>3. CASE ContextDone(t)
      BY <1>0, <3>3 DEF ContextDone, Forget, Goto
    <3>4. CASE ResizeLost(t) \/ UseLost(t) \/ UnmapLost(t)
      BY <1>0, <3>4 DEF ResizeLost, UseLost, UnmapLost, CallLost, Goto, Using
    <3> QED
      BY <1>15, <3>1, <3>2, <3>3, <3>4 DEF ContextStep
  <2> QED
    BY <1>15, <2>1, ViewingKept DEF Busy, Creating, Resizing, Using
<1>16. ASSUME NEW c \in Chains, ReleaseChain(c), Viewing PROVE Viewing'
  <2>1. /\ \A t \in Threads : chain[t] # c
        /\ held' = held \ {c} /\ size' = [size EXCEPT ![c] = 0]
        /\ UNCHANGED <<callbacks, failed, s_swapChain, seen, missed, pc, chain, desc, k>>
    BY <1>16 DEF ReleaseChain
  <2>2. \A d \in Chains \ {c} : size'[d] = size[d]
    BY <1>0, <2>1
  <2>3. Current => Current'
    BY <1>0, <2>1, <2>2 DEF Current, Listeners
  <2>4. ASSUME NEW t \in Threads PROVE Announces(t)' /\ Resizes(t)'
    <3>1. /\ Announces(t) /\ Resizes(t) /\ (Heard(t)' <=> Heard(t))
          /\ chain[t] # NoChain => size'[chain[t]] = size[chain[t]]
      BY <1>0, <1>16, <2>1, <2>2 DEF Viewing, Heard
    <3>2. Announces(t)'
      BY <2>1, <3>1 DEF Announces, Listeners
    <3>3. Resizes(t)'
      <4>1. pc[t] \in Resizing => chain[t] # NoChain
        BY <1>0, <3>1 DEF Resizes
      <4> QED
        BY <2>1, <2>3, <3>1, <4>1 DEF Resizes, Resizing
    <3> QED
      BY <3>2, <3>3
  <2> QED
    BY <1>16, <2>1, <2>3, <2>4 DEF Viewing
<1>17. ASSUME NEW t \in Threads, Step(t), overlap' = {} PROVE Viewing'
  <2>1. overlap = {}
    BY <1>17, OverlapStays
  <2> QED
    BY <1>5, <1>6, <1>7, <1>8, <1>10, <1>11, <1>13, <1>14, <1>15, <1>17, <2>1
    DEF ViewInv, Step, CreateStep, ViewportStep, ResizeStep
<1>18. ASSUME NEW c \in Chains, ReleaseChain(c), overlap' = {} PROVE Viewing'
  BY <1>16, <1>18 DEF ReleaseChain, ViewInv
<1> QED
  BY <1>2, <1>3, <1>4, <1>12, <1>17, <1>18 DEF Next, ViewInv

\* Between hooks, every viewport callback knows the size of the remembered chain,
\* whatever was created, resized, released or used, and on however many threads:
\* unless two of them were in hooks at once, a size could not be read, or
\* ResizeBuffers not be detoured (dx.cpp:70-99, 157, 199-202).
THEOREM Viewports == Spec => []ViewportIsCurrent
<1>1. Init => ViewInv
  BY DEF Init, ViewInv, Viewing, Announces, Resizes, Current, Busy, Creating, Resizing
<1>2. ASSUME IInv, OnceInv, ViewInv, [Next]_vars PROVE ViewInv'
  <2>1. CASE UNCHANGED vars
    <3>1. UNCHANGED <<callbacks, failed, held, s_swapChain, size, seen, missed, pc, chain,
                      desc, k, overlap>>
      BY <2>1 DEF vars, setup, statics, hooks, world, chains, locals, history, viewports
    <3> QED
      BY <1>2, <3>1, ViewingKept DEF ViewInv
  <2> QED
    BY <1>2, <2>1, NextView
<1>3. ViewInv => ViewportIsCurrent
  BY DEF ViewInv, Viewing, Current, ViewportIsCurrent, Busy, Creating, Resizing
<1> QED
  BY <1>1, <1>2, <1>3, Invariance, Onces, PTL DEF Spec

-----------------------------------------------------------------------------
(* What the features know of the context. *)

\* Whoever wants method m is told of it, unless it could not be detoured.
Reached(m) == callbacks[m] = <<>> \/ detours[m] > 0 \/ m \in failed

ContextReached == \A m \in OfContext : Reached(m)

HasDetoured == {"chain", "setChain", "detourChain", "saveChain", "created", "viewport",
                "finish"}

\* What the creation on thread t has detoured so far.
AsksFor(t) ==
  /\ pc[t] \in DetoursContext \ {"detourMap"} => Reached("map")
  /\ pc[t] \in DetoursContext \ {"detourMap", "saveMap", "detourUnmap"} => Reached("unmap")
  /\ pc[t] \in {"saveConstants"} \cup HasDetoured => ContextReached

\* The methods of the context are detoured before the game has one.
Reaching ==
  /\ \A t \in Threads : AsksFor(t)
  /\ given => ContextReached
  /\ valid["context"] => ContextReached \/ \E t \in Threads : pc[t] \in DetoursContext

ReachInv == "creations" \notin overlap => Reaching

\* No step of a thread takes a detour back.
LEMMA ReachedKept ==
  ASSUME IInv, NEW t \in Threads, CreateDevice(t) \/ ResizeBuffers(t) \/ Step(t),
         NEW m \in OfContext, Reached(m)
  PROVE  Reached(m)'
<1>1. UNCHANGED callbacks
  BY SetupKept DEF setup
<1>2. UNCHANGED <<detours, failed>> \/ \E n \in Methods : DetourStep(n)
  <2>1. CASE DetourContext(t) \/ DetourChain(t)
    BY <2>1, DetourGoes
  <2>2. CASE ~(DetourContext(t) \/ DetourChain(t))
    BY <2>2
    DEF CreateDevice, ResizeBuffers, Step, CreateStep, ViewportStep, ResizeStep, ContextStep,
        Track, TestContext, SetContext, TestChain, SetChain, CreateCallback,
        CreateCallbacksDone, Finish, ReleaseNull, ViewportCallback, ViewportCallbacksDone,
        OtherChain, TrackedChain, GetDesc, GetDescFails, ResizeLost, Map, Unmap, SetBuffer,
        UseContext, ContextCallback, ContextDone, UseLost, UnmapLost, CallLost, hooks
  <2> QED
    BY <2>1, <2>2
<1>3. m \in Methods /\ detours \in [Methods -> Nat]
  BY DEF OfContext, Methods, IInv, TypeOK
<1>4. ASSUME NEW n \in Methods, DetourStep(n)
      PROVE  (detours[m] > 0 => detours'[m] > 0) /\ failed \subseteq failed'
  BY <1>3, <1>4 DEF DetourStep, Fail, Patch, Save, hooks
<1>5. CASE UNCHANGED <<detours, failed>>
  BY <1>1, <1>5 DEF Reached
<1>6. CASE \E n \in Methods : DetourStep(n)
  BY <1>1, <1>4, <1>6 DEF Reached
<1> QED
  BY <1>2, <1>5, <1>6

\* A detour that was tried reaches whoever wants the method, or failed.
LEMMA DetourReaches ==
  ASSUME IInv, NEW m \in Methods, UNCHANGED callbacks, NEW t, NEW at, NEW save, NEW then,
         Detour(t, m, at, save, then), at # save
  PROVE  pc[t] = at => Reached(m)'
<1>1. detours \in [Methods -> Nat]
  BY DEF IInv, TypeOK
<1> QED
  BY <1>1 DEF Detour, Fail, Patch, Goto, Reached, hooks

\* A step of thread t, which does its part.
LEMMA ReachingGoesOn ==
  ASSUME IInv, Reaching, NEW t \in Threads, CreateDevice(t) \/ ResizeBuffers(t) \/ Step(t),
         \A u \in Threads \ {t} : pc'[u] = pc[u], AsksFor(t)',
         given' => given \/ pc[t] \in HasDetoured,
         valid'["context"] => valid["context"] \/ pc'[t] \in DetoursContext,
         pc[t] \in DetoursContext => pc'[t] \in DetoursContext \cup HasDetoured
  PROVE  Reaching'
<1>1. \A m \in OfContext : Reached(m) => Reached(m)'
  BY ReachedKept
<1>2. ContextReached => ContextReached'
  BY <1>1 DEF ContextReached
<1>3. \A u \in Threads \ {t} : AsksFor(u)'
  BY <1>1, <1>2 DEF Reaching, AsksFor, OfContext, DetoursContext, HasDetoured
<1>4. given' => ContextReached'
  BY <1>2 DEF Reaching, AsksFor
<1>5. pc[t] \in DetoursContext => pc'[t] \in DetoursContext \/ ContextReached'
  BY DEF AsksFor
<1>6. valid'["context"] => ContextReached' \/ \E u \in Threads : pc'[u] \in DetoursContext
  BY <1>2, <1>5 DEF Reaching
<1> QED
  BY <1>3, <1>4, <1>6 DEF Reaching

\* Every step keeps the detours ahead of the game.
LEMMA NextReach == ASSUME IInv, OnceInv, ReachInv, Next PROVE ReachInv'
<1> USE DEF setup, statics, hooks, world, chains, locals, history, viewports
<1>0. /\ pc \in [Threads -> Labels]
      /\ valid \in [Tables -> BOOLEAN] /\ {"context", "chain"} = Tables
      /\ overlap \subseteq {"hooks", "creations"}
      /\ OfContext \subseteq Methods
  BY DEF IInv, TypeOK, Tables, OfContext, Methods
<1>1. CASE Register
  <2>1. ~given /\ ~valid["context"] /\ \A t \in Threads : pc[t] = "idle"
    BY <1>0, <1>1, DxAssumption DEF DxAssumption, IInv, TypeOK, Dormant, Register
  <2> QED
    BY <1>1, <2>1 DEF Register, ReachInv, Reaching, AsksFor, DetoursContext, HasDetoured
<1>2. CASE DxInit \/ \E c \in Chains : ReleaseChain(c)
  <2>1. /\ UNCHANGED <<callbacks, detours, failed, valid, pc, overlap>>
        /\ given' => given
    BY <1>2 DEF DxInit, ReleaseChain
  <2>2. ContextReached' <=> ContextReached
    BY <2>1 DEF ContextReached, Reached
  <2>3. \A t \in Threads : AsksFor(t) => AsksFor(t)'
    BY <2>1, <2>2 DEF AsksFor, Reached
  <2> QED
    BY <2>1, <2>2, <2>3 DEF ReachInv, Reaching
<1>3. ASSUME NEW t \in Threads, CreateDevice(t) \/ ResizeBuffers(t) \/ Step(t),
             "creations" \notin overlap'
      PROVE  "creations" \notin overlap
  BY <1>3, OverlapStays
<1>4. ASSUME NEW t \in Threads, TestContext(t), Reaching, Detouring PROVE Reaching'
  <2>1. /\ pc[t] = "context" /\ UNCHANGED <<callbacks, detours, failed, given, valid>>
        /\ pc'[t] = IF valid["context"] THEN "chain" ELSE "setContext"
        /\ \A u \in Threads \ {t} : pc'[u] = pc[u]
    BY <1>0, <1>4 DEF TestContext, Goto
  <2>2. valid["context"] => ContextReached
    BY <1>4, <2>1 DEF Reaching, Detouring, DetoursContext, Creating
  <2>3. AsksFor(t)'
    BY <2>1, <2>2 DEF AsksFor, ContextReached, Reached, DetoursContext, HasDetoured
  <2> QED
    BY <1>4, <2>1, <2>3, ReachingGoesOn DEF Step, CreateStep, DetoursContext
<1>5. ASSUME NEW t \in Threads, NEW m \in OfContext, Reaching,
             NEW at \in DetoursContext, NEW save \in DetoursContext, at # save,
             NEW then \in DetoursContext \cup {"chain"}, Detour(t, m, at, save, then),
             DetourContext(t),
             (\A n \in OfContext : Reached(n) \/ (n = m /\ pc[t] = at) => Reached(n)')
               => AsksFor(t)'
      PROVE  Reaching'
  <2>1. UNCHANGED <<callbacks, given, valid>> /\ Step(t)
    BY <1>5 DEF DetourContext, Step, CreateStep
  <2>2. /\ pc[t] \in DetoursContext /\ pc'[t] \in DetoursContext \cup {"chain"}
        /\ \A u \in Threads \ {t} : pc'[u] = pc[u]
    BY <1>0, <1>5 DEF Detour, Goto
  <2>3. \A n \in OfContext : Reached(n) \/ (n = m /\ pc[t] = at) => Reached(n)'
    BY <1>0, <1>5, <2>1, DetourReaches, ReachedKept
  <2> QED
    BY <1>5, <2>1, <2>2, <2>3, ReachingGoesOn DEF HasDetoured
<1>6. ASSUME NEW t \in Threads, DetourContext(t), Reaching PROVE Reaching'
  <2>1. AsksFor(t)
    BY <1>6 DEF Reaching
  <2> USE DEF AsksFor, ContextReached, OfContext, DetoursContext, HasDetoured
  <2>2. CASE Detour(t, "map", "detourMap", "saveMap", "detourUnmap")
    <3>1. \/ pc[t] = "detourMap" /\ pc'[t] \in {"saveMap", "detourUnmap"}
          \/ pc[t] = "saveMap" /\ pc'[t] = "detourUnmap"
      BY <1>0, <2>2 DEF Detour, Goto
    <3> QED
      BY <1>5, <1>6, <2>1, <2>2, <3>1
  <2>3. CASE Detour(t, "unmap", "detourUnmap", "saveUnmap", "detourConstants")
    <3>1. \/ pc[t] = "detourUnmap" /\ pc'[t] \in {"saveUnmap", "detourConstants"}
          \/ pc[t] = "saveUnmap" /\ pc'[t] = "detourConstants"
      BY <1>0, <2>3 DEF Detour, Goto
    <3> QED
      BY <1>5, <1>6, <2>1, <2>3, <3>1
  <2>4. CASE Detour(t, "constants", "detourConstants", "saveConstants", "chain")
    <3>1. \/ pc[t] = "detourConstants" /\ pc'[t] \in {"saveConstants", "chain"}
          \/ pc[t] = "saveConstants" /\ pc'[t] = "chain"
      BY <1>0, <2>4 DEF Detour, Goto
    <3> QED
      BY <1>5, <1>6, <2>1, <2>4, <3>1
  <2> QED
    BY <1>6, <2>2, <2>3, <2>4 DEF DetourContext
<1>7. ASSUME NEW t \in Threads, Reaching,
             \/ TestChain(t) \/ SetChain(t) \/ DetourChain(t) \/ CreateCallback(t)
             \/ CreateCallbacksDone(t) \/ Finish(t) \/ ReleaseNull(t)
             \/ ViewportStep(t) /\ pc[t] = "viewport"
      PROVE  Reaching'
  <2>1. /\ pc[t] \in HasDetoured /\ pc'[t] \in HasDetoured \cup {"idle", "crashed"}
        /\ \A u \in Threads \ {t} : pc'[u] = pc[u]
        /\ valid'["context"] = valid["context"]
    BY <1>0, <1>7
    DEF TestChain, SetChain, DetourChain, Detour, CreateCallback, CreateCallbacksDone, Finish,
        ReleaseNull, ViewportStep, ViewportCallback, ViewportCallbacksDone, Goto, HasDetoured
  <2>2. Step(t)
    BY <1>7 DEF Step, CreateStep
  <2>3. ContextReached'
    BY <1>7, <2>1, <2>2, ReachedKept DEF Reaching, AsksFor, ContextReached
  <2>4. AsksFor(t)'
    BY <2>1, <2>3 DEF AsksFor, DetoursContext, HasDetoured
  <2> QED
    BY <1>7, <2>1, <2>2, <2>4, ReachingGoesOn DEF DetoursContext, HasDetoured
<1>8. ASSUME NEW t \in Threads, Reaching,
             \/ CreateDevice(t) \/ ResizeBuffers(t) \/ Track(t) \/ SetContext(t)
             \/ ResizeStep(t) \/ ContextStep(t) \/ (ViewportStep(t) /\ pc[t] # "viewport")
      PROVE  Reaching'
  <2>1. /\ pc[t] \notin DetoursContext
        /\ pc'[t] \notin (DetoursContext \ {"detourMap"}) \cup HasDetoured
        /\ \A u \in Threads \ {t} : pc'[u] = pc[u]
        /\ valid'["context"] => valid["context"] \/ pc'[t] = "detourMap"
        /\ UNCHANGED given
    <3>1. CASE CreateDevice(t) \/ ResizeBuffers(t) \/ Track(t) \/ SetContext(t)
      BY <1>0, <3>1
      DEF CreateDevice, ResizeBuffers, Track, SetContext, Goto, DetoursContext, HasDetoured
    <3>2. CASE (ViewportStep(t) /\ pc[t] # "viewport") \/ ResizeStep(t)
      BY <1>0, <3>2
      DEF ViewportStep, ViewportCallback, ViewportCallbacksDone, ResizeStep, OtherChain,
          TrackedChain, GetDesc, GetDescFails, ResizeLost, CallLost, Goto, DetoursContext,
          HasDetoured
    <3>3. CASE ContextStep(t)
      BY <1>0, <3>3
      DEF ContextStep, Map, Unmap, SetBuffer, UseContext, ContextCallback, ContextDone,
          UseLost, UnmapLost, CallLost, Goto, Using, DetoursContext, HasDetoured
    <3> QED
      BY <1>8, <3>1, <3>2, <3>3
  <2>2. CreateDevice(t) \/ ResizeBuffers(t) \/ Step(t)
    BY <1>8 DEF Step, CreateStep
  <2>3. AsksFor(t)'
    BY <2>1 DEF AsksFor, DetoursContext
  <2> QED
    BY <1>8, <2>1, <2>2, <2>3, ReachingGoesOn DEF DetoursContext
<1> QED
  BY <1>1, <1>2, <1>3, <1>4, <1>6, <1>7, <1>8
  DEF ReachInv, OnceInv, Next, Step, CreateStep

\* While no two creations overlap, the detours come before the chain.
LEMMA Reaches == Spec => []ReachInv
<1>1. Init => ReachInv
  BY DEF Init, ReachInv, Reaching, AsksFor, DetoursContext, HasDetoured, Tables
<1>2. ASSUME IInv, OnceInv, ReachInv, [Next]_vars PROVE ReachInv'
  <2>1. CASE UNCHANGED vars
    <3>1. UNCHANGED <<callbacks, detours, failed, given, valid, pc, overlap>>
      BY <2>1 DEF vars, setup, statics, hooks, world, chains, locals, history
    <3> QED
      BY <1>2, <3>1 DEF ReachInv, Reaching, AsksFor, ContextReached, Reached
  <2> QED
    BY <1>2, <2>1, NextReach
<1> QED
  BY <1>1, <1>2, Invariance, Onces, PTL DEF Spec

-----------------------------------------------------------------------------
(* A hook always finds the original. *)

ContextIntact == \A m \in OfContext : Intact(m)

\* What keeps a call of the game away from the detours that thread t is making.
Shields(t) ==
  /\ pc[t] \in {"setContext"} \cup DetoursContext => ~given
  /\ pc[t] \in {"setChain"} \cup DetoursChain => held = {}
  /\ pc[t] \in DetoursContext \ {"detourMap", "saveMap"} => Intact("map")
  /\ pc[t] \in {"detourConstants", "saveConstants"} => Intact("unmap")
  /\ pc[t] \in HasDetoured => ContextIntact /\ valid["context"]
  /\ pc[t] \in {"created", "viewport", "finish"} /\ chain[t] # NoChain
       => Intact("viewport") /\ valid["chain"]
  /\ pc[t] = "unmapping" => given
  /\ pc[t] # "lost"

\* What the game can call leads to an original.
Shielding ==
  /\ \A t \in Threads : Shields(t)
  /\ given => ContextIntact /\ valid["context"]
  /\ held # {} => Intact("viewport") /\ valid["chain"]
  /\ valid["context"] => ContextIntact \/ \E t \in Threads : pc[t] \in DetoursContext
  /\ valid["chain"] => Intact("viewport") \/ \E t \in Threads : pc[t] \in DetoursChain

ShieldInv == "creations" \notin overlap => Shielding

\* A step that neither detours nor hands out anything.
LEMMA ShieldingKept ==
  ASSUME Shielding, UNCHANGED <<hooks, valid, given>>, held' # {} => held # {},
         \A t \in Threads :
           /\ pc'[t] \in Creating \ {"track", "context"} => pc'[t] = pc[t] /\ chain'[t] = chain[t]
           /\ pc[t] \in DetoursContext \cup DetoursChain => pc'[t] = pc[t]
           /\ pc'[t] = "unmapping" => given
           /\ pc'[t] # "lost"
  PROVE  Shielding'
<1>1. \A m : Intact(m)' <=> Intact(m)
  BY DEF Intact, hooks
<1>2. ContextIntact' <=> ContextIntact
  BY <1>1 DEF ContextIntact
<1> QED
  BY <1>1, <1>2
  DEF Shielding, Shields, Creating, DetoursContext, DetoursChain, HasDetoured

\* The only creation there is goes on: nothing but its own part is at stake.
LEMMA ShieldingGoesOn ==
  ASSUME IInv, Detouring, Shielding, NEW t \in Threads,
         NEW from \in Creating, NEW to \in Creating, Goto(t, from, to), UNCHANGED <<held, given>>,
         Shields(t)', given => ContextIntact' /\ valid'["context"],
         held # {} => Intact("viewport")' /\ valid'["chain"],
         valid'["context"] => ContextIntact' \/ to \in DetoursContext,
         valid'["chain"] => Intact("viewport")' \/ to \in DetoursChain
  PROVE  Shielding'
<1>1. pc[t] = from /\ pc'[t] = to /\ \A u \in Threads \ {t} : pc'[u] = pc[u]
  BY DEF Goto, IInv, TypeOK
<1>2. \A u \in Threads \ {t} : pc'[u] \notin Creating
  BY <1>1 DEF Detouring
<1>3. \A u \in Threads \ {t} : Shields(u)'
  BY <1>1, <1>2
  DEF Shielding, Shields, Creating, DetoursContext, DetoursChain, HasDetoured
<1> QED
  BY <1>1, <1>3 DEF Shielding

\* It goes on without detouring anything.
LEMMA ShieldingTests ==
  ASSUME IInv, Detouring, Shielding, NEW t \in Threads,
         NEW from \in Creating \ (DetoursContext \cup DetoursChain), NEW to \in Creating,
         Goto(t, from, to), UNCHANGED <<hooks, valid, held, given>>, Shields(t)'
  PROVE  Shielding'
<1>1. \A m : Intact(m)' <=> Intact(m)
  BY DEF Intact, hooks
<1>2. ContextIntact' <=> ContextIntact
  BY <1>1 DEF ContextIntact
<1>3. \A u \in Threads : pc[u] \notin DetoursContext \cup DetoursChain
  BY DEF Detouring, Goto, Creating, DetoursContext, DetoursChain
<1> QED
  BY <1>1, <1>2, <1>3, ShieldingGoesOn DEF Shielding

\* A detour that is over leaves its method intact, and the others alone.
LEMMA DetourKeeps ==
  ASSUME IInv, Detouring, NEW t \in Threads, NEW m \in Methods,
         NEW at, NEW save, NEW then, Detour(t, m, at, save, then), save # then,
         pc[t] = at => Untried(m)
  PROVE  /\ \A n \in Methods \ {m} : Intact(n)' <=> Intact(n)
         /\ pc'[t] = then => Intact(m)'
<1>0. /\ pc \in [Threads -> Labels] /\ detours \in [Methods -> Nat]
      /\ saved \in [Methods -> Pointers]
  BY DEF IInv, TypeOK
<1>1. CASE Goto(t, at, then) /\ (Fail(m) \/ (callbacks[m] = <<>> /\ UNCHANGED hooks))
  BY <1>0, <1>1 DEF Goto, Fail, Intact, Untried, hooks
<1>2. CASE Goto(t, at, save) /\ Patch(m)
  BY <1>0, <1>2 DEF Goto, Patch, Intact
<1>3. CASE Goto(t, save, then) /\ Save(m)
  <2>1. ~(detours[m] > 1)
    <3>1. detours[m] = 0 \/ detours[m] = 1
      BY DEF Detouring, TablesTell
    <3> QED
      BY <3>1
  <2>2. saved' = [saved EXCEPT ![m] = "original"] /\ UNCHANGED detours
    BY <1>3, <2>1 DEF Save
  <2> QED
    BY <1>0, <2>2 DEF Intact
<1> QED
  BY <1>1, <1>2, <1>3 DEF Detour

\* Every step keeps calls of the game away from unfinished detours.
LEMMA NextShield == ASSUME IInv, OnceInv, ShieldInv, Next PROVE ShieldInv'
<1> USE DEF setup, statics, world, chains, locals, history, viewports
<1>0. /\ pc \in [Threads -> Labels] /\ chain \in [Threads -> Chains \cup {NoChain}]
      /\ valid \in [Tables -> BOOLEAN] /\ {"context", "chain"} = Tables
      /\ detours \in [Methods -> Nat]
      /\ OfContext \cup {"viewport"} = Methods
  BY DEF IInv, TypeOK, Tables, OfContext, Methods
<1>1. CASE Register \/ DxInit \/ \E c \in Chains : ReleaseChain(c)
  <2>1. /\ UNCHANGED <<hooks, valid, given, pc, chain, overlap>>
        /\ held' # {} => held # {}
    BY <1>1 DEF Register, DxInit, ReleaseChain
  <2> QED
    BY <2>1, ShieldingKept DEF ShieldInv, Shielding, Shields
<1>2. ASSUME NEW t \in Threads, "creations" \notin overlap',
             CreateDevice(t) \/ ResizeBuffers(t) \/ Step(t)
      PROVE  Detouring /\ Shielding
  BY <1>2, OverlapStays DEF OnceInv, ShieldInv
<1>3. ASSUME NEW t \in Threads, Shielding,
             \/ CreateDevice(t) \/ ResizeBuffers(t) \/ Track(t) \/ CreateCallback(t)
             \/ ReleaseNull(t) \/ ViewportCallback(t) \/ OtherChain(t) \/ TrackedChain(t)
             \/ GetDesc(t) \/ GetDescFails(t)
             \/ ViewportCallbacksDone(t) /\ pc[t] = "announce"
      PROVE  Shielding'
  <2>1. /\ UNCHANGED <<hooks, valid, given, held>>
        /\ UNCHANGED <<pc, chain>>
           \/ /\ pc[t] \notin DetoursContext \cup DetoursChain
              /\ \E to \in {"track", "context", "idle", "crashed"} \cup Resizing :
                   pc' = [pc EXCEPT ![t] = to]
              /\ \A u \in Threads \ {t} : chain'[u] = chain[u]
    <3>1. CASE CreateDevice(t)
      <4>1. UNCHANGED chain \/ \E c : chain' = [chain EXCEPT ![t] = c]
        BY <3>1 DEF CreateDevice
      <4> QED
        BY <1>0, <3>1, <4>1 DEF CreateDevice, Goto, DetoursContext, DetoursChain
    <3>2. CASE ResizeBuffers(t)
      BY <1>0, <3>2 DEF ResizeBuffers, Goto, Resizing, DetoursContext, DetoursChain
    <3>3. CASE Track(t) \/ ReleaseNull(t) \/ TrackedChain(t) \/ GetDesc(t)
      BY <3>3
      DEF Track, ReleaseNull, TrackedChain, GetDesc, Goto, Resizing, DetoursContext,
          DetoursChain
    <3>4. CASE CreateCallback(t) \/ ViewportCallback(t)
      BY <3>4 DEF CreateCallback, ViewportCallback
    <3>5. CASE \/ OtherChain(t) \/ GetDescFails(t)
               \/ ViewportCallbacksDone(t) /\ pc[t] = "announce"
      BY <1>0, <3>5
      DEF OtherChain, GetDescFails, ViewportCallbacksDone, Forget, Goto, DetoursContext,
          DetoursChain
    <3> QED
      BY <1>3, <3>1, <3>2, <3>3, <3>4, <3>5
  <2>2. \A u \in Threads : pc[u] # "lost" /\ (pc[u] = "unmapping" => given)
    BY <1>3 DEF Shielding, Shields
  <2>3. \A u \in Threads :
          /\ pc'[u] \in Creating \ {"track", "context"} => pc'[u] = pc[u] /\ chain'[u] = chain[u]
          /\ pc[u] \in DetoursContext \cup DetoursChain => pc'[u] = pc[u]
          /\ pc'[u] = "unmapping" => given
          /\ pc'[u] # "lost"
    BY <1>0, <2>1, <2>2 DEF Creating, Resizing
  <2> QED
    BY <1>3, <2>1, <2>3, ShieldingKept
<1>4. ASSUME NEW t \in Threads, Shielding, ContextStep(t) \/ ResizeLost(t) PROVE Shielding'
  <2>1. ~ResizeLost(t) /\ ~UseLost(t) /\ ~UnmapLost(t)
    BY <1>4
    DEF ResizeLost, UseLost, UnmapLost, CallLost, MayUse, Goto, Shielding, Shields,
        ContextIntact, OfContext
  <2>2. CASE Map(t) \/ Unmap(t) \/ SetBuffer(t)
    <3>1. /\ UNCHANGED <<hooks, valid, given, held, chain>> /\ given
          /\ UNCHANGED pc \/ \E to \in Using : Goto(t, "idle", to)
      BY <2>2 DEF Map, Unmap, SetBuffer, UseContext, MayUse, Using
    <3> QED
      BY <1>0, <1>4, <3>1, ShieldingKept
      DEF Goto, Using, Creating, DetoursContext, DetoursChain, Shielding, Shields
  <2>3. CASE ContextCallback(t)
    <3>1. UNCHANGED <<hooks, valid, given, held, chain, pc>>
      BY <2>3 DEF ContextCallback
    <3> QED
      BY <1>4, <3>1, ShieldingKept DEF Shielding, Shields
  <2>4. CASE ContextDone(t)
    <3>1. /\ UNCHANGED <<hooks, valid, given, held>>
          /\ pc[t] \in Using /\ pc' = [pc EXCEPT ![t] = "idle"]
          /\ \A u \in Threads \ {t} : chain'[u] = chain[u]
      BY <1>0, <2>4 DEF ContextDone, Forget, Goto
    <3> QED
      BY <1>0, <1>4, <3>1, ShieldingKept
      DEF Using, Creating, DetoursContext, DetoursChain, Shielding, Shields
  <2> QED
    BY <1>4, <2>1, <2>2, <2>3, <2>4 DEF ContextStep
<1>5. ASSUME NEW t \in Threads, Detouring, Shielding,
             \/ TestContext(t) \/ TestChain(t) \/ CreateCallbacksDone(t)
             \/ ViewportCallbacksDone(t) /\ pc[t] = "viewport"
      PROVE  Shielding'
  <2>1. UNCHANGED <<hooks, valid, given, held, chain>>
    BY <1>5 DEF TestContext, TestChain, CreateCallbacksDone, ViewportCallbacksDone, Goto
  <2>2. (\A m : Intact(m)' <=> Intact(m)) /\ (ContextIntact' <=> ContextIntact)
    BY <2>1 DEF Intact, ContextIntact, hooks
  <2>3. \E from \in {"context", "chain", "created", "viewport"},
           to \in {"setContext", "chain", "setChain", "created", "viewport", "finish"} :
          Goto(t, from, to)
    BY <1>5 DEF TestContext, TestChain, CreateCallbacksDone, ViewportCallbacksDone, Goto
  <2>4. pc[t] \in Creating \ (DetoursContext \cup DetoursChain)
    BY <2>3 DEF Goto, Creating, DetoursContext, DetoursChain
  <2>5. /\ valid["context"] => ContextIntact
        /\ valid["chain"] => Intact("viewport")
    BY <1>5, <2>4 DEF Detouring, Shielding, Creating, DetoursContext, DetoursChain
  <2>6. Shields(t) /\ (given => valid["context"]) /\ (held # {} => valid["chain"])
    BY <1>5 DEF Shielding
  <2>7. Shields(t)'
    <3>1. CASE TestContext(t)
      BY <1>0, <2>1, <2>2, <2>5, <2>6, <3>1
      DEF TestContext, Goto, Shields, DetoursContext, DetoursChain, HasDetoured
    <3>2. CASE TestChain(t)
      BY <1>0, <2>1, <2>2, <2>5, <2>6, <3>2
      DEF TestChain, Goto, Shields, DetoursContext, DetoursChain, HasDetoured
    <3>3. CASE CreateCallbacksDone(t) \/ (ViewportCallbacksDone(t) /\ pc[t] = "viewport")
      BY <1>0, <2>1, <2>2, <2>6, <3>3
      DEF CreateCallbacksDone, ViewportCallbacksDone, Goto, Shields, DetoursContext,
          DetoursChain, HasDetoured
    <3> QED
      BY <1>5, <3>1, <3>2, <3>3
  <2> QED
    BY <1>5, <2>1, <2>3, <2>7, ShieldingTests DEF Creating, DetoursContext, DetoursChain
<1>6. ASSUME NEW t \in Threads, Detouring, Shielding, SetContext(t) \/ SetChain(t)
      PROVE  Shielding'
  <2>1. UNCHANGED <<hooks, given, held, chain>>
    BY <1>6 DEF SetContext, SetChain
  <2>2. (\A m : Intact(m)' <=> Intact(m)) /\ (ContextIntact' <=> ContextIntact)
    BY <2>1 DEF Intact, ContextIntact, hooks
  <2>3. Shields(t)
    BY <1>6 DEF Shielding
  <2>4. \E from \in {"setContext", "setChain"} : pc[t] = from
    BY <1>6 DEF SetContext, SetChain, Goto
  <2>5. \A u \in Threads : pc[u] \notin DetoursContext \cup DetoursChain
    BY <1>6, <2>4 DEF Detouring, Creating, DetoursContext, DetoursChain
  <2>6. CASE SetContext(t)
    <3>1. /\ Goto(t, "setContext", "detourMap") /\ pc[t] = "setContext" /\ pc'[t] = "detourMap"
          /\ valid'["chain"] = valid["chain"]
      BY <1>0, <2>6 DEF SetContext, Goto
    <3>2. Shields(t)' /\ ~given
      BY <2>1, <2>2, <2>3, <3>1 DEF Shields, DetoursContext, DetoursChain, HasDetoured
    <3> QED
      BY <1>6, <2>1, <2>2, <2>5, <3>1, <3>2, ShieldingGoesOn
      DEF Shielding, Creating, DetoursContext
  <2>7. CASE SetChain(t)
    <3>1. /\ Goto(t, "setChain", "detourChain") /\ pc[t] = "setChain" /\ pc'[t] = "detourChain"
          /\ valid'["context"] = valid["context"]
      BY <1>0, <2>7 DEF SetChain, Goto
    <3>2. Shields(t)' /\ held = {}
      BY <2>1, <2>2, <2>3, <3>1 DEF Shields, DetoursContext, DetoursChain, HasDetoured
    <3> QED
      BY <1>6, <2>1, <2>2, <2>5, <3>1, <3>2, ShieldingGoesOn
      DEF Shielding, Creating, DetoursChain
  <2> QED
    BY <1>6, <2>6, <2>7
<1>7. ASSUME NEW t \in Threads, Detouring, Shielding, DetourChain(t) PROVE Shielding'
  <2>1. /\ Detour(t, "viewport", "detourChain", "saveChain", "created")
        /\ UNCHANGED <<valid, given, held, chain>>
    BY <1>7 DEF DetourChain
  <2>2. PICK from \in DetoursChain, to \in {"saveChain", "created"} : Goto(t, from, to)
    BY <2>1 DEF Detour, DetoursChain
  <2>3. pc[t] = from /\ pc'[t] = to
    BY <1>0, <2>2 DEF Goto
  <2>4. /\ \A n \in OfContext : Intact(n)' <=> Intact(n)
        /\ pc'[t] = "created" => Intact("viewport")'
    BY <1>0, <1>7, <2>1, DetourKeeps DEF Detouring, Relies, OfContext
  <2>5. Shields(t) /\ valid["chain"]
    BY <1>7, <2>3 DEF Shielding, Detouring, Relies
  <2>6. held = {} /\ ContextIntact /\ ContextIntact' /\ valid["context"]
    BY <2>3, <2>4, <2>5 DEF Shields, DetoursChain, HasDetoured, ContextIntact
  <2>7. Shields(t)'
    BY <2>1, <2>3, <2>4, <2>5, <2>6 DEF Shields, DetoursContext, DetoursChain, HasDetoured
  <2> QED
    BY <1>7, <2>1, <2>2, <2>3, <2>4, <2>6, <2>7, ShieldingGoesOn DEF Creating, DetoursChain
<1>8. ASSUME NEW t \in Threads, Detouring, Shielding, NEW m \in OfContext,
             NEW at \in DetoursContext, NEW save \in DetoursContext,
             NEW then \in DetoursContext \cup {"chain"}, Detour(t, m, at, save, then),
             save # then, pc[t] = at => Untried(m), UNCHANGED <<valid, given, held, chain>>,
             (\A n \in OfContext :
                (n # m /\ Intact(n)) \/ (n = m /\ pc'[t] = then) => Intact(n)')
               => Shields(t)'
      PROVE  Shielding'
  <2>1. PICK from \in {at, save}, to \in {save, then} : Goto(t, from, to)
    BY <1>8 DEF Detour
  <2>2. pc[t] = from /\ pc'[t] = to /\ from \in DetoursContext
    BY <1>0, <2>1 DEF Goto
  <2>3. /\ \A n \in Methods \ {m} : Intact(n)' <=> Intact(n)
        /\ pc'[t] = then => Intact(m)'
    BY <1>0, <1>8, DetourKeeps
  <2>4. Shields(t)'
    BY <1>0, <1>8, <2>3
  <2>5. ~given /\ valid["context"]
    BY <1>8, <2>2 DEF Shielding, Shields, Detouring, Relies
  <2>6. Intact("viewport")' <=> Intact("viewport")
    BY <1>0, <2>3 DEF OfContext
  <2>7. \A u \in Threads : pc[u] \notin DetoursChain
    BY <1>8, <2>2 DEF Detouring, Creating, DetoursContext, DetoursChain
  <2>8. to = "chain" => ContextIntact'
    BY <2>2, <2>4 DEF Shields, HasDetoured
  <2>9. from \in Creating /\ to \in Creating /\ to \in DetoursContext \cup {"chain"}
    BY DEF DetoursContext, Creating
  <2> QED
    BY <1>8, <2>1, <2>4, <2>5, <2>6, <2>7, <2>8, <2>9, ShieldingGoesOn DEF Shielding
<1>9. ASSUME NEW t \in Threads, Detouring, Shielding, DetourContext(t) PROVE Shielding'
  <2>1. UNCHANGED <<valid, given, held, chain>>
    BY <1>9 DEF DetourContext
  <2>2. Shields(t) /\ Relies(t)
    BY <1>9 DEF Shielding, Detouring
  <2> USE DEF Shields, Relies, ContextIntact, OfContext, DetoursContext, DetoursChain, HasDetoured
  <2>3. CASE Detour(t, "map", "detourMap", "saveMap", "detourUnmap")
    <3>1. \/ pc[t] = "detourMap" /\ pc'[t] \in {"saveMap", "detourUnmap"}
          \/ pc[t] = "saveMap" /\ pc'[t] = "detourUnmap"
      BY <1>0, <2>3 DEF Detour, Goto
    <3>2. ASSUME \A n \in OfContext : (n # "map" /\ Intact(n)) \/ (n = "map" /\ pc'[t] = "detourUnmap")
                                      => Intact(n)'
          PROVE  Shields(t)'
      BY <2>1, <2>2, <3>1, <3>2
    <3>3. pc[t] = "detourMap" => Untried("map")
      BY <2>2
    <3> QED
      BY <1>8, <1>9, <2>1, <2>3, <3>2, <3>3
  <2>4. CASE Detour(t, "unmap", "detourUnmap", "saveUnmap", "detourConstants")
    <3>1. \/ pc[t] = "detourUnmap" /\ pc'[t] \in {"saveUnmap", "detourConstants"}
          \/ pc[t] = "saveUnmap" /\ pc'[t] = "detourConstants"
      BY <1>0, <2>4 DEF Detour, Goto
    <3>2. ASSUME \A n \in OfContext : (n # "unmap" /\ Intact(n)) \/ (n = "unmap" /\ pc'[t] = "detourConstants")
                                      => Intact(n)'
          PROVE  Shields(t)'
      BY <2>1, <2>2, <3>1, <3>2
    <3>3. pc[t] = "detourUnmap" => Untried("unmap")
      BY <2>2
    <3> QED
      BY <1>8, <1>9, <2>1, <2>4, <3>2, <3>3
  <2>5. CASE Detour(t, "constants", "detourConstants", "saveConstants", "chain")
    <3>1. \/ pc[t] = "detourConstants" /\ pc'[t] \in {"saveConstants", "chain"}
          \/ pc[t] = "saveConstants" /\ pc'[t] = "chain"
      BY <1>0, <2>5 DEF Detour, Goto
    <3>2. ASSUME \A n \in OfContext : (n # "constants" /\ Intact(n)) \/ (n = "constants" /\ pc'[t] = "chain")
                                      => Intact(n)'
          PROVE  Shields(t)'
      BY <2>1, <2>2, <3>1, <3>2
    <3>3. pc[t] = "detourConstants" => Untried("constants")
      BY <2>2
    <3> QED
      BY <1>8, <1>9, <2>1, <2>5, <3>2, <3>3
  <2> QED
    BY <1>9, <2>3, <2>4, <2>5 DEF DetourContext
<1>10. ASSUME NEW t \in Threads, Detouring, Shielding, Finish(t) PROVE Shielding'
  <2>1. /\ UNCHANGED <<hooks, valid>> /\ pc[t] = "finish" /\ pc' = [pc EXCEPT ![t] = "idle"]
        /\ \A u \in Threads \ {t} : chain'[u] = chain[u]
        /\ held' # {} => held # {} \/ chain[t] # NoChain
    BY <1>0, <1>10 DEF Finish, Forget, Goto
  <2>2. (\A m : Intact(m)' <=> Intact(m)) /\ (ContextIntact' <=> ContextIntact)
    BY <2>1 DEF Intact, ContextIntact, hooks
  <2>3. Shields(t)
    BY <1>10 DEF Shielding
  <2>4. ContextIntact' /\ valid'["context"]
    BY <2>1, <2>2, <2>3 DEF Shields, HasDetoured
  <2>5. held' # {} => Intact("viewport")' /\ valid'["chain"]
    BY <1>10, <2>1, <2>2, <2>3 DEF Shielding, Shields
  <2>6. given' /\ pc'[t] = "idle" /\ \A u \in Threads \ {t} : pc'[u] = pc[u]
    BY <1>0, <1>10, <2>1 DEF Finish
  <2>7. \A u \in Threads : u # t => pc[u] \notin Creating
    BY <1>10, <2>1 DEF Detouring, Creating
  <2>8. ASSUME NEW u \in Threads PROVE Shields(u)'
    <3>1. CASE u = t
      BY <2>6, <3>1 DEF Shields, DetoursContext, DetoursChain, HasDetoured
    <3>2. CASE u # t
      BY <1>10, <2>6, <2>7, <3>2
      DEF Shielding, Shields, Creating, DetoursContext, DetoursChain, HasDetoured
    <3> QED
      BY <3>1, <3>2
  <2>9. valid'["chain"] => Intact("viewport")'
    BY <1>10, <2>1, <2>2, <2>7 DEF Shielding, Creating, DetoursChain
  <2> QED
    BY <2>4, <2>5, <2>8, <2>9 DEF Shielding
<1>11. ASSUME NEW t \in Threads, ViewportStep(t)
       PROVE  \/ ViewportCallback(t)
              \/ ViewportCallbacksDone(t) /\ pc[t] \in {"viewport", "announce"}
  BY <1>11 DEF ViewportStep, ViewportCallbacksDone, Goto
<1>12. ASSUME NEW t \in Threads, CreateDevice(t) \/ ResizeBuffers(t) \/ Step(t)
       PROVE  ShieldInv'
  BY <1>2, <1>3, <1>4, <1>5, <1>6, <1>7, <1>9, <1>10, <1>11, <1>12
  DEF ShieldInv, Step, CreateStep, ResizeStep
<1> QED
  BY <1>1, <1>12 DEF Next

\* While no two creations overlap, no call of the game meets an unfinished detour.
LEMMA Shielded == Spec => []ShieldInv
<1>1. Init => ShieldInv
  BY DEF Init, ShieldInv, Shielding, Shields, Tables, DetoursContext, DetoursChain, HasDetoured
<1>2. ASSUME IInv, OnceInv, ShieldInv, [Next]_vars PROVE ShieldInv'
  <2>1. CASE UNCHANGED vars
    <3>1. UNCHANGED <<hooks, valid, held, given, pc, chain, overlap>>
      BY <2>1 DEF vars, setup, statics, world, chains, locals, history
    <3> QED
      BY <1>2, <3>1, ShieldingKept DEF ShieldInv, Shielding, Shields
  <2> QED
    BY <1>2, <2>1, NextShield
<1> QED
  BY <1>1, <1>2, Invariance, Onces, PTL DEF Spec

\* A hook always finds the original of its method: whenever the game has a
\* context or a chain, no detour of it is half done, was made twice or undone by
\* a failure, on any number of threads whose creations do not overlap
\* (dx.cpp:48, 67, 77, 106, 159-192, hooks.cpp:126, 182-188).
THEOREM Originals == Spec => []OriginalsIntact
<1>1. ShieldInv => OriginalsIntact
  BY DEF ShieldInv, Shielding, Shields, OriginalsIntact
<1> QED
  BY <1>1, Shielded, PTL

-----------------------------------------------------------------------------
(* What the features learn of mapped memory and of the buffer. *)

\* What a callback of hook t said to listener c.
Informed(t, c) ==
  /\ pc[t] = "mapped" => knows[c].mapped
  /\ pc[t] = "unmapping" => ~knows[c].mapped
  /\ pc[t] = "bound" => knows[c].buffer = context.buffer

\* The callbacks that the hook on thread t has run were told the truth.
Informs(t) ==
  /\ pc[t] \in {"mapped", "unmapping"} => context.mapped
  /\ pc[t] \in Using =>
       \A j \in DOMAIN callbacks[Hooked[pc[t]]] :
         j < k[t] => Informed(t, callbacks[Hooked[pc[t]]][j])

\* Nobody has used a context before dx::Init.
Unused ==
  boot <= Len(Clients) => context = Fallow /\ \A c \in ClientNames : knows[c] = Fallow

UseInv ==
  /\ \A t, u \in Threads : pc[t] \in Using /\ pc[u] \in Using => t = u
  /\ \A t \in Threads : Informs(t)
  /\ Unused

\* What a feature that wants both knows of the memory.
KnowsMapped(c) ==
  /\ "unmap" \notin failed => (knows[c].mapped => context.mapped)
  /\ {"map", "unmap"} \cap failed = {}
       /\ (\A t \in Threads : pc[t] \notin {"mapped", "unmapping"})
     => knows[c].mapped = context.mapped

KnowsBuffer(c) ==
  "constants" \notin failed /\ (\A t \in Threads : pc[t] # "bound")
    => knows[c].buffer = context.buffer

Knowing ==
  /\ \A c \in Listeners("map") \cap Listeners("unmap") : KnowsMapped(c)
  /\ \A c \in Listeners("constants") : KnowsBuffer(c)

KnowInv == "creations" \notin overlap => Knowing

\* A step outside the hooks of the context keeps what they rely on.
LEMMA UseKept ==
  ASSUME UseInv, UNCHANGED <<callbacks, context, knows>>,
         \A t \in Threads : pc'[t] \in Using \/ pc[t] \in Using =>
           pc'[t] = pc[t] /\ k'[t] = k[t],
         boot' <= Len(Clients) => boot <= Len(Clients)
  PROVE  UseInv'
<1>1. ASSUME NEW t \in Threads PROVE Informs(t)'
  <2>1. CASE pc'[t] \in Using
    <3>1. pc'[t] = pc[t] /\ k'[t] = k[t] /\ Informs(t)
      BY <2>1 DEF UseInv
    <3> QED
      BY <3>1 DEF Informs, Informed
  <2>2. CASE pc'[t] \notin Using
    BY <2>2 DEF Informs, Using
  <2> QED
    BY <2>1, <2>2
<1>2. Unused'
  BY DEF UseInv, Unused
<1> QED
  BY <1>1, <1>2 DEF UseInv

\* And what the features know.
LEMMA KnowKept ==
  ASSUME Knowing, UNCHANGED <<callbacks, context, knows>>, failed \subseteq failed',
         \A t \in Threads : pc'[t] \in Using \/ pc[t] \in Using => pc'[t] = pc[t]
  PROVE  Knowing'
<1>1. /\ (\A t \in Threads : pc'[t] \notin {"mapped", "unmapping"})
           => \A t \in Threads : pc[t] \notin {"mapped", "unmapping"}
      /\ (\A t \in Threads : pc'[t] # "bound") => \A t \in Threads : pc[t] # "bound"
  BY DEF Using
<1> QED
  BY <1>1 DEF Knowing, KnowsMapped, KnowsBuffer, Listeners

\* Creations and resizes are such steps.
LEMMA OutsideUsing ==
  ASSUME IInv, NEW t \in Threads,
         CreateDevice(t) \/ ResizeBuffers(t) \/ CreateStep(t) \/ ViewportStep(t) \/ ResizeStep(t)
  PROVE  /\ UNCHANGED <<boot, callbacks, context, knows>> /\ failed \subseteq failed'
         /\ \A u \in Threads : pc'[u] \in Using \/ pc[u] \in Using =>
              pc'[u] = pc[u] /\ k'[u] = k[u]
<1> USE DEF setup, statics, hooks, world, chains, locals, history, viewports
<1>0. pc \in [Threads -> Labels] /\ k \in [Threads -> Nat \ {0}]
  BY DEF IInv, TypeOK
<1>1. UNCHANGED <<boot, callbacks>>
  BY SetupKept DEF Step
<1>2. CASE CreateDevice(t) \/ ResizeBuffers(t)
  BY <1>0, <1>1, <1>2 DEF CreateDevice, ResizeBuffers, Enter, Goto, Using
<1>3. CASE DetourContext(t) \/ DetourChain(t)
  <2>1. failed \subseteq failed'
    BY <1>3, DetourGoes DEF DetourStep, Fail, Patch, Save
  <2>2. UNCHANGED <<k, context, knows>>
    BY <1>3, DetourGoes
  <2>3. \E from \in AtDetour, to \in AtDetour \cup {"chain", "created"} : Goto(t, from, to)
    BY <1>3, DetourGoes
  <2> QED
    BY <1>0, <1>1, <2>1, <2>2, <2>3 DEF AtDetour, Goto, Using
<1>4. CASE /\ CreateStep(t) \/ ViewportStep(t) \/ ResizeStep(t)
           /\ ~(DetourContext(t) \/ DetourChain(t))
  <2>1. UNCHANGED <<context, knows, failed>>
    BY <1>4
    DEF CreateStep, ViewportStep, ResizeStep, Track, TestContext, SetContext, TestChain,
        SetChain, CreateCallback, CreateCallbacksDone, Finish, ReleaseNull, ViewportCallback,
        ViewportCallbacksDone, OtherChain, TrackedChain, GetDesc, GetDescFails, ResizeLost,
        CallLost
  <2>2. /\ pc[t] \notin Using /\ pc'[t] \notin Using
        /\ \A u \in Threads \ {t} : pc'[u] = pc[u] /\ k'[u] = k[u]
    <3>1. CASE CreateStep(t)
      BY <1>0, <1>4, <3>1
      DEF CreateStep, Track, TestContext, SetContext, TestChain, SetChain, CreateCallback,
          CreateCallbacksDone, Finish, ReleaseNull, Forget, Goto, Using
    <3>2. CASE ViewportStep(t) \/ ResizeStep(t)
      BY <1>0, <3>2
      DEF ViewportStep, ResizeStep, ViewportCallback, ViewportCallbacksDone, OtherChain,
          TrackedChain, GetDesc, GetDescFails, ResizeLost, CallLost, Forget, Goto, Using
    <3> QED
      BY <1>4, <3>1, <3>2
  <2> QED
    BY <1>1, <2>1, <2>2
<1> QED
  BY <1>2, <1>3, <1>4

\* A thread that is in a hook, or a device of the game, is a sign of dx::Init.
LEMMA HooksNeedInit ==
  ASSUME IInv, given \/ \E t \in Threads : pc[t] # "idle"
  PROVE  boot > Len(Clients)
<1>1. boot \in Nat /\ Len(Clients) \in Nat
  BY DxAssumption DEF DxAssumption, IInv, TypeOK
<1> QED
  BY <1>1 DEF IInv, Dormant

\* When only thread t may be in those hooks, only its part is at stake.
LEMMA UseAlone ==
  ASSUME NEW t \in Threads, \A u \in Threads \ {t} : pc'[u] \notin Using,
         Informs(t)', ~(boot' <= Len(Clients))
  PROVE  UseInv'
<1>1. \A u \in Threads \ {t} : Informs(u)'
  BY DEF Informs, Using
<1> QED
  BY <1>1 DEF UseInv, Unused

\* A call of a method of the context, before any callback.
LEMMA CallKeepsUse ==
  ASSUME IInv, UseInv, NEW t \in Threads, NEW m, NEW label \in Using, NEW seenAs, NEW after,
         UseContext(t, m, label, seenAs, after),
         label \in {"mapped", "unmapping"} => seenAs.mapped
  PROVE  UseInv'
<1>1. /\ \A u \in Threads : pc[u] \notin Using
      /\ pc[t] = "idle" /\ UNCHANGED <<boot, callbacks, k>>
      /\ given
  BY DEF UseContext, MayUse, Goto, setup, locals
<1>2. k[t] = 1 /\ pc \in [Threads -> Labels]
  BY <1>1 DEF IInv, LocalsOK, TypeOK
<1>3. boot > Len(Clients) /\ boot \in Nat /\ Len(Clients) \in Nat
  BY <1>1, HooksNeedInit, DxAssumption DEF DxAssumption, IInv, TypeOK
<1>4. \A u \in Threads \ {t} : pc'[u] \notin Using
  BY <1>1, <1>2 DEF UseContext, Goto
<1>5. pc'[t] \in Using => pc'[t] = label /\ context' = seenAs
  BY <1>1, <1>2 DEF UseContext, Goto
<1>6. \A l \in Using : callbacks[Hooked[l]] \in Seq(ClientNames)
  BY DEF Hooked, Using, IInv, TypeOK, Kinds, Methods
<1>7. Informs(t)'
  <2>1. pc'[t] \in {"mapped", "unmapping"} => context'.mapped
    BY <1>5 DEF Using
  <2>2. ASSUME pc'[t] \in Using, NEW j \in DOMAIN callbacks'[Hooked[pc'[t]]]
        PROVE  ~(j < k'[t])
    <3>1. callbacks'[Hooked[pc'[t]]] \in Seq(ClientNames)
      BY <1>1, <1>6, <2>2
    <3> QED
      BY <1>1, <1>2, <2>2, <3>1
  <2> QED
    BY <2>1, <2>2 DEF Informs
<1> QED
  BY <1>1, <1>3, <1>4, <1>7, UseAlone

\* Every step keeps what the hooks of the context rely on.
LEMMA NextUse == ASSUME IInv, UseInv, Next PROVE UseInv'
<1> USE DEF setup, statics, hooks, world, chains, locals, history, viewports
<1>0. /\ pc \in [Threads -> Labels]
      /\ k \in [Threads -> Nat \ {0}]
      /\ knows \in [ClientNames -> Contexts]
      /\ boot \in Nat /\ Len(Clients) \in Nat
      /\ \A l \in Using : callbacks[Hooked[l]] \in Seq(ClientNames)
  BY DxAssumption DEF DxAssumption, IInv, TypeOK, Hooked, Using, Kinds, Methods
<1>1. CASE Register
  <2>1. /\ \A t \in Threads : pc'[t] = "idle"
        /\ UNCHANGED <<context, knows>> /\ boot <= Len(Clients)
    BY <1>0, <1>1 DEF IInv, Dormant, Register
  <2> QED
    BY <2>1 DEF UseInv, Unused, Informs, Using
<1>2. CASE DxInit \/ \E c \in Chains : ReleaseChain(c)
  <2>1. /\ UNCHANGED <<callbacks, context, knows, pc, k>>
        /\ boot' <= Len(Clients) => boot <= Len(Clients)
    BY <1>0, <1>2 DEF DxInit, ReleaseChain
  <2> QED
    BY <2>1, UseKept
<1>3. ASSUME NEW t \in Threads,
             CreateDevice(t) \/ ResizeBuffers(t) \/ CreateStep(t) \/ ViewportStep(t)
             \/ ResizeStep(t)
      PROVE  UseInv'
  BY <1>3, OutsideUsing, UseKept
<1>4. ASSUME NEW t \in Threads, Map(t) \/ Unmap(t) \/ SetBuffer(t) PROVE UseInv'
  <2>1. CASE Map(t)
    <3>1. context \in Contexts
      BY DEF IInv, TypeOK
    <3>2. [context EXCEPT !.mapped = TRUE].mapped
      BY <3>1 DEF Contexts
    <3> QED
      BY <2>1, <3>2, CallKeepsUse DEF Map, Using
  <2>2. CASE Unmap(t)
    BY <2>2, CallKeepsUse DEF Unmap, Using
  <2>3. CASE SetBuffer(t)
    BY <2>3, CallKeepsUse DEF SetBuffer, Using
  <2> QED
    BY <1>4, <2>1, <2>2, <2>3
<1>5. ASSUME NEW t \in Threads, ContextCallback(t) \/ ContextDone(t)
      PROVE  /\ \A u \in Threads \ {t} : pc'[u] \notin Using
             /\ ~(boot' <= Len(Clients)) /\ pc[t] \in Using
  <2>1. pc[t] \in Using /\ boot' = boot /\ \A u \in Threads \ {t} : pc'[u] = pc[u]
    BY <1>0, <1>5 DEF ContextCallback, ContextDone, Goto
  <2>2. boot > Len(Clients)
    BY <2>1, HooksNeedInit DEF Using
  <2> QED
    BY <1>0, <2>1, <2>2 DEF UseInv
<1>6. ASSUME NEW t \in Threads, ContextCallback(t) PROVE UseInv'
  <2> DEFINE listeners == callbacks[Hooked[pc[t]]]
  <2>1. /\ pc[t] \in Using /\ UNCHANGED <<callbacks, context, pc>>
        /\ k[t] \in DOMAIN listeners /\ k'[t] = k[t] + 1
        /\ listeners \in Seq(ClientNames)
    BY <1>0, <1>6 DEF ContextCallback
  <2>2. knows' = [knows EXCEPT ![listeners[k[t]]] =
                    CASE pc[t] = "mapped" -> [@ EXCEPT !.mapped = TRUE]
                      [] pc[t] = "unmapping" -> [@ EXCEPT !.mapped = FALSE]
                      [] pc[t] = "bound" -> [@ EXCEPT !.buffer = context.buffer]]
    BY <1>6 DEF ContextCallback
  <2>3. ASSUME NEW c \in ClientNames, c = listeners[k[t]] \/ Informed(t, c)
        PROVE  Informed(t, c)'
    <3>1. CASE c # listeners[k[t]]
      <4>1. knows'[c] = knows[c]
        BY <1>0, <2>2, <3>1
      <4> QED
        BY <2>1, <2>3, <3>1, <4>1 DEF Informed
    <3>2. CASE c = listeners[k[t]]
      <4>1. knows[c] \in Contexts
        BY <1>0
      <4>2. CASE pc[t] = "mapped"
        <5>1. knows'[c] = [knows[c] EXCEPT !.mapped = TRUE]
          BY <1>0, <2>2, <3>2, <4>2
        <5> QED
          BY <2>1, <4>1, <4>2, <5>1 DEF Informed, Contexts
      <4>3. CASE pc[t] = "unmapping"
        <5>1. knows'[c] = [knows[c] EXCEPT !.mapped = FALSE]
          BY <1>0, <2>2, <3>2, <4>3
        <5> QED
          BY <2>1, <4>1, <4>3, <5>1 DEF Informed, Contexts
      <4>4. CASE pc[t] = "bound"
        <5>1. knows'[c] = [knows[c] EXCEPT !.buffer = context.buffer]
          BY <1>0, <2>2, <3>2, <4>4
        <5> QED
          BY <2>1, <4>1, <4>4, <5>1 DEF Informed, Contexts
      <4> QED
        BY <2>1, <4>2, <4>3, <4>4 DEF Using
    <3> QED
      BY <3>1, <3>2
  <2>4. Informs(t)'
    <3>1. pc[t] \in {"mapped", "unmapping"} => context.mapped
      BY DEF UseInv, Informs
    <3>2. ASSUME NEW j \in DOMAIN listeners, j < k[t] + 1, NEW c, c = listeners[j]
          PROVE  Informed(t, c)'
      <4>1. c \in ClientNames
        BY <2>1, <3>2
      <4>2. CASE j = k[t]
        BY <2>3, <3>2, <4>1, <4>2
      <4>3. CASE j # k[t]
        <5>1. j < k[t]
          BY <1>0, <2>1, <3>2, <4>3
        <5>2. Informed(t, c)
          BY <2>1, <3>2, <5>1 DEF UseInv, Informs
        <5> QED
          BY <2>3, <4>1, <5>2
      <4> QED
        BY <4>2, <4>3
    <3> QED
      BY <2>1, <3>1, <3>2 DEF Informs, Informed
  <2> QED
    BY <1>5, <1>6, <2>4, UseAlone
<1>7. ASSUME NEW t \in Threads, ContextDone(t) PROVE UseInv'
  <2>1. pc'[t] = "idle"
    BY <1>0, <1>7 DEF ContextDone, Goto
  <2>2. Informs(t)'
    BY <2>1 DEF Informs, Using
  <2> QED
    BY <1>5, <1>7, <2>2, UseAlone
<1>8. ASSUME NEW t \in Threads, UseLost(t) \/ UnmapLost(t) PROVE UseInv'
  <2>1. /\ pc'[t] = "lost" /\ \A u \in Threads \ {t} : pc'[u] = pc[u]
        /\ UNCHANGED <<boot, callbacks, context, knows, k>>
    BY <1>0, <1>8 DEF UseLost, UnmapLost, CallLost, Goto
  <2>2. \A u \in Threads : Informs(u)'
    BY <2>1 DEF UseInv, Informs, Informed, Using
  <2> QED
    BY <2>1, <2>2 DEF UseInv, Unused, Using
<1> QED
  BY <1>1, <1>2, <1>3, <1>4, <1>6, <1>7, <1>8 DEF Next, Step, ContextStep

\* The threads use the context one at a time, and its hooks tell the truth.
LEMMA Uses == Spec => []UseInv
<1>1. Init => UseInv
  BY DEF Init, UseInv, Unused, Informs, Using
<1>2. ASSUME IInv, UseInv, [Next]_vars PROVE UseInv'
  <2>1. CASE UNCHANGED vars
    <3>1. UNCHANGED <<boot, callbacks, context, knows, pc, k>>
      BY <2>1 DEF vars, setup, world, locals, history
    <3> QED
      BY <1>2, <3>1, UseKept
  <2> QED
    BY <1>2, <2>1, NextUse
<1> QED
  BY <1>1, <1>2, Invariance, PTL DEF Spec

\* Whoever wants a method that is not detoured after all was told so.
LEMMA NotHooked ==
  ASSUME Reaching, NEW m \in OfContext, given, detours[m] = 0
  PROVE  Listeners(m) = {} \/ m \in failed
BY DEF Reaching, ContextReached, Reached, Listeners

\* Every step keeps what the features know.
LEMMA NextKnow == ASSUME IInv, ReachInv, ShieldInv, UseInv, KnowInv, Next PROVE KnowInv'
<1> USE DEF setup, statics, hooks, world, chains, locals, history, viewports
<1>0. /\ pc \in [Threads -> Labels]
      /\ k \in [Threads -> Nat \ {0}]
      /\ knows \in [ClientNames -> Contexts] /\ context \in Contexts
      /\ detours \in [Methods -> Nat]
      /\ \A m \in OfContext : Listeners(m) \subseteq ClientNames
  <2>1. \A m \in OfContext : callbacks[m] \in Seq(ClientNames)
    BY DEF IInv, TypeOK, OfContext, Kinds, Methods
  <2> QED
    BY <2>1 DEF IInv, TypeOK, Listeners
<1>1. CASE Register
  <2>1. context = Fallow /\ (\A c \in ClientNames : knows[c] = Fallow)
    BY <1>1, DxAssumption DEF DxAssumption, IInv, TypeOK, UseInv, Unused, Register
  <2>2. callbacks' \in [Kinds -> Seq(ClientNames)]
    BY <1>1, RegisterOK DEF IInv
  <2>3. \A m \in OfContext : Listeners(m)' \subseteq ClientNames
    <3>1. \A m \in OfContext : callbacks'[m] \in Seq(ClientNames)
      BY <2>2 DEF OfContext, Kinds, Methods
    <3> QED
      BY <3>1 DEF Listeners
  <2> QED
    BY <1>1, <2>1, <2>3 DEF Register, KnowInv, Knowing, KnowsMapped, KnowsBuffer, OfContext
<1>2. CASE DxInit \/ \E c \in Chains : ReleaseChain(c)
  <2>1. UNCHANGED <<callbacks, context, knows, failed, pc, overlap>>
    BY <1>2 DEF DxInit, ReleaseChain
  <2> QED
    BY <2>1, KnowKept DEF KnowInv
<1>3. ASSUME NEW t \in Threads,
             CreateDevice(t) \/ ResizeBuffers(t) \/ CreateStep(t) \/ ViewportStep(t)
             \/ ResizeStep(t)
      PROVE  KnowInv'
  <2>1. "creations" \notin overlap' => "creations" \notin overlap
    BY <1>3, OverlapStays DEF Step
  <2> QED
    BY <1>3, <2>1, OutsideUsing, KnowKept DEF KnowInv
<1>4. ASSUME NEW t \in Threads, NEW m \in OfContext, NEW label \in Using, Hooked[label] = m,
             NEW seenAs \in Contexts, NEW after \in Contexts,
             UseContext(t, m, label, seenAs, after),
             "creations" \notin overlap'
      PROVE  /\ Knowing /\ Reaching /\ given
             /\ UNCHANGED <<callbacks, failed, knows>>
             /\ \A u \in Threads : pc[u] \notin Using
             /\ \/ /\ context' = after /\ UNCHANGED pc
                   /\ Listeners(m) = {} \/ m \in failed
                \/ context' = seenAs /\ pc'[t] = label
  <2>1. "creations" \notin overlap /\ UNCHANGED <<callbacks, failed, knows>>
    BY <1>4 DEF UseContext, Enter
  <2>2. Knowing /\ Reaching /\ given
    BY <1>4, <2>1 DEF KnowInv, ReachInv, UseContext, MayUse
  <2> QED
    BY <1>0, <1>4, <2>1, <2>2, NotHooked DEF UseContext, MayUse, Goto
<1>5. ASSUME NEW t \in Threads, Map(t), "creations" \notin overlap' PROVE Knowing'
  <2> DEFINE mapped == [context EXCEPT !.mapped = TRUE]
  <2>1. mapped \in Contexts /\ mapped.mapped /\ mapped.buffer = context.buffer
    BY <1>0 DEF Contexts
  <2>2. UseContext(t, "map", "mapped", mapped, mapped)
    BY <1>5 DEF Map
  <2>3. /\ Knowing /\ UNCHANGED <<callbacks, failed, knows>>
        /\ \A u \in Threads : pc[u] \notin Using
        /\ context' = mapped
        /\ pc'[t] = "mapped" \/ Listeners("map") = {} \/ "map" \in failed
    BY <1>4, <1>5, <2>1, <2>2 DEF OfContext, Using, Hooked
  <2>4. ASSUME NEW c \in Listeners("map") \cap Listeners("unmap") PROVE KnowsMapped(c)'
    BY <2>1, <2>3 DEF KnowsMapped
  <2>5. ASSUME NEW c \in Listeners("constants") PROVE KnowsBuffer(c)'
    BY <2>1, <2>3 DEF Knowing, KnowsBuffer, Using
  <2> QED
    BY <2>3, <2>4, <2>5 DEF Knowing, Listeners
<1>6. ASSUME NEW t \in Threads, Unmap(t), "creations" \notin overlap' PROVE Knowing'
  <2> DEFINE unmapped == [context EXCEPT !.mapped = FALSE]
  <2>1. unmapped \in Contexts /\ ~unmapped.mapped /\ unmapped.buffer = context.buffer
    BY <1>0 DEF Contexts
  <2>2. context.mapped /\ UseContext(t, "unmap", "unmapping", context, unmapped)
    BY <1>6 DEF Unmap
  <2>3. /\ Knowing /\ UNCHANGED <<callbacks, failed, knows>>
        /\ \A u \in Threads : pc[u] \notin Using
        /\ \/ context' = unmapped /\ (Listeners("unmap") = {} \/ "unmap" \in failed)
           \/ context' = context /\ pc'[t] = "unmapping"
    BY <1>0, <1>4, <1>6, <2>1, <2>2 DEF OfContext, Using, Hooked
  <2>4. ASSUME NEW c \in Listeners("map") \cap Listeners("unmap") PROVE KnowsMapped(c)'
    BY <2>1, <2>3 DEF Knowing, KnowsMapped
  <2>5. ASSUME NEW c \in Listeners("constants") PROVE KnowsBuffer(c)'
    BY <2>1, <2>3 DEF Knowing, KnowsBuffer, Using
  <2> QED
    BY <2>3, <2>4, <2>5 DEF Knowing, Listeners
<1>7. ASSUME NEW t \in Threads, SetBuffer(t), "creations" \notin overlap' PROVE Knowing'
  <2>1. PICK b \in Buffers :
          UseContext(t, "constants", "bound", [context EXCEPT !.buffer = b],
                     [context EXCEPT !.buffer = b])
    BY <1>7 DEF SetBuffer
  <2> DEFINE set == [context EXCEPT !.buffer = b]
  <2>2. set \in Contexts /\ set.mapped = context.mapped
    BY <1>0 DEF Contexts
  <2>3. /\ Knowing /\ UNCHANGED <<callbacks, failed, knows>>
        /\ \A u \in Threads : pc[u] \notin Using
        /\ context' = set
        /\ pc'[t] = "bound" \/ Listeners("constants") = {} \/ "constants" \in failed
    BY <1>4, <1>7, <2>1, <2>2 DEF OfContext, Using, Hooked
  <2>4. ASSUME NEW c \in Listeners("map") \cap Listeners("unmap") PROVE KnowsMapped(c)'
    BY <2>2, <2>3 DEF Knowing, KnowsMapped, Using
  <2>5. ASSUME NEW c \in Listeners("constants") PROVE KnowsBuffer(c)'
    BY <2>3 DEF KnowsBuffer
  <2> QED
    BY <2>3, <2>4, <2>5 DEF Knowing, Listeners
<1>8. ASSUME NEW t \in Threads, ContextCallback(t), Knowing PROVE Knowing'
  <2>1. PICK l : knows' = [knows EXCEPT ![l] =
                    CASE pc[t] = "mapped" -> [@ EXCEPT !.mapped = TRUE]
                      [] pc[t] = "unmapping" -> [@ EXCEPT !.mapped = FALSE]
                      [] pc[t] = "bound" -> [@ EXCEPT !.buffer = context.buffer]]
    BY <1>8 DEF ContextCallback
  <2>2. pc[t] \in Using /\ UNCHANGED <<callbacks, context, failed, pc>>
    BY <1>8 DEF ContextCallback
  <2>3. ASSUME NEW c \in ClientNames
        PROVE  /\ pc[t] = "mapped" => knows'[c].buffer = knows[c].buffer
               /\ pc[t] = "unmapping" =>
                    /\ knows'[c].buffer = knows[c].buffer
                    /\ knows'[c].mapped = knows[c].mapped \/ ~knows'[c].mapped
               /\ pc[t] = "bound" => knows'[c].mapped = knows[c].mapped
    <3>1. knows[c] \in Contexts
      BY <1>0
    <3>2. CASE c # l
      BY <1>0, <2>1, <3>2
    <3>3. CASE c = l /\ pc[t] = "mapped"
      <4>1. knows'[c] = [knows[c] EXCEPT !.mapped = TRUE]
        BY <1>0, <2>1, <3>3
      <4> QED
        BY <3>1, <3>3, <4>1 DEF Contexts
    <3>4. CASE c = l /\ pc[t] = "unmapping"
      <4>1. knows'[c] = [knows[c] EXCEPT !.mapped = FALSE]
        BY <1>0, <2>1, <3>4
      <4> QED
        BY <3>1, <3>4, <4>1 DEF Contexts
    <3>5. CASE c = l /\ pc[t] = "bound"
      <4>1. knows'[c] = [knows[c] EXCEPT !.buffer = context.buffer]
        BY <1>0, <2>1, <3>5
      <4> QED
        BY <3>1, <3>5, <4>1 DEF Contexts
    <3> QED
      BY <2>2, <3>2, <3>3, <3>4, <3>5 DEF Using
  <2>4. pc[t] = "mapped" => context.mapped
    BY DEF UseInv, Informs
  <2>5. ASSUME NEW c \in Listeners("map") \cap Listeners("unmap") PROVE KnowsMapped(c)'
    <3>1. KnowsMapped(c) /\ c \in ClientNames
      BY <1>0, <1>8 DEF Knowing, OfContext
    <3> QED
      BY <2>2, <2>3, <2>4, <3>1 DEF KnowsMapped, Using
  <2>6. ASSUME NEW c \in Listeners("constants") PROVE KnowsBuffer(c)'
    <3>1. KnowsBuffer(c) /\ c \in ClientNames
      BY <1>0, <1>8 DEF Knowing, OfContext
    <3> QED
      BY <2>2, <2>3, <3>1 DEF KnowsBuffer, Using
  <2> QED
    BY <2>2, <2>5, <2>6 DEF Knowing, Listeners
<1>9. ASSUME NEW t \in Threads, ContextDone(t), Knowing PROVE Knowing'
  <2>1. /\ pc[t] \in Using /\ k[t] > Len(callbacks[Hooked[pc[t]]])
        /\ pc'[t] = "idle" /\ \A u \in Threads \ {t} : pc'[u] = pc[u]
        /\ context' = IF pc[t] = "unmapping" THEN [context EXCEPT !.mapped = FALSE] ELSE context
        /\ UNCHANGED <<callbacks, knows, failed>>
    BY <1>0, <1>9 DEF ContextDone, Goto
  <2>2. callbacks[Hooked[pc[t]]] \in Seq(ClientNames)
    BY <2>1 DEF Using, Hooked, IInv, TypeOK, Kinds, Methods
  <2>3. \A c \in Listeners(Hooked[pc[t]]) : Informed(t, c)
    <3>1. \A j \in DOMAIN callbacks[Hooked[pc[t]]] : j < k[t]
      BY <1>0, <2>1, <2>2
    <3>2. Informs(t)
      BY DEF UseInv
    <3> QED
      BY <2>1, <3>1, <3>2 DEF Listeners, Informs
  <2>4. /\ pc[t] = "unmapping" => context'.mapped = FALSE /\ context'.buffer = context.buffer
        /\ pc[t] # "unmapping" => context' = context
        /\ pc[t] = "mapped" => context.mapped
    <3>1. [context EXCEPT !.mapped = FALSE].mapped = FALSE
      BY <1>0 DEF Contexts
    <3>2. [context EXCEPT !.mapped = FALSE].buffer = context.buffer
      BY <1>0 DEF Contexts
    <3>3. pc[t] = "mapped" => context.mapped
      BY DEF UseInv, Informs
    <3> QED
      BY <2>1, <3>1, <3>2, <3>3
  <2>5. \A u \in Threads \ {t} : pc[u] \notin Using
    BY <2>1 DEF UseInv
  <2>6. ASSUME NEW c \in Listeners("map") \cap Listeners("unmap") PROVE KnowsMapped(c)'
    <3>1. KnowsMapped(c) /\ knows[c].mapped \in BOOLEAN /\ context.mapped \in BOOLEAN
      BY <1>0, <1>9 DEF Knowing, OfContext, Contexts
    <3>2. pc[t] = "mapped" => knows[c].mapped
      BY <2>3 DEF Informed, Hooked
    <3>3. pc[t] = "unmapping" => knows[c].mapped = FALSE
      BY <2>3, <3>1 DEF Informed, Hooked
    <3>4. pc[t] = "bound" => \A u \in Threads : pc[u] \notin {"mapped", "unmapping"}
      BY <2>5 DEF Using
    <3>5. CASE pc[t] = "mapped"
      BY <2>1, <2>4, <3>1, <3>2, <3>5 DEF KnowsMapped
    <3>6. CASE pc[t] = "unmapping"
      BY <2>1, <2>4, <3>1, <3>3, <3>6 DEF KnowsMapped
    <3>7. CASE pc[t] = "bound"
      BY <2>1, <2>4, <3>1, <3>4, <3>7 DEF KnowsMapped
    <3> QED
      BY <2>1, <3>5, <3>6, <3>7 DEF Using
  <2>7. ASSUME NEW c \in Listeners("constants") PROVE KnowsBuffer(c)'
    <3>1. KnowsBuffer(c)
      BY <1>9 DEF Knowing
    <3>2. pc[t] = "bound" => knows[c].buffer = context.buffer
      BY <2>3 DEF Informed, Hooked
    <3>3. pc[t] # "bound" => \A u \in Threads : pc[u] # "bound"
      BY <2>5 DEF Using
    <3> QED
      BY <2>1, <2>4, <3>1, <3>2, <3>3 DEF KnowsBuffer
  <2> QED
    BY <2>1, <2>6, <2>7 DEF Knowing, Listeners
<1>10. ASSUME NEW t \in Threads, ContextStep(t) PROVE KnowInv'
  <2>1. CASE ContextCallback(t) \/ ContextDone(t)
    <3>1. UNCHANGED overlap
      BY <2>1 DEF ContextCallback, ContextDone
    <3> QED
      BY <1>8, <1>9, <2>1, <3>1 DEF KnowInv
  <2>2. CASE UseLost(t) \/ UnmapLost(t)
    <3>1. UNCHANGED overlap
      BY <2>2 DEF UseLost, UnmapLost, CallLost
    <3>2. "creations" \in overlap
      BY <2>2
      DEF ShieldInv, Shielding, Shields, ContextIntact, OfContext, UseLost, UnmapLost,
          CallLost, MayUse, Goto
    <3> QED
      BY <3>1, <3>2 DEF KnowInv
  <2> QED
    BY <1>5, <1>6, <1>7, <1>10, <2>1, <2>2 DEF ContextStep, KnowInv
<1> QED
  BY <1>1, <1>2, <1>3, <1>10 DEF Next, Step

\* What the features know of mapped memory and of the constant buffer is so,
\* with any number of features that want any of it: unless a method could not be
\* detoured, or two creations overlapped (dx.cpp:41-68, 101-111, 163-178).
THEOREM ContextTold == Spec => []ContextAsTold
<1>1. Init => KnowInv
  BY DEF Init, KnowInv, Knowing, KnowsMapped, KnowsBuffer, Listeners, Kinds, Methods
<1>2. ASSUME IInv, ReachInv, ShieldInv, UseInv, KnowInv, [Next]_vars PROVE KnowInv'
  <2>1. CASE UNCHANGED vars
    <3>1. UNCHANGED <<callbacks, context, knows, failed, pc, overlap>>
      BY <2>1 DEF vars, setup, hooks, world, history
    <3> QED
      BY <1>2, <3>1, KnowKept DEF KnowInv
  <2> QED
    BY <1>2, <2>1, NextKnow
<1>3. KnowInv => ContextAsTold
  BY DEF KnowInv, Knowing, KnowsMapped, KnowsBuffer, ContextAsTold, Using
<1> QED
  BY <1>1, <1>2, <1>3, Invariance, Reaches, Shielded, Uses, PTL DEF Spec
=============================================================================
