----------------------------- MODULE Wrench_proofs ----------------------------
(***************************************************************************)
(* Proofs about Wrench, for any number of loaders, features, chains, sizes *)
(* and devices.                                                            *)
(***************************************************************************)
EXTENDS Wrench, Dx_proofs

-----------------------------------------------------------------------------
(* The library at work is Direct3D hooks at work.                          *)

\* The backdrop fix rides on the hooks: it adds nothing to what they do.
LEMMA StepOfDx == ASSUME [WrenchNext]_wrenchVars PROVE [Next]_vars
<1>1. Render \in Threads
  BY WrenchAssumption DEF WrenchAssumption
<1>2. CASE UNCHANGED wrenchVars
  BY <1>2 DEF wrenchVars
<1>3. CASE WrenchNext
  <2>1. CASE Attach
    BY <1>3, <2>1 DEF WrenchNext, Attach, Next
  <2>2. CASE NewDevice
    BY <1>1, <1>3, <2>2 DEF WrenchNext, NewDevice, Next
  <2>3. CASE OnDeviceCreate \/ OnViewportResize
    BY <1>1, <1>3, <2>3
    DEF WrenchNext, OnDeviceCreate, OnViewportResize, Next, Step, CreateStep, ViewportStep
  <2>4. CASE HookStep
    BY <1>1, <1>3, <2>4 DEF WrenchNext, HookStep, Next, Step, CreateStep, ViewportStep
  <2>5. CASE FinishInject
    BY <2>5 DEF FinishInject
  <2>6. CASE \E t \in Loaders : Parse(t) \/ ParseStep(t)
    BY <2>6 DEF Parse, ParseStep
  <2> QED
    BY <1>3, <2>1, <2>2, <2>3, <2>4, <2>5, <2>6 DEF WrenchNext, RenderStep
<1> QED
  BY <1>2, <1>3

\* Whatever holds of the hooks holds of the library: the features, driven by
\* their callbacks, do nothing the hooks do not allow (dllmain.cpp:226-312).
THEOREM Direct3D == WrenchSpec => Spec
<1>1. WrenchInit => Init
  BY DEF WrenchInit
<1>2. [WrenchNext]_wrenchVars => [Next]_vars
  BY StepOfDx
<1> QED
  BY <1>1, <1>2, PTL DEF WrenchSpec, Spec

-----------------------------------------------------------------------------
(* The vertices of a mesh and the scale they get. *)

Scales == Sizes \cup {0, NoSize}

\* While no hook runs, a loader scales every vertex by the one scale there is.
Scaled(t) ==
  /\ quiet[t] => \A i \in DOMAIN factors[t] : factors[t][i] = s_scale
  /\ quiet[t] => pc[Render] = "idle"

ScaleOK ==
  /\ s_scale \in Scales
  /\ factors \in [Loaders -> Seq(Scales)]
  /\ quiet \in [Loaders -> BOOLEAN]

ScaleInv == ScaleOK /\ \A t \in Loaders : Scaled(t)

\* A hook leaves the loaders alone, and none of them is undisturbed by it.
LEMMA HookKeepsScale ==
  ASSUME ScaleInv, s_scale' \in Scales, UNCHANGED factors,
         InHook \/ UNCHANGED <<quiet, pc, s_scale>>
  PROVE  ScaleInv'
<1>1. ScaleOK'
  BY DEF ScaleInv, ScaleOK, InHook
<1>2. ASSUME NEW t \in Loaders PROVE Scaled(t)'
  <2>1. quiet'[t] => quiet[t] /\ UNCHANGED <<pc, s_scale>>
    BY DEF InHook
  <2> QED
    BY <2>1 DEF ScaleInv, Scaled
<1> QED
  BY <1>1, <1>2 DEF ScaleInv

\* A step of the loader t that does its part.
LEMMA LoaderScales ==
  ASSUME ScaleInv, NEW t \in Loaders, UNCHANGED <<s_scale, pc>>, ScaleOK', Scaled(t)',
         \A u \in Loaders \ {t} : factors'[u] = factors[u] /\ quiet'[u] = quiet[u]
  PROVE  ScaleInv'
BY DEF ScaleInv, Scaled

\* Every step keeps the loaders in order.
LEMMA NextScaleInv == ASSUME IInv, ScaleInv, WrenchNext PROVE ScaleInv'
<1> USE DEF scaleVars, slotVars, backdropVars
<1>0. /\ s_scale \in Scales /\ factors \in [Loaders -> Seq(Scales)]
      /\ quiet \in [Loaders -> BOOLEAN]
  BY DEF ScaleInv, ScaleOK
<1>1. ASSUME Attach \/ NewDevice \/ HookStep \/ FinishInject \/ OnDeviceCreate PROVE ScaleInv'
  <2>1. UNCHANGED <<s_scale, factors>>
    BY <1>1
    DEF Attach, NewDevice, HookStep, FinishInject, OnDeviceCreate, Backdrop!FinishInject,
        Backdrop!OnDeviceCreate, Backdrop!shapes
  <2>2. InHook \/ UNCHANGED <<quiet, pc>>
    BY <1>1 DEF Attach, NewDevice, HookStep, FinishInject, OnDeviceCreate, Register, DxInit
  <2> QED
    BY <1>0, <2>1, <2>2, HookKeepsScale
<1>2. ASSUME OnViewportResize PROVE ScaleInv'
  <2>1. s_scale' = desc[Render] /\ InHook /\ UNCHANGED factors
    BY <1>2 DEF OnViewportResize, Backdrop!OnViewportResize, Backdrop!shapes
  <2>2. s_scale' \in Scales
    BY <2>1, WrenchAssumption DEF WrenchAssumption, IInv, TypeOK, Scales
  <2> QED
    BY <2>1, <2>2, HookKeepsScale
<1>3. ASSUME NEW t \in Loaders, Parse(t) PROVE ScaleInv'
  <2>1. /\ factors' = [factors EXCEPT ![t] = <<>>]
        /\ quiet' = [quiet EXCEPT ![t] = pc[Render] = "idle"]
        /\ UNCHANGED <<s_scale, pc>>
    BY <1>3 DEF Parse, Backdrop!Parse, vars
  <2>2. ScaleOK'
    BY <1>0, <2>1 DEF ScaleOK
  <2>3. factors'[t] = <<>> /\ (quiet'[t] => pc'[Render] = "idle")
    BY <1>0, <2>1
  <2>4. Scaled(t)'
    BY <2>3 DEF Scaled
  <2> QED
    BY <1>0, <2>1, <2>2, <2>4, LoaderScales
<1>4. ASSUME NEW t \in Loaders, ParseStep(t) PROVE ScaleInv'
  <2>1. UNCHANGED <<s_scale, pc, quiet>>
    BY <1>4
    DEF ParseStep, vars, Backdrop!ParseStep, Backdrop!InMethod, Backdrop!ScaleVertex,
        Backdrop!ParseReturns
  <2>2. CASE Backdrop!InMethod(t) \/ Backdrop!ParseReturns(t)
    <3>1. UNCHANGED factors
      BY <2>2 DEF Backdrop!InMethod, Backdrop!ParseReturns, Backdrop!shapes
    <3> QED
      BY <1>0, <2>1, <3>1, HookKeepsScale
  <2>3. CASE Backdrop!ScaleVertex(t)
    <3>1. factors' = [factors EXCEPT ![t] = Append(@, s_scale)]
      BY <2>3 DEF Backdrop!ScaleVertex
    <3>2. factors[t] \in Seq(Scales) /\ factors'[t] = Append(factors[t], s_scale)
      BY <1>0, <3>1
    <3>3. \A i \in DOMAIN factors'[t] :
            \/ i \in DOMAIN factors[t] /\ factors'[t][i] = factors[t][i]
            \/ factors'[t][i] = s_scale
      BY <1>0, <3>2
    <3>4. Scaled(t)
      BY DEF ScaleInv
    <3>5. Scaled(t)'
      BY <2>1, <3>3, <3>4 DEF Scaled
    <3>6. ScaleOK'
      BY <1>0, <2>1, <3>1, <3>2 DEF ScaleOK
    <3> QED
      BY <1>0, <2>1, <3>1, <3>5, <3>6, LoaderScales
  <2> QED
    BY <1>4, <2>2, <2>3 DEF ParseStep, Backdrop!ParseStep
<1> QED
  BY <1>1, <1>2, <1>3, <1>4 DEF WrenchNext, RenderStep

\* The loaders are always in order.
LEMMA Scaling == WrenchSpec => []ScaleInv
<1>1. WrenchInit => ScaleInv
  BY DEF WrenchInit, ScaleInv, ScaleOK, Scaled, Scales, Backdrop!BackdropInit
<1>2. ASSUME IInv, ScaleInv, [WrenchNext]_wrenchVars PROVE ScaleInv'
  <2>1. CASE UNCHANGED wrenchVars
    <3>1. UNCHANGED <<s_scale, factors, quiet, pc>> /\ s_scale \in Scales
      BY <1>2, <2>1 DEF wrenchVars, backdropVars, scaleVars, vars, ScaleInv, ScaleOK
    <3> QED
      BY <1>2, <3>1, HookKeepsScale
  <2> QED
    BY <1>2, <2>1, NextScaleInv
<1> QED
  BY <1>1, <1>2, Direct3D, Invariance, PTL DEF WrenchSpec

-----------------------------------------------------------------------------
(* The scale is that of the viewport. *)

\* One thread never overlaps itself, only the backdrop fix is told of viewports,
\* and it keeps what it was told last.
GlassInv ==
  /\ overlap = {}
  /\ Listeners("viewport") \subseteq {Feature}
  /\ Feature \in ClientNames => s_scale = seen[Feature]

\* Registering a feature for viewports is registering the backdrop fix.
LEMMA OnlyFeature ==
  ASSUME IInv, Register, Listeners("viewport") \subseteq {Feature}
  PROVE  Listeners("viewport")' \subseteq {Feature}
<1>1. boot + 1 \in DOMAIN Clients
  BY DxAssumption DEF DxAssumption, IInv, TypeOK, Register
<1> DEFINE c == Clients[boot + 1]
<1>2. c \in ClientNames /\ ("viewport" \in Wants[c] => c = Feature)
  BY <1>1, WrenchAssumption DEF ClientNames, WrenchAssumption
<1>3. callbacks["viewport"] \in Seq(ClientNames)
  BY DEF IInv, TypeOK, Kinds, Methods
<1>4. \/ callbacks'["viewport"] = callbacks["viewport"]
      \/ c = Feature /\ callbacks'["viewport"] = Append(callbacks["viewport"], c)
  BY <1>2 DEF Register, Kinds, Methods
<1> HIDE DEF c
<1>5. CASE callbacks'["viewport"] = callbacks["viewport"]
  BY <1>5 DEF Listeners
<1>6. CASE c = Feature /\ callbacks'["viewport"] = Append(callbacks["viewport"], c)
  <2>1. ASSUME NEW j \in DOMAIN callbacks'["viewport"] PROVE callbacks'["viewport"][j] = Feature
    <3>1. j \in 1..Len(callbacks["viewport"]) + 1
      BY <1>3, <1>6, <2>1
    <3>2. CASE j = Len(callbacks["viewport"]) + 1
      BY <1>3, <1>6, <3>2
    <3>3. CASE j \in 1..Len(callbacks["viewport"])
      <4>1. callbacks'["viewport"][j] = callbacks["viewport"][j] /\ j \in DOMAIN callbacks["viewport"]
        BY <1>3, <1>6, <3>3
      <4> QED
        BY <4>1 DEF Listeners
    <3> QED
      BY <1>3, <3>1, <3>2, <3>3
  <2> QED
    BY <2>1 DEF Listeners
<1> QED
  BY <1>4, <1>5, <1>6

\* Every step keeps the scale that of the viewport told last.
LEMMA NextGlassInv == ASSUME IInv, GlassInv, WrenchNext PROVE GlassInv'
<1> USE DEF setup, statics, hooks, world, chains, locals, history, viewports
<1>0. Render \in Threads /\ Threads = {Render}
  BY WrenchAssumption DEF WrenchAssumption
<1>1. ASSUME UNCHANGED <<overlap, callbacks, seen, s_scale>> PROVE GlassInv'
  BY <1>1 DEF GlassInv, Listeners
<1>2. CASE Attach
  <2>1. UNCHANGED <<overlap, seen, s_scale>> /\ (Register \/ UNCHANGED callbacks)
    BY <1>2 DEF Attach, Register, DxInit, backdropVars, scaleVars
  <2> QED
    BY <2>1, OnlyFeature DEF GlassInv, Listeners
<1>3. CASE NewDevice \/ HookStep
  <2>1. s_scale' = s_scale
    BY <1>3 DEF NewDevice, HookStep, backdropVars, scaleVars
  <2>2. Enter(Render) => overlap' = overlap /\ UNCHANGED seen
    BY <1>0 DEF Enter, Others
  <2>3. UNCHANGED <<overlap, seen, callbacks>>
    BY <1>0, <1>3, <2>2
    DEF NewDevice, CreateDevice, HookStep, Track, TestContext, SetContext, DetourContext,
        TestChain, SetChain, DetourChain, CreateCallbacksDone, Finish, ReleaseNull,
        ViewportCallbacksDone, ResizeStep, OtherChain, TrackedChain, GetDesc, GetDescFails,
        ResizeLost, CallLost, ResizeBuffers, ReleaseChain
  <2> QED
    BY <1>1, <2>1, <2>3
<1>4. CASE OnDeviceCreate
  <2>1. UNCHANGED <<overlap, seen, callbacks, s_scale>>
    BY <1>4 DEF OnDeviceCreate, CreateCallback, Backdrop!OnDeviceCreate, backdropVars, scaleVars
  <2> QED
    BY <1>1, <2>1
<1>5. CASE OnViewportResize
  <2>1. /\ k[Render] \in Nat \ {0} /\ k[Render] <= Len(callbacks["viewport"])
        /\ seen' = [seen EXCEPT ![callbacks["viewport"][k[Render]]] = desc[Render]]
        /\ s_scale' = desc[Render] /\ UNCHANGED <<overlap, callbacks>>
    BY <1>0, <1>5
    DEF OnViewportResize, ViewportCallback, Backdrop!OnViewportResize, IInv, TypeOK
  <2>2. callbacks["viewport"] \in Seq(ClientNames) /\ DOMAIN seen = ClientNames
    BY DEF IInv, TypeOK, Kinds, Methods
  <2>3. callbacks["viewport"][k[Render]] = Feature
    <3>1. k[Render] \in DOMAIN callbacks["viewport"]
      BY <2>1, <2>2
    <3> QED
      BY <3>1 DEF GlassInv, Listeners
  <2>4. Listeners("viewport")' = Listeners("viewport")
    BY <2>1 DEF Listeners
  <2>5. Feature \in ClientNames => seen'[Feature] = desc[Render]
    BY <2>1, <2>2, <2>3
  <2> QED
    BY <2>1, <2>4, <2>5 DEF GlassInv
<1>6. CASE FinishInject \/ \E t \in Loaders : Parse(t) \/ ParseStep(t)
  <2>1. UNCHANGED <<overlap, callbacks, seen>>
    BY <1>6 DEF FinishInject, Parse, ParseStep, vars
  <2>2. UNCHANGED s_scale
    BY <1>6
    DEF FinishInject, Parse, ParseStep, Backdrop!FinishInject, Backdrop!Parse,
        Backdrop!ParseStep, Backdrop!InMethod, Backdrop!ScaleVertex, Backdrop!ParseReturns
  <2> QED
    BY <1>1, <2>1, <2>2
<1> QED
  BY <1>2, <1>3, <1>4, <1>5, <1>6 DEF WrenchNext, RenderStep

\* A glass that is parsed outside the hooks gets the scale of the size that the
\* remembered chain has, whatever chains came, were resized and went before
\* (README.md:10-11).
THEOREM Glass == WrenchSpec => []GlassFitsViewport
<1>1. ASSUME IInv, ViewportIsCurrent, ScaleInv, GlassInv PROVE GlassFitsViewport
  <2> SUFFICES ASSUME NEW t \in Loaders, quiet[t], ~missed, "viewport" \notin failed,
                      s_swapChain \in held, Feature \in Listeners("viewport"),
                      NEW i \in DOMAIN factors[t]
               PROVE  factors[t][i] = size[s_swapChain]
    BY DEF GlassFitsViewport
  <2>1. \A u \in Threads : pc[u] = "idle"
    BY <1>1, WrenchAssumption DEF WrenchAssumption, ScaleInv, Scaled
  <2>2. seen[Feature] = size[s_swapChain]
    BY <1>1, <2>1 DEF ViewportIsCurrent, GlassInv
  <2>3. Feature \in ClientNames
    <3>1. callbacks["viewport"] \in Seq(ClientNames)
      BY <1>1 DEF IInv, TypeOK, Kinds, Methods
    <3> QED
      BY <3>1 DEF Listeners
  <2>4. factors[t][i] = s_scale
    BY <1>1 DEF ScaleInv, Scaled
  <2> QED
    BY <1>1, <2>2, <2>3, <2>4 DEF GlassInv
<1>2. WrenchInit => GlassInv
  BY DEF WrenchInit, Init, GlassInv, Listeners, Kinds, Methods, Backdrop!BackdropInit
<1>3. ASSUME IInv, GlassInv, [WrenchNext]_wrenchVars PROVE GlassInv'
  <2>1. CASE UNCHANGED wrenchVars
    <3>1. UNCHANGED <<overlap, callbacks, seen, s_scale>>
      BY <2>1
      DEF wrenchVars, backdropVars, scaleVars, vars, setup, history, viewports
    <3> QED
      BY <1>3, <3>1 DEF GlassInv, Listeners
  <2> QED
    BY <1>3, <2>1, NextGlassInv
<1> QED
  BY <1>1, <1>2, <1>3, Direct3D, Invariance, Viewports, Scaling, PTL DEF WrenchSpec

-----------------------------------------------------------------------------
(* The loaders and the table entry. *)

\* Where the injection stands determines both pointers; a loader in the
\* replacement came through the entry, and none was in the original too early.
EntryInv ==
  /\ entry \in {"original", "hook"} /\ injected \in Nat
  /\ inject # "idle" \/ entry = "hook" => injected = 1
  /\ inject # "idle" => entry = "original"
  /\ inject = "publish" \/ entry = "hook" => prev = "original"
  /\ DOMAIN parsePc = Loaders /\ DOMAIN reached = Loaders
  /\ \A t \in Loaders :
       /\ parsePc[t] = "hook" => entry = "hook"
       /\ parsePc[t] \in {"hook", "original"} => reached[t] = 0
       /\ parsePc[t] = "return" => reached[t] = 1
       /\ parsePc[t] # "crashed"

\* The steps of an injection, when there is but one.
LEMMA InjectKeepsEntry ==
  ASSUME Devices <= 1, EntryInv,
         Backdrop!Unprotect \/ Backdrop!SavePrev \/ Backdrop!Publish
  PROVE  EntryInv'
<1> USE DEF EntryInv, Backdrop!calls, Backdrop!slot
<1>1. Devices \in Nat
  BY DxAssumption DEF DxAssumption
<1>2. CASE Backdrop!Unprotect
  BY <1>1, <1>2 DEF Backdrop!Unprotect
<1>3. CASE Backdrop!SavePrev
  BY <1>3 DEF Backdrop!SavePrev
<1>4. CASE Backdrop!Publish
  BY <1>4 DEF Backdrop!Publish
<1> QED
  BY <1>2, <1>3, <1>4

\* The steps of a loader.
LEMMA LoaderKeepsEntry ==
  ASSUME EntryInv, NEW t \in Loaders, Parse(t) \/ ParseStep(t)
  PROVE  EntryInv'
<1> USE DEF EntryInv, Backdrop!slot, Backdrop!injector
<1>1. CASE Parse(t)
  BY <1>1 DEF Parse, Backdrop!Parse, Backdrop!Call, Backdrop!Goto
<1>2. CASE Backdrop!CallPrev(t)
  <2>1. Backdrop!Callee(t) = "original"
    BY <1>2 DEF Backdrop!CallPrev, Backdrop!Callee, Backdrop!Goto
  <2> QED
    BY <1>2, <2>1 DEF Backdrop!CallPrev, Backdrop!Goto
<1>3. CASE Backdrop!RunOriginal(t)
  BY <1>3 DEF Backdrop!RunOriginal, Backdrop!Goto
<1>4. CASE Backdrop!ScaleVertex(t)
  BY <1>4 DEF Backdrop!ScaleVertex, Backdrop!vars, Backdrop!calls
<1>5. CASE Backdrop!ParseReturns(t)
  BY <1>5 DEF Backdrop!ParseReturns, Backdrop!Return, Backdrop!Goto
<1> QED
  BY <1>1, <1>2, <1>3, <1>4, <1>5 DEF ParseStep, Backdrop!ParseStep, Backdrop!InMethod

\* Every step of the library.
LEMMA NextEntryInv ==
  ASSUME Devices <= 1, EntryInv, [WrenchNext]_wrenchVars PROVE EntryInv'
<1>1. CASE UNCHANGED backdropVars
  BY <1>1 DEF EntryInv, backdropVars, slotVars
<1>2. CASE UNCHANGED wrenchVars
  BY <1>1, <1>2 DEF wrenchVars
<1>3. CASE Attach \/ NewDevice \/ HookStep
  BY <1>1, <1>3 DEF Attach, NewDevice, HookStep
<1>4. CASE OnDeviceCreate
  BY <1>1, <1>4, InjectKeepsEntry DEF OnDeviceCreate, Backdrop!OnDeviceCreate
<1>5. CASE OnViewportResize
  BY <1>5
  DEF OnViewportResize, Backdrop!OnViewportResize, EntryInv, Backdrop!vars, Backdrop!slot,
      Backdrop!injector, Backdrop!calls
<1>6. CASE FinishInject
  BY <1>6, InjectKeepsEntry DEF FinishInject, Backdrop!FinishInject
<1>7. ASSUME NEW t \in Loaders, Parse(t) \/ ParseStep(t) PROVE EntryInv'
  BY <1>7, LoaderKeepsEntry
<1> QED
  BY <1>2, <1>3, <1>4, <1>5, <1>6, <1>7 DEF WrenchNext, RenderStep

LEMMA Entries == ASSUME Devices <= 1 PROVE WrenchSpec => []EntryInv
<1>1. WrenchInit => EntryInv
  BY DEF WrenchInit, EntryInv, Backdrop!BackdropInit, Backdrop!Init
<1>2. ASSUME EntryInv, [WrenchNext]_wrenchVars PROVE EntryInv'
  BY <1>2, NextEntryInv
<1> QED
  BY <1>1, <1>2, PTL DEF WrenchSpec

\* As long as the game creates one device, no loader crashes, wherever its calls
\* fall between the steps of the injection: it is the second device that makes
\* the replacement its own original (dllmain.cpp:226-251, 290).
THEOREM LoadersSurvive == ASSUME Devices <= 1 PROVE WrenchSpec => []LoadersAlive
<1>1. EntryInv => LoadersAlive
  BY DEF EntryInv, LoadersAlive, Backdrop!Alive
<1> QED
  BY <1>1, Entries, PTL

\* With one device, a mesh that a loader gets back was parsed by the game exactly
\* once (dllmain.cpp:237).
THEOREM ParsedOnce == ASSUME Devices <= 1 PROVE WrenchSpec => []Backdrop!OriginalOnce
<1>1. EntryInv => Backdrop!OriginalOnce
  BY DEF EntryInv, Backdrop!OriginalOnce
<1> QED
  BY <1>1, Entries, PTL
=============================================================================
