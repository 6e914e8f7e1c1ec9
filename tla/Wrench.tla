------------------------------- MODULE Wrench --------------------------------
(***************************************************************************)
(* The library at work: the hooks of Direct3D (Dx) drive the backdrop fix  *)
(* (Backdrop) through the callbacks that dllmain.cpp registers.            *)
(*                                                                         *)
(* One render thread creates the device and resizes the swap chains; the   *)
(* loader threads parse meshes.  The device callback of the backdrop fix   *)
(* injects BSTriShapeParse, its viewport callback stores s_scale.  Both    *)
(* run inside a hook of Dx, so the render thread does nothing else until   *)
(* they return.                                                            *)
(***************************************************************************)
EXTENDS Dx

CONSTANTS
  Render,      \* the render thread
  Loaders,     \* the threads that parse meshes
  Feature,     \* the backdrop fix
  StackDepth, Names, HudGlass   \* see Backdrop

\* One thread is in the hooks of Direct3D; no feature registers for the context,
\* and only the backdrop fix for viewports.
ASSUME WrenchAssumption ==
  /\ Threads = {Render} /\ Users = {}
  /\ \A c \in ClientNames : "viewport" \in Wants[c] => c = Feature

VARIABLES
  entry, prev, inject, injected, parsePc, depth, reached,
  s_scale, mesh, factors,
  quiet     \* history: quiet[t]: no hook of Dx ran since t began to parse

Backdrop == INSTANCE Backdrop WITH
  Threads <- Loaders, pc <- parsePc, Injections <- Devices,
  DefaultScale <- NoSize

slotVars == <<entry, prev, inject, injected, parsePc, depth, reached>>
scaleVars == <<s_scale, mesh, factors>>
backdropVars == <<slotVars, scaleVars>>
wrenchVars == <<vars, backdropVars, quiet>>

WrenchInit ==
  /\ Init
  /\ Backdrop!BackdropInit
  /\ quiet = [t \in Loaders |-> FALSE]

-----------------------------------------------------------------------------
(* The render thread. *)

InHook == quiet' = [t \in Loaders |-> FALSE]

Attach == (Register \/ DxInit) /\ UNCHANGED <<backdropVars, quiet>>

NewDevice ==
  /\ CreateDevice(Render)
  /\ UNCHANGED backdropVars /\ InHook

\* A device callback of the backdrop fix begins an Inject, one of another
\* feature does not.
OnDeviceCreate ==
  /\ CreateCallback(Render)
  /\ IF callbacks["create"][k[Render]] = Feature
     THEN Backdrop!OnDeviceCreate
     ELSE UNCHANGED backdropVars
  /\ InHook

\* Mutant: the viewport of a new device is not passed on, only resizes are.
OnViewportResizeOnly ==
  /\ ViewportCallback(Render)
  /\ IF pc[Render] = "announce" THEN Backdrop!OnViewportResize(desc[Render])
     ELSE UNCHANGED backdropVars
  /\ InHook

OnViewportResize ==
  /\ ViewportCallback(Render)
  /\ Backdrop!OnViewportResize(desc[Render])
  /\ InHook

\* The rest of an Inject, before the hook of Dx goes on.
FinishInject == Backdrop!FinishInject /\ UNCHANGED vars /\ InHook

HookStep ==
  /\ \/ Track(Render) \/ TestContext(Render) \/ SetContext(Render)
     \/ DetourContext(Render) \/ TestChain(Render) \/ SetChain(Render)
     \/ DetourChain(Render) \/ CreateCallbacksDone(Render) \/ Finish(Render)
     \/ ReleaseNull(Render) \/ ViewportCallbacksDone(Render)
     \/ ResizeStep(Render) \/ ResizeBuffers(Render)
     \/ \E c \in Chains : ReleaseChain(c)
  /\ UNCHANGED backdropVars /\ InHook

RenderStep ==
  \/ inject = "idle" /\ (Attach \/ NewDevice \/ OnDeviceCreate
                         \/ OnViewportResize \/ HookStep)
  \/ FinishInject

-----------------------------------------------------------------------------
(* The loader threads. *)

Parse(t) ==
  /\ Backdrop!Parse(t)
  /\ quiet' = [quiet EXCEPT ![t] = pc[Render] = "idle"]
  /\ UNCHANGED vars

ParseStep(t) == Backdrop!ParseStep(t) /\ UNCHANGED <<vars, quiet>>

WrenchNext ==
  /\ Alive /\ Backdrop!Alive
  /\ RenderStep \/ \E t \in Loaders : Parse(t) \/ ParseStep(t)

WrenchSpec == WrenchInit /\ [][WrenchNext]_wrenchVars

-----------------------------------------------------------------------------
(* Correctness. *)

\* What the backdrop fix is for: a HUD glass that is parsed while the render
\* thread is outside the hooks, once the fix is injected, gets the scale of the
\* size that the remembered swap chain has, unless that could not be learnt (README.md:10-11).
GlassFitsViewport ==
  \A t \in Loaders :
    /\ parsePc[t] = "return" /\ quiet[t] /\ ~missed
    /\ "viewport" \notin failed /\ s_swapChain \in held /\ Feature \in Listeners("viewport")
    => \A i \in DOMAIN factors[t] : factors[t][i] = size[s_swapChain]

\* No loader crashes, however often the game creates a device.
LoadersAlive == Backdrop!Alive
=============================================================================
