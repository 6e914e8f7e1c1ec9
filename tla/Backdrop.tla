------------------------------ MODULE Backdrop -------------------------------
(***************************************************************************)
(* dllmain.cpp, namespace backdrop: widening the HUD glass as its mesh is  *)
(* loaded.                                                                 *)
(*                                                                         *)
(* The render thread injects BSTriShapeParse into the virtual table of     *)
(* BSTriShape (VfTable) and stores s_scale from a viewport callback, while *)
(* the loader threads parse meshes.  The replacement lets the original     *)
(* parse the mesh, then multiplies the x of each of the four vertices by   *)
(* s_scale, which it reads again for every vertex.                         *)
(*                                                                         *)
(* A scale is named by the viewport it is computed from; the scale of a    *)
(* viewport with a zero in it is not a number and is named 0.              *)
(***************************************************************************)
EXTENDS VfTable, SequencesExt

CONSTANTS
  DefaultScale,   \* the initial scale 1.0
  Names,          \* names of mesh files, as sequences of components
  HudGlass        \* the name of the HUD glass

NumVerts == 4

VARIABLES
  s_scale,   \* the scale to apply
  mesh,      \* mesh[t]: result, vertex count and file name of the mesh of t
  factors    \* factors[t]: the scales its vertices were multiplied by, in order

shapes == <<mesh, factors>>

Meshes == [parsed : BOOLEAN, four : BOOLEAN, name : Names]
NoMesh == [parsed |-> FALSE, four |-> FALSE, name |-> <<>>]

BackdropInit ==
  /\ Init
  /\ s_scale = DefaultScale
  /\ mesh = [t \in Threads |-> NoMesh]
  /\ factors = [t \in Threads |-> <<>>]

OnViewportResize(v) ==
  /\ s_scale' = v
  /\ UNCHANGED <<vars, shapes>>

\* The comparison stops after as many characters as the file's name has, so
\* every leading part of the name of the HUD glass is taken for it.
IsHudGlass(name) == IsPrefix(name, HudGlass)

ToScale(t) ==
  depth[t] > 0 /\ mesh[t].parsed /\ mesh[t].four /\ IsHudGlass(mesh[t].name)

\* The game parses a mesh through the table entry.
Parse(t) ==
  /\ Call(t)
  /\ \E m \in Meshes : mesh' = [mesh EXCEPT ![t] = m]
  /\ factors' = [factors EXCEPT ![t] = <<>>]
  /\ UNCHANGED s_scale

\* The part of the call that every injected method has.
InMethod(t) ==
  /\ CallPrev(t) \/ RunOriginal(t)
  /\ UNCHANGED <<s_scale, shapes>>

ScaleVertex(t) ==
  /\ pc[t] = "return" /\ ToScale(t) /\ Len(factors[t]) < NumVerts
  /\ factors' = [factors EXCEPT ![t] = Append(@, s_scale)]
  /\ UNCHANGED <<vars, s_scale, mesh>>

ParseReturns(t) ==
  /\ ToScale(t) => Len(factors[t]) = NumVerts
  /\ Return(t)
  /\ mesh' = [mesh EXCEPT ![t] = NoMesh]
  /\ UNCHANGED <<s_scale, factors>>

\* The scan for the table may find nothing, the entry may stay read-only.
OnDeviceCreate == Unprotect /\ UNCHANGED <<s_scale, shapes>>

FinishInject == (SavePrev \/ Publish) /\ UNCHANGED <<s_scale, shapes>>

ParseStep(t) == InMethod(t) \/ ScaleVertex(t) \/ ParseReturns(t)
=============================================================================
