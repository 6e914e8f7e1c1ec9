------------------------------ MODULE MCWrench -------------------------------
(* Model values for the runs of Wrench.                                    *)
EXTENDS Wrench, TLC

CONSTANTS t1, uiscale, backdrop, meshes, glass, other

One == {t1}
Features == <<uiscale, backdrop>>
FeatureWants == (uiscale :> {"create"}) @@ (backdrop :> {"create", "viewport"})
Glass == <<meshes, glass>>
FileNames == {Glass, <<meshes, other>>}
=============================================================================
