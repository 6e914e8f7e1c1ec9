-------------------------------- MODULE MCDx ---------------------------------
(* Model values for the runs of Dx.  The clients are the two features, in  *)
(* the order of DllMain, with uiscale also asking for the callbacks of the *)
(* context, which the features of the library leave alone.                 *)
EXTENDS Dx, TLC

CONSTANTS t1, t2, uiscale, backdrop

EqualChains == Permutations(Chains)

TwoThreads == {t1, t2}

Features == <<uiscale, backdrop>>
FeatureWants == (uiscale :> {"create", "map", "unmap", "constants"}) @@ (backdrop :> {"create", "viewport"})
=============================================================================
