--------------------------- MODULE MCXInputWrapper ---------------------------
(* Model values and constant sets for the runs of XInputWrapper.           *)
EXTENDS XInputWrapper, TLC

CONSTANTS t1, t2, t3

Two == {t1, t2}
Three == {t1, t2, t3}
FirstAndLast == {1, NumFns}
Mixed == {TRUE, FALSE}
Working == {TRUE}

Symmetry == Permutations(Threads)
=============================================================================
