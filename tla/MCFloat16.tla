----------------------------- MODULE MCFloat16 -------------------------------
(* Every half, and the scales of some sizes of a window as bits of a float. *)
EXTENDS Float16

AllHalves == 0 .. 65535

\* 16:9, 4:3, 16:10, both kinds of 21:9, 32:9 and three screens side by side; a height or a
\* width that is zero, and both.
Windows == {One, 1061158912, 1063675495, 1068149419, 1068236800, 1073741824, 1077936128,
            Infinity, 0, 2143289344}
=============================================================================
