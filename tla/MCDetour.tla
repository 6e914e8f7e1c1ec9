------------------------------ MODULE MCDetour -------------------------------
(* Memories for the runs of Detour: a page has 64 addresses, a jump reaches *)
(* 512 and there are 4096 in all.                                           *)
EXTENDS Detour, Sequences, TLC

CONSTANTS t1, t2

Two == {t1, t2}

I(len, op) == [len |-> len, op |-> op, jump |-> 0]
J(len, op, to) == [len |-> len, op |-> op, jump |-> to]

\* The instructions of a body, from an address on; jumps are to offsets.
Place(from, body) ==
  LET start[i \in 1 .. Len(body)] ==
        IF i = 1 THEN from ELSE start[i - 1] + body[i - 1].len
  IN [a \in {start[i] : i \in DOMAIN body} |->
        LET i == CHOOSE i \in DOMAIN body : start[i] = a IN
        [len |-> body[i].len, op |-> body[i].op, to |-> from + body[i].jump]]

\* A function that only jumps, with padding behind it.
Stub(from, len, op, to) ==
  Place(from, <<J(len, op, to - from), I(15, "plain"), I(1, "ret")>>)

\* Nineteen bytes move; a loop behind them.
Body == <<I(3, "plain"), I(7, "plain"), I(5, "plain"), I(4, "plain"),
          I(3, "relative"), J(2, "branch", 19), I(1, "ret")>>
\* A branch behind the moved bytes goes into them.
BackBody == <<I(8, "plain"), I(9, "plain"), J(2, "branch", 8), I(1, "ret")>>
\* A call is moved.
CallBody == <<I(4, "plain"), I(5, "relative"), I(7, "plain"), I(1, "ret")>>
\* The function is shorter than the jump; another begins behind it.
ShortBody == <<I(4, "plain"), I(1, "ret"), I(12, "plain"), I(1, "ret")>>
\* It has just the size and fifteen bytes in its last instruction.
FitBody == <<I(15, "plain"), I(15, "plain"), I(1, "ret")>>

B(from, to, free) == [from |-> from, to |-> to, free |-> free]
Near == {B(0, 896, FALSE), B(896, 1024, TRUE), B(1024, 1408, FALSE), B(1408, 2048, TRUE)}
Wide == {B(0, 448, FALSE), B(448, 1024, TRUE), B(1024, 1408, FALSE)}
Far == {B(0, 448, FALSE), B(448, 512, TRUE), B(512, 1408, FALSE)}

L(entry, final, calls, c, blocks) ==
  [entry |-> entry, final |-> final, calls |-> {entry, final} \cup calls,
   code |-> c, blocks |-> blocks, open |-> {}]

Opened(l, ps) == [l EXCEPT !.open = ps]

F == 1104

\* The jump lies on pages 17 and 18.
Straddling == L(1148, 1148, {}, Place(1148, Body), Near)
\* What follows the jump goes on in page 18.
Long == L(1130, 1130, {}, Place(1130, FitBody), Near)

Sound ==
  { L(F, F, {}, Place(F, Body), Wide),
    L(F, F, {}, Place(F, Body), Far),
    L(1040, F, {}, Place(F, Body) @@ Stub(1040, 5, "jump", F), Near),
    L(1024, F, {1060}, Place(F, Body) @@ Stub(1024, 2, "short", 1060)
                                      @@ Stub(1060, 5, "jump", F), Near),
    Long, Opened(Long, {18}), Straddling, Opened(Straddling, {17}), Opened(Straddling, {18}),
    L(320, 320, {}, Place(320, Body), Near),
    L(F, F, {}, Place(F, BackBody), Near),
    L(F, F, {}, Place(F, CallBody), Near),
    L(F, F, {F + 5}, Place(F, ShortBody), Near) }

\* A function before the one that only jumps, as far as a byte reaches.
Backward == {L(1200, F, {}, Place(F, Body) @@ Stub(1200, 2, "short", F), Near)}
=============================================================================
