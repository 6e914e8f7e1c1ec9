------------------------------ MODULE MCUiScale ------------------------------
(* Model values for the runs of UiScale: a clip without an option, two with *)
(* options that name a mode, one whose option is misspelt, and executables. *)
EXTENDS UiScale, TLC

CONSTANTS t1, t2, hud, map, pipboy, typo

Two == {t1, t2}
AsDocumented == (hud :> "ShowAll") @@ (map :> "NoScale") @@ (pipboy :> NotSet)
Misspelt == AsDocumented @@ (typo :> "showall")
Known == DOMAIN AsDocumented
All == DOMAIN Misspelt

-----------------------------------------------------------------------------
(* Executables: .text takes the addresses from 100, data follows. *)

\* The constructor of Movie, and of a class whose last instruction differs.
Movie == ConstructorWith(Displacement(700), Displacement(708), Code("1", 5))
OtherClass ==
  SubSeq(ConstructorWith(Displacement(800), Displacement(808), Code("1", 5)), 1, 34)
    \o Code("mov [rdx], rax", 3)
Fill(n) == Code("nop", n)
Padded(code) == code \o Fill(120 - Len(code))

Executable(name, text, data, truth) ==
  [dos |-> "MZ", nt |-> "PE",
   sections |-> <<[name |-> name, address |-> 100, size |-> 120],
                  [name |-> ".data", address |-> 220, size |-> 120]>>,
   byte |-> [a \in 100 .. 399 |->
               IF a < 220 THEN Padded(text)[a - 99]
               ELSE IF a < 340 THEN Padded(data)[a - 219] ELSE <<"zero", 1>>],
   movie |-> truth]

Game == Executable(".text", OtherClass \o Fill(2) \o Movie, Movie, 139 + 13 + 700)
AtEnd == Executable(".text", Fill(83) \o Movie, OtherClass, 183 + 13 + 700)
OtherGame == Executable(".text", OtherClass, Movie, NotFound)
Packed == Executable("packed", Movie, Fill(1), NotFound)
NotAProgram == [Executable(".text", Movie, Fill(1), NotFound) EXCEPT !.nt = "??"]
Executables == <<Game, AtEnd, OtherGame, Packed, NotAProgram>>
OneGame == <<Game>>
=============================================================================
