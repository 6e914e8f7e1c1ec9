------------------------------ MODULE CodeScan -------------------------------
(***************************************************************************)
(* hooks.cpp: FindSection, FindPattern and DataCompare, which look for     *)
(* code of the game in the image of its executable.                        *)
(*                                                                         *)
(* An image is a record of the two magic numbers of its headers, of its    *)
(* sections and of the bytes at its addresses.  A byte of an instruction   *)
(* is named by the instruction and its place in it, a byte of a            *)
(* displacement also by its value.  A pattern and its mask are one sequence *)
(* in which Wild stands for a masked byte.                                  *)
(***************************************************************************)
EXTENDS Integers, Sequences, FiniteSetsExt

Wild == <<"wild">>
Code(instruction, n) == [i \in 1 .. n |-> <<instruction, i>>]
Masked(n) == [i \in 1 .. n |-> Wild]
Displacement(d) == [i \in 1 .. 4 |-> <<"displacement", i, d>>]

NoSection == [name |-> "", address |-> 0, size |-> 0]
NotFound == 0

\* Mutant: the headers are taken for valid.
FindSectionUnchecked(image, name) ==
  LET found == {j \in DOMAIN image.sections : image.sections[j].name = name} IN
  IF found = {} THEN NoSection ELSE image.sections[Min(found)]

\* The first section with the name, if the headers are those of a program.
FindSection(image, name) ==
  LET found == {j \in DOMAIN image.sections : image.sections[j].name = name} IN
  IF image.dos # "MZ" \/ image.nt # "PE" \/ found = {} THEN NoSection
  ELSE image.sections[Min(found)]

\* Mutant: a masked byte is compared as well.
DataCompareUnmasked(image, address, pattern) ==
  \A i \in DOMAIN pattern : image.byte[address + i - 1] = pattern[i]

DataCompare(image, address, pattern) ==
  \A i \in DOMAIN pattern :
    pattern[i] # Wild => image.byte[address + i - 1] = pattern[i]

\* The first address before the end from which all bytes of the pattern
\* follow, the last of them possibly behind the end.
FindPattern(image, address, term, pattern) ==
  LET found == {p \in address .. term - 1 : DataCompare(image, p, pattern)} IN
  IF found = {} THEN NotFound ELSE Min(found)

-----------------------------------------------------------------------------
(* What uiscale looks for: the constructor of Scaleform's Movie, which      *)
(* loads the address of its virtual table relative to the next instruction. *)

ConstructorWith(table, other, value) ==
  Code("sub rsp", 4) \o Code("xor ebp", 2)
    \o Code("lea rax", 3) \o table \o Code("lea r14", 3) \o other
    \o Code("mov [rcx], r14", 3) \o Code("mov [rcx+8]", 2) \o value
    \o Code("mov [rcx+18h], rbp", 4) \o Code("mov [rcx], rax", 3)

MovieConstructor == ConstructorWith(Masked(4), Masked(4), Masked(5))

Bytes(image, address, n) == [i \in 1 .. n |-> image.byte[address + i - 1]]

\* The number in the four bytes at an address, when they hold one.
Int32At(image, address) ==
  LET bytes == Bytes(image, address, 4) IN
  IF bytes[1][1] = "displacement" /\ bytes = Displacement(bytes[1][3])
  THEN bytes[1][3] ELSE 0

\* Mutant: the displacement counts from where it is itself.
VTableFromOperand(image, ctor) == ctor + 9 + Int32At(image, ctor + 9)

VTable(image, ctor) == ctor + 13 + Int32At(image, ctor + 9)

\* The virtual table of Movie, NotFound without a .text section that holds its
\* constructor.
MovieTable(image) ==
  LET text == FindSection(image, ".text")
      ctor == FindPattern(image, text.address, text.address + text.size, MovieConstructor)
  IN IF text = NoSection \/ ctor = NotFound THEN NotFound ELSE VTable(image, ctor)

-----------------------------------------------------------------------------
(* What there is to be found: an executable of which movie is the table.    *)

\* The instructions of the constructor are at an address, whatever their operands.
IsConstructor(image, p) ==
  LET code == ConstructorWith(Bytes(image, p + 9, 4), Bytes(image, p + 16, 4), Bytes(image, p + 25, 5))
  IN Bytes(image, p, Len(code)) = code

\* The addresses of the first section called .text of a program.
Text(image) ==
  LET named == {j \in DOMAIN image.sections : image.sections[j].name = ".text"}
      first == {image.sections[j] : j \in {j \in named : \A k \in named : j <= k}}
  IN IF image.dos # "MZ" \/ image.nt # "PE" THEN {}
     ELSE UNION {s.address .. s.address + s.size - 1 : s \in first}

\* The first constructor of this form in the program is that of Movie, whose
\* table is named relative to the instruction behind its lea; without Movie
\* there is none.
MovieIsFirst(image) ==
  LET ctors == {p \in Text(image) : IsConstructor(image, p)} IN
  /\ \A j \in DOMAIN image.sections :
       /\ j \in Nat
       /\ image.sections[j].address \in Nat \ {0} /\ image.sections[j].size \in Nat
  /\ image.movie \in Int
  /\ IF image.movie = NotFound THEN ctors = {}
     ELSE \E p \in ctors :
            /\ \A q \in ctors : p <= q
            /\ Bytes(image, p + 9, 4) = Displacement(image.movie - (p + 13))
=============================================================================
