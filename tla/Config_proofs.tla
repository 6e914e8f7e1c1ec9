---------------------------- MODULE Config_proofs -----------------------------
(***************************************************************************)
(* Proofs about Config: for documents of any size and depth, a visit stays *)
(* inside the fixed arrays of config.cpp, and the options it leaves are    *)
(* what a reading of the whole tree gives.                                 *)
(***************************************************************************)
EXTENDS Config, FiniteSetTheorems, WellFoundedInduction, TLAPS

(* Numbers. *)

\* A set of natural numbers has a least one.
LEMMA LeastNat ==
  ASSUME NEW S, S \subseteq Nat, S # {}
  PROVE  \E x \in S : \A y \in S : x <= y
<1>1. IsWellFoundedOn(OpToRel(<, Nat), Nat)
  BY NatLessThanWellFounded
<1>2. PICK x \in S : \A y \in S : ~(<<y, x>> \in OpToRel(<, Nat))
  BY <1>1, WFMin
<1>3. ASSUME NEW y \in S PROVE x <= y
  <2>1. x \in Nat /\ y \in Nat /\ <<y, x>> \in Nat \X Nat
    OBVIOUS
  <2>2. ~(y < x)
    BY <1>2, <2>1 DEF OpToRel
  <2> QED
    BY <2>1, <2>2
<1> QED
  BY <1>3

\* And, if it is bounded, a greatest one.
LEMMA GreatestNat ==
  ASSUME NEW S, S \subseteq Nat, S # {}, NEW bound \in Nat, \A x \in S : x <= bound
  PROVE  \E x \in S : \A y \in S : y <= x
<1> DEFINE bounds == {b \in Nat : \A x \in S : x <= b}
<1>1. PICK b \in bounds : \A a \in bounds : b <= a
  <2>1. bounds \subseteq Nat /\ bounds # {}
    OBVIOUS
  <2> HIDE DEF bounds
  <2> QED
    BY <2>1, LeastNat
<1>2. CASE b \in S
  BY <1>2
<1>3. CASE b \notin S
  <2>1. PICK x \in S : TRUE
    OBVIOUS
  <2>2. b \in Nat /\ x < b
    BY <1>3, <2>1
  <2>3. ASSUME NEW y \in S PROVE y <= b - 1
    <3>1. y \in Nat /\ y <= b /\ y # b
      BY <1>3
    <3> QED
      BY <2>2, <3>1
  <2>4. b - 1 \in bounds
    BY <2>2, <2>3
  <2> QED
    BY <1>1, <2>2, <2>4
<1> QED
  BY <1>2, <1>3

\* The largest of them is what Max chooses.
LEMMA MaxIs ==
  ASSUME NEW S, S \subseteq Nat, NEW x \in S, \A y \in S : y <= x
  PROVE  Max(S) = x
<1>1. S \subseteq Int /\ x \in S /\ \A y \in S : x >= y
  OBVIOUS
<1>2. Max(S) \in S /\ \A y \in S : Max(S) >= y
  BY <1>1 DEF Max
<1>3. Max(S) \in Int /\ x \in Int /\ Max(S) >= x /\ x >= Max(S)
  BY <1>1, <1>2
<1> QED
  BY <1>3

\* A bounded set has the number that Max chooses.
LEMMA MaxIn ==
  ASSUME NEW S, S \subseteq Nat, S # {}, NEW bound \in Nat, \A x \in S : x <= bound
  PROVE  Max(S) \in S
  BY GreatestNat, MaxIs

-----------------------------------------------------------------------------
(* Trees. *)

\* An element of a sequence over a set is in the set.
LEMMA ElementOf == ASSUME NEW S, NEW q \in Seq(S), NEW j \in DOMAIN q PROVE q[j] \in S
  OBVIOUS

LEMMA NodesOf ==
  ASSUME NEW d, IsDocument(d)
  PROVE  /\ Len(d.kind) \in Nat \ {0} /\ Nodes(d) = 1 .. Len(d.kind)
         /\ 1 \in Nodes(d) /\ Nodes(d) \subseteq Nat
         /\ \A n \in Nodes(d) : End(d)[n] \in Nodes(d) /\ n <= End(d)[n]
<1>1. d.kind \in Seq(Kinds) /\ d.kind # << >>
  BY DEF IsDocument
<1>2. Len(d.kind) \in Nat \ {0} /\ DOMAIN d.kind = 1 .. Len(d.kind)
  BY <1>1
<1> QED
  BY <1>2 DEF IsDocument, IsTree, Nodes

\* The nodes below a child are below its parent, and above them in number.
LEMMA Children ==
  ASSUME NEW d, IsDocument(d), NEW n \in Nodes(d), NEW i \in Places(d, n)
  PROVE  /\ i \in Nat \ {0} /\ ChildOf(d, n, i) \in Nodes(d)
         /\ d.children[n][i].key \in Keys
         /\ n < ChildOf(d, n, i)
         /\ Below(d, ChildOf(d, n, i)) \subseteq n + 1 .. End(d)[n]
         /\ Below(d, ChildOf(d, n, i)) \subseteq Below(d, n)
<1> DEFINE c == ChildOf(d, n, i)
<1>1. d.children[n] \in Seq([key : Keys, node : Nodes(d)])
  BY DEF IsDocument
<1>2. i \in Nat \ {0} /\ d.children[n][i] \in [key : Keys, node : Nodes(d)]
  <2>1. i \in DOMAIN d.children[n]
    BY DEF Places
  <2>2. DOMAIN d.children[n] = 1 .. Len(d.children[n]) /\ Len(d.children[n]) \in Nat
    BY <1>1
  <2>3. d.children[n][i] \in [key : Keys, node : Nodes(d)]
    BY <1>1, <2>1, ElementOf
  <2> QED
    BY <2>1, <2>2, <2>3
<1>3. c \in Nodes(d) /\ d.children[n][i].key \in Keys
  BY <1>2 DEF ChildOf
<1>4. Below(d, c) \subseteq n + 1 .. End(d)[n]
  BY DEF IsDocument, IsTree
<1>5. c \in Nat /\ n \in Nat /\ End(d)[c] \in Nat /\ c <= End(d)[c] /\ End(d)[n] \in Nat
  BY <1>3, NodesOf
<1>6. c \in Below(d, c)
  BY <1>5 DEF Below
<1>7. n < c
  BY <1>4, <1>5, <1>6
<1> QED
  BY <1>2, <1>3, <1>4, <1>5, <1>7 DEF Below

\* Of two children the nodes below the first come first.
LEMMA ChildrenApart ==
  ASSUME NEW d, IsDocument(d), NEW x \in Nodes(d), NEW i \in Places(d, x), NEW j \in Places(d, x), i < j,
         NEW n \in Below(d, ChildOf(d, x, i)), NEW m \in Below(d, ChildOf(d, x, j))
  PROVE  n < m
<1>1. End(d)[ChildOf(d, x, i)] < ChildOf(d, x, j)
  BY DEF IsDocument, IsTree
<1>2. /\ ChildOf(d, x, i) \in Nat /\ ChildOf(d, x, j) \in Nat
      /\ End(d)[ChildOf(d, x, i)] \in Nat /\ End(d)[ChildOf(d, x, j)] \in Nat
  BY Children, NodesOf
<1> QED
  BY <1>1, <1>2 DEF Below

\* A node has one parent, and one place in it.
LEMMA ParentIs ==
  ASSUME NEW d, IsDocument(d), NEW n \in Nodes(d), NEW i \in Places(d, n)
  PROVE  /\ Parent(d, ChildOf(d, n, i)) = n
         /\ Name(d, ChildOf(d, n, i)) =
              IF d.kind[n] = "array" THEN Zero ELSE d.children[n][i].key
<1> DEFINE c == ChildOf(d, n, i)
<1>1. \A m \in Nodes(d) : \A j \in Places(d, m) : ChildOf(d, m, j) = c => m = n
  BY DEF IsDocument, IsTree
<1>2. Parent(d, c) = n
  BY <1>1 DEF Parent
<1>3. ASSUME NEW j \in Places(d, n), ChildOf(d, n, j) = c PROVE j = i
  <2>1. i \in Nat /\ j \in Nat
    BY Children
  <2>2. c \in Below(d, c)
    BY Children, NodesOf DEF Below
  <2> QED
    BY <1>3, <2>1, <2>2, ChildrenApart, Children, NodesOf
<1>4. Place(d, c) = i
  BY <1>2, <1>3 DEF Place
<1> QED
  BY <1>2, <1>4 DEF Name

\* Every node below c, but c, has its parent there.
LEMMA HasParent ==
  ASSUME NEW d, IsDocument(d), NEW c \in Nodes(d), NEW n \in c + 1 .. End(d)[c]
  PROVE  \E p \in Below(d, c) : p \in Nodes(d) /\ p < n /\ \E i \in Places(d, p) : ChildOf(d, p, i) = n
<1> DEFINE S == {p \in Nodes(d) : c <= p /\ p < n /\ n <= End(d)[p]}
<1>0. c \in Nat /\ n \in Nat /\ End(d)[c] \in Nat /\ c < n /\ n <= End(d)[c]
  BY NodesOf
<1>1. PICK p \in S : \A q \in S : q <= p
  <2>1. S \subseteq Nat /\ c \in S /\ \A q \in S : q <= n
    BY <1>0, NodesOf
  <2> HIDE DEF S
  <2> QED
    BY <2>1, <1>0, GreatestNat
<1>2. p \in Nodes(d) /\ p \in Nat /\ c <= p /\ p < n /\ n <= End(d)[p] /\ End(d)[p] \in Nat
  BY <1>1, NodesOf
<1>3. n \in UNION {Below(d, ChildOf(d, p, i)) : i \in Places(d, p)}
  <2>1. n \in p + 1 .. End(d)[p]
    BY <1>0, <1>2
  <2> QED
    BY <1>2, <2>1 DEF IsDocument, IsTree
<1>4. PICK i \in Places(d, p) : n \in Below(d, ChildOf(d, p, i))
  BY <1>3
<1>5. /\ ChildOf(d, p, i) \in Nodes(d) /\ p < ChildOf(d, p, i)
      /\ ChildOf(d, p, i) \in Nat /\ End(d)[ChildOf(d, p, i)] \in Nat
  BY <1>2, Children, NodesOf
<1>6. ChildOf(d, p, i) <= n /\ n <= End(d)[ChildOf(d, p, i)]
  BY <1>4, <1>5, <1>0 DEF Below
<1>7. ChildOf(d, p, i) = n
  <2> SUFFICES ASSUME ChildOf(d, p, i) < n PROVE FALSE
    BY <1>5, <1>6, <1>0
  <2>1. ChildOf(d, p, i) \in S
    BY <1>0, <1>2, <1>5, <1>6
  <2> QED
    BY <1>1, <1>2, <1>5, <2>1
<1>8. p \in Below(d, c)
  BY <1>0, <1>2 DEF Below
<1> QED
  BY <1>2, <1>7, <1>8

\* The parent of a node below c is below c, unless that is c itself.
LEMMA Parents ==
  ASSUME NEW d, IsDocument(d), NEW c \in Nodes(d), NEW n \in c + 1 .. End(d)[c]
  PROVE  /\ Parent(d, n) \in Below(d, c) /\ Parent(d, n) \in Nodes(d) /\ Parent(d, n) < n
         /\ Name(d, n) \in Keys
<1>1. PICK p \in Below(d, c) : p \in Nodes(d) /\ p < n /\ \E i \in Places(d, p) : ChildOf(d, p, i) = n
  BY HasParent
<1>2. PICK i \in Places(d, p) : ChildOf(d, p, i) = n
  BY <1>1
<1>3. /\ Parent(d, n) = p
      /\ Name(d, n) = IF d.kind[p] = "array" THEN Zero ELSE d.children[p][i].key
  BY <1>1, <1>2, ParentIs
<1>4. d.children[p][i].key \in Keys /\ Zero \in Keys
  BY <1>1, Children, ConfigAssumption DEF ConfigAssumption
<1> QED
  BY <1>1, <1>3, <1>4

\* All but the root are below it.
LEMMA BelowRoot ==
  ASSUME NEW d, IsDocument(d)
  PROVE  /\ 1 + 1 .. End(d)[1] = Nodes(d) \ {1}
         /\ \A n \in Nodes(d) : n # 1 => n \in 1 + 1 .. End(d)[1]
<1>1. End(d)[1] = Len(d.kind)
  BY DEF IsDocument, IsTree
<1> QED
  BY <1>1, NodesOf

\* The path to a node is that to its parent and its name.
LEMMA Paths ==
  ASSUME NEW d, IsDocument(d)
  PROVE  PathTo(d) = [n \in Nodes(d) |-> IF n = 1 THEN << >>
                                         ELSE Append(PathTo(d)[Parent(d, n)], Name(d, n))]
<1> DEFINE Upto(k, f) == f = [n \in 1 .. k |-> IF n = 1 THEN << >>
                                               ELSE Append(f[Parent(d, n)], Name(d, n))]
           S == {k \in 0 .. Len(d.kind) : ~ \E f : Upto(k, f)}
<1>1. S = {}
  <2>1. SUFFICES ASSUME S # {} PROVE FALSE
    OBVIOUS
  <2>2. PICK k \in S : \A j \in S : k <= j
    <3>1. S \subseteq Nat
      BY NodesOf
    <3> HIDE DEF S
    <3> QED
      BY <2>1, <3>1, LeastNat
  <2>3. k # 0
    <3>1. Upto(0, [n \in 1 .. 0 |-> 0])
      OBVIOUS
    <3> HIDE DEF Upto
    <3> QED
      BY <2>2, <3>1
  <2>4. k \in Nat /\ k - 1 \in Nat /\ k - 1 \in 0 .. Len(d.kind) /\ k \in Nodes(d) /\ k - 1 \notin S
    BY <2>2, <2>3, NodesOf
  <2>5. PICK f : Upto(k - 1, f)
    BY <2>4
  <2> DEFINE g == [n \in 1 .. k |->
                     IF n < k THEN f[n]
                     ELSE IF n = 1 THEN << >> ELSE Append(f[Parent(d, n)], Name(d, n))]
  <2>6. ASSUME NEW n \in 1 .. k, n # 1
        PROVE  Parent(d, n) \in 1 .. k /\ Parent(d, n) < k /\ Parent(d, n) < n
    <3>1. n \in Nodes(d) /\ n \in 1 + 1 .. End(d)[1]
      BY <2>4, <2>6, NodesOf, BelowRoot
    <3>2. Parent(d, n) \in Nodes(d) /\ Parent(d, n) < n
      BY <3>1, Parents, NodesOf
    <3> QED
      BY <2>4, <3>1, <3>2, NodesOf
  <2>7. ASSUME NEW n \in 1 .. k
        PROVE  g[n] = IF n = 1 THEN << >> ELSE Append(g[Parent(d, n)], Name(d, n))
    <3>1. n # 1 => g[Parent(d, n)] = f[Parent(d, n)]
      BY <2>6
    <3>2. CASE n < k
      <4>1. n \in 1 .. k - 1 /\ g[n] = f[n]
        BY <2>4, <3>2
      <4>2. f[n] = IF n = 1 THEN << >> ELSE Append(f[Parent(d, n)], Name(d, n))
        BY <2>5, <4>1
      <4> QED
        BY <3>1, <4>1, <4>2
    <3>3. CASE ~(n < k)
      BY <3>1, <3>3
    <3> QED
      BY <3>2, <3>3
  <2>8. Upto(k, g)
    BY <2>7
  <2> HIDE DEF Upto, g
  <2> QED
    BY <2>2, <2>8
<1>2. \E f : Upto(Len(d.kind), f)
  <2>1. Len(d.kind) \notin S /\ Len(d.kind) \in 0 .. Len(d.kind)
    BY <1>1, NodesOf
  <2> HIDE DEF Upto
  <2> QED
    BY <2>1
<1>3. PICK f : f = [n \in Nodes(d) |-> IF n = 1 THEN << >> ELSE Append(f[Parent(d, n)], Name(d, n))]
  BY <1>2, NodesOf
<1> QED
  BY <1>3 DEF PathTo

\* The path to a child.
LEMMA PathToChild ==
  ASSUME NEW d, IsDocument(d), NEW n \in Nodes(d), NEW i \in Places(d, n)
  PROVE  PathTo(d)[ChildOf(d, n, i)] =
           Append(PathTo(d)[n], IF d.kind[n] = "array" THEN Zero ELSE d.children[n][i].key)
<1>1. ChildOf(d, n, i) \in Nodes(d) /\ ChildOf(d, n, i) # 1
  BY Children, NodesOf
<1> QED
  BY <1>1, Paths, ParentIs

LEMMA PathTypes ==
  ASSUME NEW d, IsDocument(d)
  PROVE  /\ PathTo(d)[1] = << >>
         /\ \A n \in Nodes(d) : PathTo(d)[n] \in Seq(Keys)
<1>1. PathTo(d)[1] = << >>
  BY Paths, NodesOf
<1> DEFINE S == {n \in Nodes(d) : PathTo(d)[n] \notin Seq(Keys)}
<1>2. SUFFICES ASSUME S # {} PROVE FALSE
  BY <1>1
<1>3. PICK n \in S : \A m \in S : n <= m
  <2>1. S \subseteq Nat
    BY NodesOf
  <2> HIDE DEF S
  <2> QED
    BY <1>2, <2>1, LeastNat
<1>4. n # 1
  <2>1. << >> \in Seq(Keys)
    OBVIOUS
  <2> QED
    BY <1>1, <1>3, <2>1
<1>5. Parent(d, n) \in Nodes(d) /\ Parent(d, n) < n /\ Name(d, n) \in Keys
  BY <1>3, <1>4, BelowRoot, Parents, NodesOf
<1>6. PathTo(d)[Parent(d, n)] \in Seq(Keys)
  BY <1>3, <1>5, NodesOf
<1>7. PathTo(d)[n] = Append(PathTo(d)[Parent(d, n)], Name(d, n))
  BY <1>3, <1>4, Paths
<1> QED
  BY <1>3, <1>5, <1>6, <1>7

\* The path to a node below c begins with that to c, and is longer unless it is c's.
LEMMA PathsBelow ==
  ASSUME NEW d, IsDocument(d), NEW c \in Nodes(d), NEW n \in Below(d, c)
  PROVE  /\ n = c \/ Len(PathTo(d)[c]) < Len(PathTo(d)[n])
         /\ \A j \in 1 .. Len(PathTo(d)[c]) : PathTo(d)[n][j] = PathTo(d)[c][j]
<1> DEFINE Extends(m) ==
             /\ m = c \/ Len(PathTo(d)[c]) < Len(PathTo(d)[m])
             /\ \A j \in 1 .. Len(PathTo(d)[c]) : PathTo(d)[m][j] = PathTo(d)[c][j]
           S == {m \in Below(d, c) : ~Extends(m)}
<1>1. SUFFICES ASSUME S # {} PROVE FALSE
  OBVIOUS
<1>2. PICK m \in S : \A l \in S : m <= l
  <2>1. S \subseteq Nat
    BY NodesOf DEF Below
  <2> HIDE DEF S
  <2> QED
    BY <1>1, <2>1, LeastNat
<1>3. m # c
  BY <1>2
<1>4. m \in c + 1 .. End(d)[c]
  BY <1>2, <1>3, NodesOf DEF Below
<1>5. /\ Parent(d, m) \in Below(d, c) /\ Parent(d, m) \in Nodes(d) /\ Parent(d, m) < m
      /\ Name(d, m) \in Keys
  BY <1>4, Parents
<1>6. m \in Nodes(d) /\ m # 1 /\ m \in Nat /\ Parent(d, m) \in Nat
  BY <1>4, <1>5, NodesOf
<1>7. PathTo(d)[m] = Append(PathTo(d)[Parent(d, m)], Name(d, m))
  BY <1>6, Paths
<1> DEFINE p == PathTo(d)[Parent(d, m)]
<1>8. p \in Seq(Keys) /\ PathTo(d)[c] \in Seq(Keys)
  BY <1>5, PathTypes
<1>9. /\ Len(PathTo(d)[c]) <= Len(p)
      /\ \A j \in 1 .. Len(PathTo(d)[c]) : p[j] = PathTo(d)[c][j]
  <2>1. Extends(Parent(d, m))
    BY <1>2, <1>5, <1>6
  <2> QED
    BY <1>8, <2>1
<1>10. Extends(m)
  <2> HIDE DEF p
  <2>1. PathTo(d)[m] = Append(p, Name(d, m))
    BY <1>7 DEF p
  <2>2. Len(Append(p, Name(d, m))) = Len(p) + 1
    BY <1>8
  <2>3. \A j \in 1 .. Len(p) : Append(p, Name(d, m))[j] = p[j]
    BY <1>5, <1>8
  <2>4. \A j \in 1 .. Len(PathTo(d)[c]) : j \in 1 .. Len(p)
    BY <1>8, <1>9
  <2> QED
    BY <1>8, <1>9, <2>1, <2>2, <2>3, <2>4
<1> QED
  BY <1>2, <1>10

-----------------------------------------------------------------------------
(* What a visit has still to come to. *)

Frames(d) == [node : Nodes(d), left : SUBSET Nat]

\* A call of visit that begins.
Call(d, n) == [node |-> n, left |-> Places(d, n)]

IsStack(d, s) ==
  /\ s \in Seq(Frames(d))
  /\ \A j \in DOMAIN s : s[j].left \subseteq Places(d, s[j].node)

\* Node n is below a child that a visit has still to come to.
Awaits(d, frame, n) == \E i \in frame.left : n \in Below(d, ChildOf(d, frame.node, i))
Ahead(d, s) == {n \in Nodes(d) : \E j \in DOMAIN s : Awaits(d, s[j], n)}

\* What is stored for n is replaced by what is stored for m, not the other way round.
Before(d, n, m) == n # m /\ (PathTo(d)[n] = PathTo(d)[m] => n < m)

\* Nodes with one path are visited in the order of their numbers.
InOrder(d, s) ==
  /\ \A j, k \in DOMAIN s : j < k =>
       \A n \in Below(d, s[k].node), m \in Nodes(d) : Awaits(d, s[j], m) => Before(d, n, m)
  /\ \A n \in Nodes(d), m \in Ahead(d, s) : n \notin Ahead(d, s) => Before(d, n, m)

\* t is s with child i of the node on top crossed off, the next one in an array.
Crossed(d, s, t, i) ==
  /\ IsStack(d, s) /\ s # << >> /\ i \in s[Len(s)].left
  /\ d.kind[s[Len(s)].node] = "array" => \A j \in s[Len(s)].left : i <= j
  /\ IsStack(d, t) /\ Len(t) = Len(s)
  /\ \A j \in DOMAIN s : j # Len(s) => t[j] = s[j]
  /\ t[Len(s)].node = s[Len(s)].node /\ t[Len(s)].left = s[Len(s)].left \ {i}

LEMMA Siblings ==
  ASSUME NEW d, IsDocument(d), NEW x \in Nodes(d), NEW i \in Places(d, x), NEW j \in Places(d, x),
         i # j, d.kind[x] = "array" => i <= j,
         NEW n \in Below(d, ChildOf(d, x, i)), NEW m \in Below(d, ChildOf(d, x, j))
  PROVE  Before(d, n, m)
<1> DEFINE ci == ChildOf(d, x, i)
           cj == ChildOf(d, x, j)
           ei == IF d.kind[x] = "array" THEN Zero ELSE d.children[x][i].key
           ej == IF d.kind[x] = "array" THEN Zero ELSE d.children[x][j].key
           p == PathTo(d)[x]
<1>1. i \in Nat /\ j \in Nat /\ ci \in Nodes(d) /\ cj \in Nodes(d) /\ ei \in Keys /\ ej \in Keys
  BY Children, ConfigAssumption DEF ConfigAssumption
<1>2. n \in Nat /\ m \in Nat
  BY <1>1, NodesOf DEF Below
<1>3. (i < j => n < m) /\ (j < i => m < n)
  BY ChildrenApart
<1>4. ASSUME PathTo(d)[n] = PathTo(d)[m] PROVE ei = ej
  <2>1. PathTo(d)[ci] = Append(p, ei) /\ PathTo(d)[cj] = Append(p, ej) /\ p \in Seq(Keys)
    BY PathToChild, PathTypes
  <2> HIDE DEF p, ei, ej
  <2>2. /\ Len(p) + 1 \in 1 .. Len(Append(p, ei)) /\ Append(p, ei)[Len(p) + 1] = ei
        /\ Len(p) + 1 \in 1 .. Len(Append(p, ej)) /\ Append(p, ej)[Len(p) + 1] = ej
    BY <1>1, <2>1
  <2>3. PathTo(d)[n][Len(p) + 1] = ei /\ PathTo(d)[m][Len(p) + 1] = ej
    BY <1>1, <2>1, <2>2, PathsBelow
  <2> QED
    BY <1>4, <2>3
<1>5. ei = ej => d.kind[x] = "array"
  <2>1. d.kind[x] = "table" \/ d.kind[x] = "array" \/ d.kind[x] = "value"
    <3>1. d.kind \in Seq(Kinds) /\ x \in DOMAIN d.kind
      BY DEF IsDocument, Nodes
    <3>2. d.kind[x] \in Kinds
      BY <3>1, ElementOf
    <3> QED
      BY <3>2 DEF Kinds
  <2>2. CASE d.kind[x] = "value"
    <3>1. d.children[x] = << >>
      BY <2>2 DEF IsDocument
    <3> QED
      BY <3>1 DEF Places
  <2>3. CASE d.kind[x] = "table"
    <3>1. \A k, l \in Places(d, x) : k < l => d.children[x][k].key # d.children[x][l].key
      BY <2>3 DEF IsDocument
    <3> QED
      BY <1>1, <2>3, <3>1
  <2> QED
    BY <2>1, <2>2, <2>3
<1>6. n # m
  BY <1>1, <1>2, <1>3
<1>7. PathTo(d)[n] = PathTo(d)[m] => n < m
  <2> HIDE DEF ei, ej
  <2> QED
    BY <1>1, <1>3, <1>4, <1>5
<1> QED
  BY <1>6, <1>7 DEF Before

\* What crossing off a child does to the nodes ahead.
LEMMA CrossOff ==
  ASSUME NEW d, IsDocument(d), NEW s, NEW t, NEW i, Crossed(d, s, t, i), InOrder(d, s)
  PROVE  LET c == ChildOf(d, s[Len(s)].node, i) IN
         /\ c \in Nodes(d) /\ Below(d, c) \subseteq Ahead(d, s)
         /\ Ahead(d, t) = Ahead(d, s) \ Below(d, c)
         /\ \A n \in Below(d, c), m \in Ahead(d, t) : Before(d, n, m)
         /\ InOrder(d, t)
<1> DEFINE x == s[Len(s)].node
           c == ChildOf(d, x, i)
<1>1. /\ Len(s) \in Nat \ {0} /\ DOMAIN s = 1 .. Len(s) /\ DOMAIN t = DOMAIN s
      /\ Len(s) \in DOMAIN s
  BY DEF Crossed, IsStack
<1>2. /\ \A j \in DOMAIN s : s[j] \in Frames(d) /\ s[j].left \subseteq Places(d, s[j].node)
      /\ x \in Nodes(d) /\ s[Len(s)].left \subseteq Places(d, x)
  <2>1. ASSUME NEW j \in DOMAIN s PROVE s[j] \in Frames(d)
    BY ElementOf DEF Crossed, IsStack
  <2> QED
    BY <1>1, <2>1 DEF Crossed, IsStack, Frames
<1>3. i \in Places(d, x) /\ i \in s[Len(s)].left
  BY <1>2 DEF Crossed
<1>4. c \in Nodes(d) /\ Below(d, c) \subseteq Nodes(d) /\ Below(d, c) \subseteq Below(d, x)
  <2>1. c \in Nodes(d) /\ Below(d, c) \subseteq Below(d, x)
    BY <1>2, <1>3, Children
  <2>2. Below(d, c) \subseteq Nodes(d)
    BY <2>1, NodesOf DEF Below
  <2> QED
    BY <2>1, <2>2
<1>5. Below(d, c) \subseteq Ahead(d, s)
  BY <1>1, <1>3, <1>4 DEF Ahead, Awaits
<1>6. ASSUME NEW j \in DOMAIN s, NEW n, Awaits(d, t[j], n) PROVE Awaits(d, s[j], n)
  BY <1>6, <1>1 DEF Crossed, Awaits
<1>7. Ahead(d, t) \subseteq Ahead(d, s)
  BY <1>1, <1>6 DEF Ahead
<1>8. ASSUME NEW n \in Below(d, c), NEW j \in DOMAIN s, NEW m \in Nodes(d), Awaits(d, t[j], m)
      PROVE  Before(d, n, m)
  <2>1. CASE j < Len(s)
    <3>1. Awaits(d, s[j], m) /\ n \in Below(d, s[Len(s)].node)
      BY <1>4, <1>6, <1>8
    <3> QED
      BY <1>1, <2>1, <3>1 DEF InOrder
  <2>2. CASE j = Len(s)
    <3>1. PICK l \in s[Len(s)].left \ {i} : m \in Below(d, ChildOf(d, x, l))
      BY <1>8, <2>2 DEF Awaits, Crossed
    <3>2. l \in Places(d, x) /\ i # l /\ (d.kind[x] = "array" => i <= l)
      BY <1>2, <3>1 DEF Crossed
    <3> HIDE DEF x
    <3> QED
      BY <1>2, <1>3, <3>1, <3>2, Siblings
  <2> QED
    BY <1>1, <2>1, <2>2
<1>9. \A n \in Below(d, c), m \in Ahead(d, t) : Before(d, n, m)
  BY <1>1, <1>8 DEF Ahead
<1>10. ASSUME NEW n \in Ahead(d, s), n \notin Below(d, c) PROVE n \in Ahead(d, t)
  <2>1. PICK j \in DOMAIN s : Awaits(d, s[j], n)
    BY DEF Ahead
  <2>2. Awaits(d, t[j], n)
    BY <1>10, <2>1 DEF Awaits, Crossed
  <2> QED
    BY <1>1, <2>2 DEF Ahead
<1>11. Ahead(d, t) = Ahead(d, s) \ Below(d, c)
  <2>1. \A n \in Below(d, c) : n \notin Ahead(d, t)
    BY <1>9 DEF Before
  <2> QED
    BY <1>7, <1>10, <2>1
<1>12. InOrder(d, t)
  <2>1. ASSUME NEW j \in DOMAIN t, NEW k \in DOMAIN t, j < k, NEW n \in Below(d, t[k].node),
               NEW m \in Nodes(d), Awaits(d, t[j], m)
        PROVE  Before(d, n, m)
    <3>1. t[k].node = s[k].node
      BY <1>1 DEF Crossed
    <3> QED
      BY <1>1, <1>6, <2>1, <3>1 DEF InOrder
  <2>2. ASSUME NEW n \in Nodes(d), NEW m \in Ahead(d, t), n \notin Ahead(d, t) PROVE Before(d, n, m)
    <3>1. CASE n \in Below(d, c)
      BY <1>9, <3>1
    <3>2. CASE n \notin Below(d, c)
      BY <1>7, <1>10, <2>2, <3>2 DEF InOrder
    <3> QED
      BY <3>1, <3>2
  <2> QED
    BY <2>1, <2>2 DEF InOrder
<1> QED
  BY <1>4, <1>5, <1>9, <1>11, <1>12

\* What entering a container does to them: its children are still ahead.
LEMMA OpenLevel ==
  ASSUME NEW d, IsDocument(d), NEW s, NEW t, NEW i, Crossed(d, s, t, i), InOrder(d, s)
  PROVE  LET c == ChildOf(d, s[Len(s)].node, i)
             u == Append(t, Call(d, c))
         IN  Ahead(d, u) = Ahead(d, s) \ {c} /\ InOrder(d, u)
<1> DEFINE x == s[Len(s)].node
           c == ChildOf(d, x, i)
           f == Call(d, c)
           u == Append(t, f)
<1>1. /\ c \in Nodes(d) /\ Below(d, c) \subseteq Ahead(d, s)
      /\ Ahead(d, t) = Ahead(d, s) \ Below(d, c)
      /\ \A n \in Below(d, c), m \in Ahead(d, t) : Before(d, n, m)
      /\ InOrder(d, t)
  BY CrossOff
<1>2. /\ t \in Seq(Frames(d)) /\ Len(t) = Len(s) /\ Len(s) \in Nat \ {0}
      /\ DOMAIN t = 1 .. Len(s) /\ DOMAIN u = 1 .. Len(s) + 1
      /\ u[Len(s) + 1] = f /\ \A j \in DOMAIN t : u[j] = t[j]
  BY DEF Crossed, IsStack
<1> USE DEF Call
<1>3. x \in Nodes(d) /\ i \in Places(d, x) /\ Below(d, c) \subseteq Below(d, x) /\ Below(d, c) \subseteq Nodes(d)
  <2>1. /\ s \in Seq(Frames(d)) /\ Len(s) \in DOMAIN s
        /\ s[Len(s)].left \subseteq Places(d, x) /\ i \in s[Len(s)].left
    <3>1. Len(s) \in DOMAIN s
      BY <1>2 DEF Crossed, IsStack
    <3> QED
      BY <3>1 DEF Crossed, IsStack
  <2>2. x \in Nodes(d)
    <3>1. s[Len(s)] \in Frames(d)
      BY <2>1, ElementOf
    <3> QED
      BY <3>1 DEF Frames
  <2>3. Below(d, c) \subseteq Nodes(d)
    BY <1>1, NodesOf DEF Below
  <2> QED
    BY <2>1, <2>2, <2>3, Children
<1>4. \A n \in Nodes(d) : Awaits(d, f, n) <=> n \in Below(d, c) /\ n # c
  <2>1. c + 1 .. End(d)[c] = UNION {Below(d, ChildOf(d, c, j)) : j \in Places(d, c)}
    BY <1>1 DEF IsDocument, IsTree
  <2>2. \A n \in Nodes(d) : n \in c + 1 .. End(d)[c] <=> n \in Below(d, c) /\ n # c
    BY <1>1, NodesOf DEF Below
  <2> HIDE DEF c
  <2> QED
    BY <2>1, <2>2 DEF Awaits
<1>5. Ahead(d, u) = Ahead(d, s) \ {c}
  <2>1. ASSUME NEW n \in Nodes(d)
        PROVE  n \in Ahead(d, u) <=> n \in Ahead(d, t) \/ (n \in Below(d, c) /\ n # c)
    <3>1. n \in Ahead(d, u) <=> \E j \in 1 .. Len(s) + 1 : Awaits(d, u[j], n)
      BY <1>2 DEF Ahead
    <3>2. n \in Ahead(d, t) <=> \E j \in 1 .. Len(s) : Awaits(d, u[j], n)
      BY <1>2 DEF Ahead
    <3> HIDE DEF f, c
    <3>3. Awaits(d, u[Len(s) + 1], n) <=> n \in Below(d, c) /\ n # c
      BY <1>2, <1>4
    <3>4. \A j \in 1 .. Len(s) + 1 : j \in 1 .. Len(s) \/ j = Len(s) + 1
      BY <1>2
    <3>5. 1 .. Len(s) \subseteq 1 .. Len(s) + 1 /\ Len(s) + 1 \in 1 .. Len(s) + 1
      BY <1>2
    <3> QED
      BY <3>1, <3>2, <3>3, <3>4, <3>5
  <2>2. c \in Below(d, c)
    BY <1>1, NodesOf DEF Below
  <2>3. Ahead(d, u) \subseteq Nodes(d) /\ Ahead(d, s) \subseteq Nodes(d)
    BY DEF Ahead
  <2> HIDE DEF c
  <2> QED
    BY <1>1, <2>1, <2>2, <2>3
<1>6. ASSUME NEW j \in DOMAIN u, NEW k \in DOMAIN u, j < k, NEW n \in Below(d, u[k].node),
             NEW m \in Nodes(d), Awaits(d, u[j], m)
      PROVE  Before(d, n, m)
  <2>1. j \in DOMAIN t /\ Awaits(d, t[j], m)
    BY <1>2, <1>6
  <2>2. CASE k \in DOMAIN t
    BY <1>1, <1>2, <1>6, <2>1, <2>2 DEF InOrder
  <2>3. CASE k \notin DOMAIN t
    <3>1. n \in Below(d, c)
      BY <1>2, <1>6, <2>3
    <3>2. m \in Ahead(d, t)
      BY <2>1 DEF Ahead
    <3> QED
      BY <1>1, <3>1, <3>2
  <2> QED
    BY <2>2, <2>3
<1>7. ASSUME NEW n \in Nodes(d), NEW m \in Ahead(d, u), n \notin Ahead(d, u) PROVE Before(d, n, m)
  <2>1. CASE n # c
    BY <1>5, <1>7, <2>1 DEF InOrder
  <2>2. CASE n = c /\ m \in Below(d, c)
    <3>1. m # c
      BY <1>5
    <3>2. Len(PathTo(d)[c]) < Len(PathTo(d)[m])
      BY <1>1, <2>2, <3>1, PathsBelow
    <3>3. Len(PathTo(d)[c]) \in Nat
      BY <1>1, PathTypes
    <3>4. PathTo(d)[c] # PathTo(d)[m]
      BY <3>2, <3>3
    <3> QED
      BY <2>2, <3>1, <3>4 DEF Before
  <2>3. CASE n = c /\ m \notin Below(d, c)
    <3>1. c \in Below(d, c)
      BY <1>1, NodesOf DEF Below
    <3> QED
      BY <1>1, <1>5, <2>3, <3>1
  <2> QED
    BY <2>1, <2>2, <2>3
<1> QED
  BY <1>5, <1>6, <1>7 DEF InOrder

\* Leaving a container that has no children left changes nothing of them.
LEMMA CloseLevel ==
  ASSUME NEW d, NEW s, IsStack(d, s), s # << >>, s[Len(s)].left = {}, InOrder(d, s)
  PROVE  Ahead(d, Front(s)) = Ahead(d, s) /\ InOrder(d, Front(s))
<1>1. /\ Len(s) \in Nat \ {0} /\ DOMAIN s = 1 .. Len(s) /\ DOMAIN Front(s) = 1 .. Len(s) - 1
      /\ \A j \in 1 .. Len(s) - 1 : Front(s)[j] = s[j]
  BY DEF IsStack, Front
<1>2. \A n : ~Awaits(d, s[Len(s)], n)
  BY DEF Awaits
<1>3. ASSUME NEW n \in Nodes(d)
      PROVE  (\E j \in DOMAIN Front(s) : Awaits(d, Front(s)[j], n)) <=> \E j \in DOMAIN s : Awaits(d, s[j], n)
  <2>1. \A j \in DOMAIN s : j \in 1 .. Len(s) - 1 \/ j = Len(s)
    BY <1>1
  <2>2. 1 .. Len(s) - 1 \subseteq DOMAIN s
    BY <1>1
  <2>3. ASSUME NEW j \in 1 .. Len(s) - 1 PROVE Front(s)[j] = s[j]
    BY <1>1
  <2> QED
    BY <1>1, <1>2, <2>1, <2>2, <2>3
<1>4. Ahead(d, Front(s)) = Ahead(d, s)
  BY <1>3 DEF Ahead
<1>5. \A j \in DOMAIN Front(s) : j \in DOMAIN s /\ Front(s)[j] = s[j]
  BY <1>1
<1> QED
  BY <1>4, <1>5 DEF InOrder

\* Nothing but the root has been visited when the visit of it begins.
LEMMA BeginLevels ==
  ASSUME NEW d, IsDocument(d), NEW s, s = << Call(d, 1) >>
  PROVE  Ahead(d, s) = Nodes(d) \ {1} /\ InOrder(d, s)
<1>1. DOMAIN s = {1} /\ s[1] = [node |-> 1, left |-> Places(d, 1)]
  BY DEF Call
<1>2. 1 \in Nodes(d)
  BY NodesOf
<1>3. 1 + 1 .. End(d)[1] = UNION {Below(d, ChildOf(d, 1, j)) : j \in Places(d, 1)}
  BY <1>2 DEF IsDocument, IsTree
<1>4. Ahead(d, s) = Nodes(d) \ {1}
  BY <1>1, <1>3, BelowRoot DEF Ahead, Awaits
<1>5. ASSUME NEW n \in Nodes(d), NEW m \in Ahead(d, s), n \notin Ahead(d, s) PROVE Before(d, n, m)
  <2>1. n = 1 /\ m # 1 /\ m \in Nodes(d)
    BY <1>4, <1>5
  <2>2. m \in Below(d, 1)
    BY <2>1, BelowRoot, NodesOf DEF Below
  <2>3. Len(PathTo(d)[1]) < Len(PathTo(d)[m]) /\ Len(PathTo(d)[1]) \in Nat
    <3>1. Len(PathTo(d)[1]) < Len(PathTo(d)[m])
      BY <1>2, <2>1, <2>2, PathsBelow
    <3>2. PathTo(d)[1] \in Seq(Keys)
      BY <1>2, PathTypes
    <3> QED
      BY <3>1, <3>2
  <2>4. PathTo(d)[1] # PathTo(d)[m]
    BY <2>3
  <2> QED
    BY <2>1, <2>4 DEF Before
<1>6. \A j, k \in DOMAIN s : ~(j < k)
  BY <1>1
<1> QED
  BY <1>4, <1>5, <1>6 DEF InOrder

-----------------------------------------------------------------------------
(* The fixed arrays. *)

\* Each active visit is of a node of the document.
StackOK == IsStack(doc, stack)

\* The number of segments in use follows the depth of the recursion.
Depth ==
  /\ Len(stack) <= MAX_SEGMENTS
  /\ pc = "visit" /\ stack # << >> => m_index = Len(stack) - 1
  /\ pc = "visit" \/ stack = << >>
  /\ pc = "visit" => doc \in Documents

IInv == TypeOK /\ StackOK /\ Depth /\ KeysFitLog

-----------------------------------------------------------------------------
\* Nothing is stored and nothing is visited at first.
LEMMA InitIInv == Init => IInv
<1> SUFFICES ASSUME Init PROVE IInv
  OBVIOUS
<1> USE ConfigAssumption DEF ConfigAssumption, Init
<1>1. TypeOK
  BY DEF TypeOK
<1>2. StackOK /\ Depth
  BY DEF StackOK, IsStack, Frames, Nodes, Places, Depth
<1>3. KeysFitLog
  BY DEF KeysFitLog
<1> QED
  BY <1>1, <1>2, <1>3 DEF IInv

\* Whatever is stored has a key that fits the buffer of LogConfig.
LEMMA StoreFits ==
  ASSUME KeysFitLog, NEW path, NEW value, Store(path, value)
  PROVE  KeysFitLog'
<1>1. CASE Len(path) < MAX_SEGMENTS /\ Fits(path)
  <2>2. DOMAIN s_options' = DOMAIN s_options \cup {path}
    BY <1>1 DEF Store, Over, Option
  <2>3. Width(path) + 1 <= LOG_LEN
    BY <1>1, ConfigAssumption DEF Fits, ConfigAssumption
  <2> QED
    BY <2>2, <2>3 DEF KeysFitLog
<1>2. CASE ~(Len(path) < MAX_SEGMENTS /\ Fits(path))
  BY <1>2 DEF Store, KeysFitLog
<1> QED
  BY <1>1, <1>2

\* Its indices are natural numbers.
LEMMA IndicesOf == ASSUME NEW S, NEW q \in Seq(S) PROVE DOMAIN q \in SUBSET Nat
  OBVIOUS

\* One more element gives a sequence over the set.
LEMMA AppendOf == ASSUME NEW S, NEW q \in Seq(S), NEW e \in S PROVE Append(q, e) \in Seq(S)
  OBVIOUS

\* It stands behind the others.
LEMMA AppendIs ==
  ASSUME NEW S, NEW q \in Seq(S), NEW e \in S
  PROVE  Append(q, e) = [l \in 1 .. Len(q) + 1 |-> IF l = Len(q) + 1 THEN e ELSE q[l]]
<1> DEFINE a == Append(q, e)
<1>1. Len(q) \in Nat /\ a \in Seq(S) /\ Len(a) = Len(q) + 1
  OBVIOUS
<1>2. \A l \in 1 .. Len(q) + 1 : a[l] = IF l = Len(q) + 1 THEN e ELSE q[l]
  OBVIOUS
<1> HIDE DEF a
<1>3. a = [l \in 1 .. Len(a) |-> a[l]]
  BY <1>1
<1>4. a = [l \in 1 .. Len(q) + 1 |-> IF l = Len(q) + 1 THEN e ELSE q[l]]
  BY <1>1, <1>2, <1>3
<1> QED
  BY <1>4 DEF a

\* A sequence is as long as it has indices.
LEMMA LengthOf ==
  ASSUME NEW S, NEW q \in Seq(S), NEW k \in Nat, DOMAIN q = 1 .. k
  PROVE  Len(q) = k
  OBVIOUS

\* Without its last element it is a sequence over the set with the others in place.
LEMMA FrontOf ==
  ASSUME NEW S, NEW q \in Seq(S), q # << >>
  PROVE  /\ Front(q) \in Seq(S) /\ DOMAIN Front(q) \subseteq DOMAIN q
         /\ Len(Front(q)) = Len(q) - 1
         /\ \A j \in DOMAIN Front(q) : Front(q)[j] = q[j]
<1>1. /\ Front(q) \in Seq(S) /\ DOMAIN Front(q) \subseteq DOMAIN q
      /\ \A j \in DOMAIN Front(q) : Front(q)[j] = q[j]
  BY DEF Front
<1>2. Len(q) - 1 \in Nat /\ DOMAIN Front(q) = 1 .. Len(q) - 1
  BY DEF Front
<1>3. Len(Front(q)) = Len(q) - 1
  BY <1>1, <1>2, LengthOf
<1> QED
  BY <1>1, <1>3

\* In a visit the node on top has children of its own, and each names a segment.
LEMMA TopOK ==
  ASSUME IInv, pc = "visit", stack # << >>
  PROVE  /\ IsDocument(doc)
         /\ Len(stack) \in Nat \ {0} /\ Len(stack) \in DOMAIN stack
         /\ m_index = Len(stack) - 1 /\ m_index \in 0 .. MAX_SEGMENTS - 1
         /\ Top \in [node : DOMAIN doc.kind, left : SUBSET Nat]
         /\ Top.left \subseteq DOMAIN doc.children[Top.node]
         /\ \A i \in Top.left : /\ Child(i) \in [key : Keys, node : DOMAIN doc.kind]
                                /\ Segment(i) \in Keys
<1>1. IsDocument(doc)
  BY ConfigAssumption DEF ConfigAssumption, IInv, Depth
<1>2. Len(stack) \in Nat \ {0} /\ Len(stack) \in DOMAIN stack
  BY DEF IInv, StackOK, IsStack, Frames, Nodes, Places
<1>3. m_index = Len(stack) - 1 /\ m_index \in 0 .. MAX_SEGMENTS - 1
  BY DEF IInv, Depth, TypeOK
<1>4. /\ Top \in [node : DOMAIN doc.kind, left : SUBSET Nat]
      /\ Top.left \subseteq DOMAIN doc.children[Top.node]
  <2>1. /\ stack \in Seq([node : DOMAIN doc.kind, left : SUBSET Nat])
        /\ \A j \in DOMAIN stack : stack[j].left \subseteq DOMAIN doc.children[stack[j].node]
    BY DEF IInv, StackOK, IsStack, Frames, Nodes, Places
  <2>2. stack[Len(stack)] \in [node : DOMAIN doc.kind, left : SUBSET Nat]
    BY <1>2, <2>1, ElementOf
  <2> QED
    BY <1>2, <2>1, <2>2 DEF Top
<1>5. ASSUME NEW i \in Top.left PROVE Child(i) \in [key : Keys, node : DOMAIN doc.kind]
  <2>1. Top.node \in DOMAIN doc.kind /\ i \in DOMAIN doc.children[Top.node]
    BY <1>4
  <2>2. doc.children[Top.node] \in Seq([key : Keys, node : DOMAIN doc.kind])
    BY <1>1, <2>1 DEF IsDocument, Nodes
  <2>3. doc.children[Top.node][i] \in [key : Keys, node : DOMAIN doc.kind]
    BY <2>1, <2>2, ElementOf
  <2> QED
    BY <2>3 DEF Child
<1>6. ASSUME NEW i \in Top.left PROVE Segment(i) \in Keys
  BY <1>5, ConfigAssumption DEF Segment, ConfigAssumption
<1> QED
  BY <1>1, <1>2, <1>3, <1>4, <1>5, <1>6

\* Crossing off a child keeps the stack.
LEMMA CrossedOffOK ==
  ASSUME IInv, pc = "visit", stack # << >>, NEW i
  PROVE  /\ CrossedOff(i) \in Seq([node : DOMAIN doc.kind, left : SUBSET Nat])
         /\ Len(CrossedOff(i)) = Len(stack)
         /\ \A j \in DOMAIN CrossedOff(i) :
              CrossedOff(i)[j].left \subseteq DOMAIN doc.children[CrossedOff(i)[j].node]
<1>1. /\ Len(stack) \in DOMAIN stack
      /\ Top \in [node : DOMAIN doc.kind, left : SUBSET Nat]
  BY TopOK
<1>2. stack \in Seq([node : DOMAIN doc.kind, left : SUBSET Nat])
  BY DEF IInv, StackOK, IsStack, Frames, Nodes, Places
<1>3. DEFINE frame == [Top EXCEPT !.left = @ \ {i}]
<1>4. frame \in [node : DOMAIN doc.kind, left : SUBSET Nat]
      /\ frame.node = Top.node /\ frame.left \subseteq Top.left
  BY <1>1
<1>5. CrossedOff(i) = [stack EXCEPT ![Len(stack)] = frame]
  BY <1>1 DEF CrossedOff, Top
<1>6. Top.left \subseteq DOMAIN doc.children[Top.node]
  BY TopOK
<1> HIDE DEF frame
<1>7. /\ CrossedOff(i) \in Seq([node : DOMAIN doc.kind, left : SUBSET Nat])
      /\ Len(CrossedOff(i)) = Len(stack)
  BY <1>1, <1>2, <1>4, <1>5
<1>8. ASSUME NEW j \in DOMAIN CrossedOff(i)
      PROVE  CrossedOff(i)[j].left \subseteq DOMAIN doc.children[CrossedOff(i)[j].node]
  <2>1. j \in DOMAIN stack
    BY <1>2, <1>7
  <2>2. CASE j = Len(stack)
    BY <2>1, <2>2, <1>2, <1>4, <1>5, <1>6
  <2>3. CASE j # Len(stack)
    BY <2>1, <2>3, <1>2, <1>5 DEF IInv, StackOK, IsStack, Frames, Nodes, Places
  <2> QED
    BY <2>2, <2>3
<1> QED
  BY <1>7, <1>8

\* Every step keeps the inductive invariant.
LEMMA NextIInv == ASSUME IInv, [Next]_vars PROVE IInv'
<1> USE ConfigAssumption DEF ConfigAssumption, parser, Nodes
<1>1. ASSUME SetDefault PROVE IInv'
  <2>1. TypeOK'
    BY <1>1 DEF IInv, TypeOK, SetDefault
  <2>2. StackOK' /\ Depth'
    BY <1>1 DEF IInv, StackOK, IsStack, Frames, Nodes, Places, Depth, SetDefault
  <2>3. KeysFitLog'
    BY <1>1, StoreFits DEF IInv, SetDefault
  <2> QED
    BY <2>1, <2>2, <2>3 DEF IInv
<1>2. ASSUME DefaultsDone \/ LoadFails \/ LoadEnds \/ LogConfig \/ Read PROVE IInv'
  <2>1. TypeOK'
    BY <1>2 DEF IInv, TypeOK, DefaultsDone, LoadFails, LoadEnds, LogConfig, Read
  <2>2. StackOK'
    BY <1>2 DEF IInv, StackOK, IsStack, Frames, Nodes, Places, DefaultsDone, LoadFails, LoadEnds, LogConfig, Read
  <2>3. Depth'
    BY <1>2 DEF IInv, Depth, DefaultsDone, LoadFails, LoadEnds, LogConfig, Read
  <2>4. KeysFitLog'
    BY <1>2 DEF IInv, KeysFitLog, DefaultsDone, LoadFails, LoadEnds, LogConfig, Read
  <2> QED
    BY <2>1, <2>2, <2>3, <2>4 DEF IInv
<1>3. ASSUME Load PROVE IInv'
  <2>1. TypeOK'
    BY <1>3 DEF IInv, TypeOK, Load
  <2>2. IsDocument(doc')
    BY <1>3 DEF Load
  <2>3. /\ 1 \in DOMAIN doc'.kind
        /\ DOMAIN doc'.children[1] \in SUBSET Nat
    BY <2>2 DEF IsDocument
  <2>4. stack' = << [node |-> 1, left |-> DOMAIN doc'.children[1]] >>
    BY <1>3 DEF Load, Frame
  <2>5. StackOK'
    BY <2>3, <2>4 DEF StackOK, IsStack, Frames, Nodes, Places
  <2>6. Depth'
    BY <1>3, <2>4 DEF Load, Depth
  <2>7. KeysFitLog'
    BY <1>3 DEF IInv, KeysFitLog, Load
  <2> QED
    BY <2>1, <2>5, <2>6, <2>7 DEF IInv
<1>4. ASSUME NEW i, VisitValue(i) \/ SkipContainer(i) PROVE IInv'
  <2>1. /\ pc = "visit" /\ stack # << >> /\ i \in Top.left
        /\ m_path' = [m_path EXCEPT ![m_index] = Segment(i)]
        /\ stack' = CrossedOff(i)
        /\ UNCHANGED <<pc, set, doc, m_index>>
    BY <1>4 DEF VisitValue, SkipContainer, Descend, Chosen
  <2>2. Segment(i) \in Keys
    BY <2>1, TopOK
  <2>3. TypeOK'
    BY <2>1, <2>2 DEF IInv, TypeOK
  <2>4. StackOK'
    BY <2>1, CrossedOffOK DEF StackOK, IsStack, Frames, Nodes, Places
  <2>5. Depth'
    BY <2>1, CrossedOffOK, TopOK DEF IInv, Depth
  <2>6. KeysFitLog'
    BY <1>4, StoreFits DEF IInv, KeysFitLog, VisitValue, SkipContainer
  <2> QED
    BY <2>3, <2>4, <2>5, <2>6 DEF IInv
<1>5. ASSUME NEW i, EnterContainer(i) PROVE IInv'
  <2>1. /\ pc = "visit" /\ stack # << >> /\ i \in Top.left
        /\ m_path' = [m_path EXCEPT ![m_index] = Segment(i)]
        /\ m_index' = m_index + 1 /\ m_index + 1 < MAX_SEGMENTS
        /\ stack' = Append(CrossedOff(i), Frame(Child(i).node))
        /\ UNCHANGED <<s_options, pc, set, doc>>
    BY <1>5 DEF EnterContainer, Descend, Chosen
  <2>2. Segment(i) \in Keys /\ Child(i).node \in DOMAIN doc.kind /\ IsDocument(doc)
    BY <2>1, TopOK
  <2>3. TypeOK'
    BY <2>1, <2>2 DEF IInv, TypeOK
  <2>4. Frame(Child(i).node) \in [node : DOMAIN doc.kind, left : SUBSET Nat]
    <3>1. doc.children[Child(i).node] \in Seq([key : Keys, node : DOMAIN doc.kind])
      BY <2>2 DEF IsDocument
    <3>2. DOMAIN doc.children[Child(i).node] \in SUBSET Nat
      BY <3>1, IndicesOf
    <3> QED
      BY <2>2, <3>2 DEF Frame
  <2>5. StackOK'
    <3>1. stack' \in Seq([node : DOMAIN doc.kind, left : SUBSET Nat])
      <4>1. CrossedOff(i) \in Seq([node : DOMAIN doc.kind, left : SUBSET Nat])
        BY <2>1, CrossedOffOK
      <4> QED
        BY <2>1, <2>4, <4>1, AppendOf
    <3>2. ASSUME NEW j \in DOMAIN stack'
          PROVE  stack'[j].left \subseteq DOMAIN doc.children[stack'[j].node]
      <4>1. CASE j \in DOMAIN CrossedOff(i)
        BY <4>1, <2>1, CrossedOffOK
      <4>2. CASE j \notin DOMAIN CrossedOff(i)
        BY <4>2, <2>1, <3>2, CrossedOffOK DEF Frame
      <4> QED
        BY <4>1, <4>2
    <3> QED
      BY <2>1, <3>1, <3>2 DEF StackOK, IsStack, Frames, Nodes, Places
  <2>6. Depth'
    BY <2>1, CrossedOffOK, TopOK DEF IInv, Depth
  <2>7. KeysFitLog'
    BY <2>1 DEF IInv, KeysFitLog
  <2> QED
    BY <2>3, <2>5, <2>6, <2>7 DEF IInv
<1>6. ASSUME Leave PROVE IInv'
  <2>1. /\ pc = "visit" /\ stack # << >>
        /\ stack' = Front(stack)
        /\ m_index' = IF Len(stack) = 1 THEN m_index ELSE m_index - 1
        /\ UNCHANGED <<s_options, pc, set, doc, m_path>>
    BY <1>6 DEF Leave
  <2>2. /\ Len(stack) \in Nat \ {0}
        /\ m_index = Len(stack) - 1 /\ m_index \in 0 .. MAX_SEGMENTS - 1
    BY <2>1, TopOK
  <2>3. TypeOK'
    <3>1. m_index' \in 0 .. MAX_SEGMENTS - 1
      <4>1. CASE Len(stack) = 1
        BY <4>1, <2>1, <2>2
      <4>2. CASE Len(stack) # 1
        BY <4>2, <2>1, <2>2
      <4> QED
        BY <4>1, <4>2
    <3> QED
      BY <2>1, <3>1 DEF IInv, TypeOK
  <2>4. StackOK'
    <3>1. /\ stack \in Seq([node : DOMAIN doc.kind, left : SUBSET Nat])
          /\ \A j \in DOMAIN stack : stack[j].left \subseteq DOMAIN doc.children[stack[j].node]
      BY DEF IInv, StackOK, IsStack, Frames, Nodes, Places
    <3>2. /\ Front(stack) \in Seq([node : DOMAIN doc.kind, left : SUBSET Nat])
          /\ DOMAIN Front(stack) \subseteq DOMAIN stack
          /\ \A j \in DOMAIN Front(stack) : Front(stack)[j] = stack[j]
      BY <2>1, <3>1, FrontOf
    <3> QED
      BY <2>1, <3>1, <3>2 DEF StackOK, IsStack, Frames, Nodes, Places
  <2>5. Len(stack') = Len(stack) - 1
    <3>1. stack \in Seq(Frames(doc))
      BY DEF IInv, StackOK, IsStack
    <3> QED
      BY <2>1, <3>1, FrontOf
  <2>6. Depth'
    BY <2>1, <2>2, <2>5 DEF IInv, Depth
  <2>7. KeysFitLog'
    BY <2>1 DEF IInv, KeysFitLog
  <2> QED
    BY <2>3, <2>4, <2>6, <2>7 DEF IInv
<1>7. CASE UNCHANGED vars
  BY <1>7 DEF IInv, TypeOK, StackOK, IsStack, Frames, Nodes, Places, Depth, KeysFitLog, vars
<1> QED
  BY <1>1, <1>2, <1>3, <1>4, <1>5, <1>6, <1>7 DEF Next, Start, Visit

\* The inductive invariant always holds.
THEOREM Invariance == Spec => []IInv
<1>1. ASSUME IInv, [Next]_vars PROVE IInv'
  BY <1>1, NextIInv
<1> QED
  BY InitIInv, <1>1, PTL DEF Spec

-----------------------------------------------------------------------------
\* However deep and wide the document, m_index never leaves m_path and m_path
\* holds keys only.
THEOREM Typing == Spec => []TypeOK
<1>1. IInv => TypeOK
  BY DEF IInv
<1> QED
  BY <1>1, Invariance, PTL

\* Every key that is ever stored fits the buffer of LogConfig, for any limits
\* of which the second is no less than the first.
THEOREM KeysFit == Spec => []KeysFitLog
<1>1. IInv => KeysFitLog
  BY DEF IInv
<1> QED
  BY <1>1, Invariance, PTL

-----------------------------------------------------------------------------
(* The options are as written. *)

\* m_path names the node of each active visit.
Named ==
  \A j \in DOMAIN stack : PathTo(doc)[stack[j].node] = [i \in 1 .. j - 1 |-> m_path[i - 1]]

\* What is not ahead is stored over the defaults, by its last value.
Storing == s_options = Over(Stored(doc, Kept(doc) \ Ahead(doc, stack)), Default)

OptionInv ==
  /\ pc \in {"defaults", "load"} => doc = NoDocument
  /\ pc = "defaults" => s_options = DefaultTo(set)
  /\ pc = "load" => s_options = Default
  /\ pc = "visit" => Named /\ InOrder(doc, stack) /\ Storing
  /\ pc \in {"log", "ready", "crashed"} =>
       s_options = IF doc = NoDocument THEN Default ELSE Over(Written(doc), Default)

\* One more node, later than those with its path, is one more option.
LEMMA StoredMore ==
  ASSUME NEW d, IsDocument(d), NEW S \in SUBSET Nodes(d), NEW c \in Nodes(d), c \notin S,
         \A n \in S : PathTo(d)[n] = PathTo(d)[c] => n < c
  PROVE  Over(Stored(d, S \cup {c}), Default) =
           Over(Option(PathTo(d)[c], d.value[c]), Over(Stored(d, S), Default))
<1> DEFINE to == PathTo(d)
           T == S \cup {c}
           At(R, p) == {n \in R : to[n] = p}
<1>1. At(T, to[c]) \subseteq Nat /\ c \in At(T, to[c]) /\ \A n \in At(T, to[c]) : n <= c
  BY NodesOf
<1>2. Max(At(T, to[c])) = c
  <2> HIDE DEF At
  <2> QED
    BY <1>1, MaxIs
<1>3. ASSUME NEW p, p # to[c] PROVE At(T, p) = At(S, p)
  BY <1>3
<1>4. /\ DOMAIN Stored(d, T) = DOMAIN Stored(d, S) \cup {to[c]}
      /\ Stored(d, T)[to[c]] = d.value[c]
      /\ \A p \in DOMAIN Stored(d, S) : p # to[c] => Stored(d, T)[p] = Stored(d, S)[p]
  <2>1. /\ DOMAIN Stored(d, T) = {to[n] : n \in T}
        /\ \A p \in {to[n] : n \in T} : Stored(d, T)[p] = d.value[Max(At(T, p))]
    BY DEF Stored
  <2>2. /\ DOMAIN Stored(d, S) = {to[n] : n \in S}
        /\ \A p \in {to[n] : n \in S} : Stored(d, S)[p] = d.value[Max(At(S, p))]
    BY DEF Stored
  <2>3. {to[n] : n \in T} = {to[n] : n \in S} \cup {to[c]}
    OBVIOUS
  <2> HIDE DEF At, to
  <2>4. DOMAIN Stored(d, T) = DOMAIN Stored(d, S) \cup {to[c]}
    BY <2>1, <2>2, <2>3
  <2>5. Stored(d, T)[to[c]] = d.value[c]
    BY <1>2, <2>1, <2>3
  <2>6. ASSUME NEW p \in DOMAIN Stored(d, S), p # to[c] PROVE Stored(d, T)[p] = Stored(d, S)[p]
    <3>1. p \in {to[n] : n \in S} /\ p \in {to[n] : n \in T}
      BY <2>2, <2>3
    <3>2. At(T, p) = At(S, p)
      BY <1>3, <2>6
    <3> QED
      BY <2>1, <2>2, <3>1, <3>2
  <2> QED
    BY <2>4, <2>5, <2>6
<1> HIDE DEF to, T
<1>5. Over(Stored(d, T), Default) =
        [p \in DOMAIN Over(Stored(d, S), Default) \cup {to[c]} |->
           IF p = to[c] THEN d.value[c] ELSE Over(Stored(d, S), Default)[p]]
  BY <1>4 DEF Over
<1> QED
  BY <1>5 DEF to, T, Over, Option

\* One more default is one more option.
LEMMA DefaultMore ==
  ASSUME NEW k \in Nat
  PROVE  DefaultTo(k + 1) = Over(Option(Defaults[k + 1].path, Defaults[k + 1].value), DefaultTo(k))
<1> DEFINE At(l, p) == {j \in 1 .. l : Defaults[j].path = p}
           q == Defaults[k + 1].path
<1>1. At(k + 1, q) \subseteq Nat /\ k + 1 \in At(k + 1, q) /\ \A j \in At(k + 1, q) : j <= k + 1
  OBVIOUS
<1>2. Max(At(k + 1, q)) = k + 1
  <2> HIDE DEF At
  <2> QED
    BY <1>1, MaxIs
<1>3. 1 .. k + 1 = (1 .. k) \cup {k + 1}
  OBVIOUS
<1>4. ASSUME NEW p, p # q PROVE At(k + 1, p) = At(k, p)
  BY <1>3, <1>4
<1>5. /\ DOMAIN DefaultTo(k + 1) = {Defaults[j].path : j \in 1 .. k + 1}
      /\ \A p \in {Defaults[j].path : j \in 1 .. k + 1} :
           DefaultTo(k + 1)[p] = Defaults[Max(At(k + 1, p))].value
      /\ DOMAIN DefaultTo(k) = {Defaults[j].path : j \in 1 .. k}
      /\ \A p \in {Defaults[j].path : j \in 1 .. k} :
           DefaultTo(k)[p] = Defaults[Max(At(k, p))].value
      /\ DefaultTo(k + 1) = [p \in DOMAIN DefaultTo(k + 1) |-> DefaultTo(k + 1)[p]]
  BY DEF DefaultTo
<1>6. DOMAIN DefaultTo(k + 1) = DOMAIN DefaultTo(k) \cup {q}
  BY <1>3, <1>5
<1> HIDE DEF At
<1>7. ASSUME NEW p \in DOMAIN DefaultTo(k + 1)
      PROVE  DefaultTo(k + 1)[p] = IF p = q THEN Defaults[k + 1].value ELSE DefaultTo(k)[p]
  <2>1. CASE p = q
    BY <1>2, <1>5, <2>1
  <2>2. CASE p # q
    <3>1. p \in DOMAIN DefaultTo(k)
      BY <1>6, <2>2
    <3> QED
      BY <1>4, <1>5, <2>2, <3>1
  <2> QED
    BY <2>1, <2>2
<1> HIDE DEF q
<1>8. DefaultTo(k + 1) = [p \in DOMAIN DefaultTo(k) \cup {q} |->
                            IF p = q THEN Defaults[k + 1].value ELSE DefaultTo(k)[p]]
  BY <1>5, <1>6, <1>7
<1> QED
  BY <1>8 DEF q, Over, Option

LEMMA InitOption == Init => OptionInv
<1> SUFFICES ASSUME Init PROVE OptionInv
  OBVIOUS
<1>1. DefaultTo(0) = << >>
  BY DEF DefaultTo
<1> QED
  BY <1>1 DEF Init, OptionInv

\* What a visit does to m_path and to its stack when it comes to child i.
LEMMA Descent ==
  ASSUME IInv, OptionInv, NEW i, Descend(i)
  PROVE  /\ IsDocument(doc) /\ Len(stack) \in Nat \ {0} /\ m_index = Len(stack) - 1
         /\ Crossed(doc, stack, CrossedOff(i), i) /\ InOrder(doc, stack)
         /\ Top = stack[Len(stack)]
         /\ Child(i).node = ChildOf(doc, stack[Len(stack)].node, i)
         /\ PathTo(doc)[Child(i).node] = Append(CurrentPath, Segment(i))
         /\ Len(PathTo(doc)[Child(i).node]) = m_index + 1
         /\ PathTo(doc)[Child(i).node] = [l \in 1 .. Len(stack) |-> m_path'[l - 1]]
         /\ \A j \in DOMAIN stack :
              PathTo(doc)[stack[j].node] = [l \in 1 .. j - 1 |-> m_path'[l - 1]]
<1>1. /\ pc = "visit" /\ stack # << >> /\ i \in Top.left
      /\ doc.kind[Top.node] = "array" => \A j \in Top.left : i <= j
      /\ m_path' = [m_path EXCEPT ![m_index] = Segment(i)]
  BY DEF Descend, Chosen
<1>2. /\ IsDocument(doc) /\ Len(stack) \in Nat \ {0} /\ Len(stack) \in DOMAIN stack
      /\ m_index = Len(stack) - 1 /\ m_index \in 0 .. MAX_SEGMENTS - 1
      /\ Top \in [node : Nodes(doc), left : SUBSET Nat]
      /\ Top.left \subseteq Places(doc, Top.node) /\ Segment(i) \in Keys
  BY <1>1, TopOK DEF Nodes, Places
<1>3. Named /\ InOrder(doc, stack)
  BY <1>1 DEF OptionInv
<1>4. IsStack(doc, stack)
  BY DEF IInv, StackOK
<1>5. DOMAIN stack = 1 .. Len(stack)
  BY <1>4 DEF IsStack
<1>6. Crossed(doc, stack, CrossedOff(i), i)
  <2>1. IsStack(doc, CrossedOff(i)) /\ Len(CrossedOff(i)) = Len(stack)
    BY <1>1, CrossedOffOK DEF IsStack, Frames, Nodes, Places
  <2>2. /\ \A j \in DOMAIN stack : j # Len(stack) => CrossedOff(i)[j] = stack[j]
        /\ CrossedOff(i)[Len(stack)] = [stack[Len(stack)] EXCEPT !.left = @ \ {i}]
    BY <1>2, <1>4 DEF CrossedOff, IsStack
  <2>3. /\ CrossedOff(i)[Len(stack)].node = stack[Len(stack)].node
        /\ CrossedOff(i)[Len(stack)].left = stack[Len(stack)].left \ {i}
    BY <1>2, <2>2 DEF Top
  <2> QED
    BY <1>1, <1>4, <2>1, <2>2, <2>3 DEF Crossed, Top
<1>7. Child(i).node = ChildOf(doc, Top.node, i)
  BY DEF Child, ChildOf
<1>8. PathTo(doc)[Top.node] = CurrentPath /\ CurrentPath = [l \in 1 .. Len(stack) - 1 |-> m_path[l - 1]]
  BY <1>2, <1>3 DEF Named, CurrentPath, Top
<1>9. PathTo(doc)[Child(i).node] = Append(CurrentPath, Segment(i))
  <2>1. Top.node \in Nodes(doc) /\ i \in Places(doc, Top.node)
    BY <1>1, <1>2
  <2>2. PathTo(doc)[ChildOf(doc, Top.node, i)] =
          Append(PathTo(doc)[Top.node],
                 IF doc.kind[Top.node] = "array" THEN Zero ELSE doc.children[Top.node][i].key)
    BY <1>2, <2>1, PathToChild
  <2> QED
    BY <1>7, <1>8, <2>2 DEF Segment, Child
<1>10. m_path \in [0 .. MAX_SEGMENTS - 1 -> Keys] /\ MAX_SEGMENTS \in Nat
  BY ConfigAssumption DEF ConfigAssumption, IInv, TypeOK
<1>11. ASSUME NEW l \in 1 .. Len(stack) - 1 PROVE m_path'[l - 1] = m_path[l - 1]
  BY <1>1, <1>2, <1>10
<1>12. m_path'[Len(stack) - 1] = Segment(i)
  BY <1>1, <1>2, <1>10
<1>13. PathTo(doc)[Child(i).node] = [l \in 1 .. Len(stack) |-> m_path'[l - 1]]
  <2>1. CurrentPath \in Seq(Keys) /\ Len(CurrentPath) = Len(stack) - 1
    <3>1. CurrentPath \in Seq(Keys)
      BY <1>2, <1>8, PathTypes
    <3>2. DOMAIN CurrentPath = 1 .. Len(stack) - 1 /\ Len(stack) - 1 \in Nat
      BY <1>2, <1>8
    <3> QED
      BY <3>1, <3>2, LengthOf
  <2>2. Append(CurrentPath, Segment(i)) =
          [l \in 1 .. Len(stack) |-> IF l = Len(stack) THEN Segment(i) ELSE CurrentPath[l]]
    <3>1. Len(CurrentPath) + 1 = Len(stack)
      BY <1>2, <2>1
    <3> QED
      BY <1>2, <2>1, <3>1, AppendIs
  <2>3. ASSUME NEW l \in 1 .. Len(stack)
        PROVE  (IF l = Len(stack) THEN Segment(i) ELSE CurrentPath[l]) = m_path'[l - 1]
    <3>1. CASE l = Len(stack)
      BY <1>12, <3>1
    <3>2. CASE l # Len(stack)
      <4>1. l \in 1 .. Len(stack) - 1
        BY <1>2, <3>2
      <4> QED
        BY <1>8, <1>11, <3>2, <4>1
    <3> QED
      BY <3>1, <3>2
  <2> QED
    BY <1>9, <2>2, <2>3
<1>14. Len(PathTo(doc)[Child(i).node]) = m_index + 1
  <2>1. Child(i).node \in Nodes(doc)
    BY <1>1, <1>2, <1>7, Children
  <2> QED
    BY <1>2, <1>13, <2>1, PathTypes, LengthOf
<1>15. ASSUME NEW j \in DOMAIN stack
       PROVE  PathTo(doc)[stack[j].node] = [l \in 1 .. j - 1 |-> m_path'[l - 1]]
  <2>1. PathTo(doc)[stack[j].node] = [l \in 1 .. j - 1 |-> m_path[l - 1]]
    BY <1>3 DEF Named
  <2>2. \A l \in 1 .. j - 1 : l \in 1 .. Len(stack) - 1
    BY <1>2, <1>5
  <2> QED
    BY <1>11, <2>1, <2>2
<1> QED
  BY <1>2, <1>3, <1>6, <1>7, <1>9, <1>13, <1>14, <1>15 DEF Top

\* While a child is crossed off, m_path names the nodes of the visits.
LEMMA NamedKept ==
  ASSUME IInv, OptionInv, NEW i, Descend(i), UNCHANGED doc, stack' = CrossedOff(i)
  PROVE  Named'
<1>1. Crossed(doc, stack, CrossedOff(i), i)
  BY Descent
<1>2. /\ DOMAIN stack = 1 .. Len(stack) /\ DOMAIN CrossedOff(i) = DOMAIN stack
      /\ Len(stack) \in DOMAIN stack
  BY <1>1 DEF Crossed, IsStack
<1>3. ASSUME NEW j \in DOMAIN stack PROVE stack'[j].node = stack[j].node
  BY <1>1, <1>2 DEF Crossed
<1>4. \A j \in DOMAIN stack :
        PathTo(doc)[stack[j].node] = [l \in 1 .. j - 1 |-> m_path'[l - 1]]
  BY Descent
<1> QED
  BY <1>2, <1>3, <1>4 DEF Named

\* A value is stored after all others that its path is stored for.
LEMMA ValueOption ==
  ASSUME IInv, OptionInv, NEW i, VisitValue(i)
  PROVE  OptionInv'
<1> DEFINE c == Child(i).node
<1>1. /\ Descend(i) /\ pc = "visit" /\ doc.kind[c] = "value"
      /\ Store(Append(CurrentPath, Segment(i)), doc.value[c])
      /\ stack' = CrossedOff(i) /\ UNCHANGED <<pc, set, doc, m_index>>
  BY DEF VisitValue, Descend
<1>2. /\ IsDocument(doc) /\ Crossed(doc, stack, stack', i) /\ InOrder(doc, stack)
      /\ c = ChildOf(doc, stack[Len(stack)].node, i)
      /\ PathTo(doc)[c] = Append(CurrentPath, Segment(i))
  BY <1>1, Descent
<1>3. /\ c \in Nodes(doc) /\ Below(doc, c) \subseteq Ahead(doc, stack)
      /\ Ahead(doc, stack') = Ahead(doc, stack) \ Below(doc, c)
      /\ InOrder(doc, stack')
  BY <1>2, CrossOff
<1>4. Below(doc, c) = {c}
  <2>1. doc.children[c] = << >>
    BY <1>1, <1>2, <1>3 DEF IsDocument
  <2>2. c + 1 .. End(doc)[c] = {}
    BY <1>2, <1>3, <2>1 DEF IsDocument, IsTree, Places
  <2>3. c \in Nat /\ End(doc)[c] \in Nat /\ c <= End(doc)[c]
    BY <1>2, <1>3, NodesOf
  <2>4. End(doc)[c] = c
    BY <2>2, <2>3
  <2> QED
    BY <2>3, <2>4 DEF Below
<1> DEFINE S == Kept(doc) \ Ahead(doc, stack)
<1>5. S \subseteq Nodes(doc) /\ c \notin S /\ \A n \in S : PathTo(doc)[n] = PathTo(doc)[c] => n < c
  <2>1. c \in Ahead(doc, stack) /\ S \subseteq Nodes(doc)
    BY <1>3, <1>4 DEF Kept
  <2>2. \A n \in S : Before(doc, n, c)
    BY <1>2, <2>1 DEF InOrder
  <2> QED
    BY <2>1, <2>2 DEF Before
<1>6. s_options = Over(Stored(doc, S), Default)
  BY <1>1 DEF OptionInv, Storing
<1>7. s_options' = Over(Stored(doc, Kept(doc) \ Ahead(doc, stack')), Default)
  <2>1. CASE c \in Kept(doc)
    <3>1. Kept(doc) \ Ahead(doc, stack') = S \cup {c}
      BY <1>3, <1>4, <2>1
    <3>2. Len(PathTo(doc)[c]) < MAX_SEGMENTS /\ Fits(PathTo(doc)[c])
      BY <2>1 DEF Kept, Fits
    <3>3. s_options' = Over(Option(PathTo(doc)[c], doc.value[c]), s_options)
      BY <1>1, <1>2, <3>2 DEF Store
    <3> HIDE DEF S, c
    <3>4. S \in SUBSET Nodes(doc)
      BY <1>5
    <3>5. Over(Stored(doc, S \cup {c}), Default) =
            Over(Option(PathTo(doc)[c], doc.value[c]), Over(Stored(doc, S), Default))
      BY <1>2, <1>3, <1>5, <3>4, StoredMore
    <3> QED
      BY <1>6, <3>1, <3>3, <3>5
  <2>2. CASE c \notin Kept(doc)
    <3>1. Kept(doc) \ Ahead(doc, stack') = S
      BY <1>3, <1>4, <2>2
    <3>2. ~(Len(PathTo(doc)[c]) < MAX_SEGMENTS /\ Fits(PathTo(doc)[c]))
      BY <1>1, <1>3, <2>2 DEF Kept, Fits
    <3>3. s_options' = s_options
      BY <1>1, <1>2, <3>2 DEF Store
    <3> QED
      BY <1>6, <3>1, <3>3
  <2> QED
    BY <2>1, <2>2
<1>8. Named'
  BY <1>1, NamedKept
<1> QED
  BY <1>1, <1>3, <1>7, <1>8 DEF OptionInv, Storing

\* Nothing below a container that is too deep is to be stored.
LEMMA SkipOption ==
  ASSUME IInv, OptionInv, NEW i, SkipContainer(i)
  PROVE  OptionInv'
<1> DEFINE c == Child(i).node
<1>1. /\ Descend(i) /\ pc = "visit" /\ doc.kind[c] # "value" /\ m_index + 1 = MAX_SEGMENTS
      /\ stack' = CrossedOff(i) /\ UNCHANGED <<s_options, pc, set, doc, m_index>>
  BY DEF SkipContainer, Descend
<1>2. /\ IsDocument(doc) /\ Crossed(doc, stack, stack', i) /\ InOrder(doc, stack)
      /\ c = ChildOf(doc, stack[Len(stack)].node, i)
      /\ Len(PathTo(doc)[c]) = MAX_SEGMENTS
  BY <1>1, Descent
<1>3. /\ c \in Nodes(doc)
      /\ Ahead(doc, stack') = Ahead(doc, stack) \ Below(doc, c)
      /\ InOrder(doc, stack')
  BY <1>2, CrossOff
<1>4. ASSUME NEW n \in Below(doc, c) PROVE n \notin Kept(doc)
  <2>1. n = c \/ Len(PathTo(doc)[c]) < Len(PathTo(doc)[n])
    BY <1>2, <1>3, PathsBelow
  <2>2. n \in Nodes(doc) => Len(PathTo(doc)[n]) \in Nat
    BY <1>2, PathTypes
  <2>3. n # c => ~(n \in Nodes(doc) /\ Len(PathTo(doc)[n]) < MAX_SEGMENTS)
    BY <1>2, <2>1, <2>2, ConfigAssumption DEF ConfigAssumption
  <2> QED
    BY <1>1, <2>3 DEF Kept
<1>5. Kept(doc) \ Ahead(doc, stack') = Kept(doc) \ Ahead(doc, stack)
  BY <1>3, <1>4
<1>6. Named'
  BY <1>1, NamedKept
<1> QED
  BY <1>1, <1>3, <1>5, <1>6 DEF OptionInv, Storing

\* Entering a container stores nothing, and its own path names it.
LEMMA EnterOption ==
  ASSUME IInv, OptionInv, NEW i, EnterContainer(i)
  PROVE  OptionInv'
<1> DEFINE c == Child(i).node
<1>1. /\ Descend(i) /\ pc = "visit" /\ doc.kind[c] # "value"
      /\ stack' = Append(CrossedOff(i), Frame(c)) /\ UNCHANGED <<s_options, pc, set, doc>>
  BY DEF EnterContainer, Descend
<1>2. /\ IsDocument(doc) /\ Crossed(doc, stack, CrossedOff(i), i) /\ InOrder(doc, stack)
      /\ c = ChildOf(doc, stack[Len(stack)].node, i)
      /\ PathTo(doc)[c] = [l \in 1 .. Len(stack) |-> m_path'[l - 1]]
      /\ \A j \in DOMAIN stack :
           PathTo(doc)[stack[j].node] = [l \in 1 .. j - 1 |-> m_path'[l - 1]]
  BY <1>1, Descent
<1>3. stack' = Append(CrossedOff(i), Call(doc, ChildOf(doc, stack[Len(stack)].node, i)))
  <2>1. Frame(c) = Call(doc, c)
    BY DEF Frame, Places, Call
  <2> HIDE DEF c
  <2> QED
    BY <1>1, <1>2, <2>1
<1>4. Ahead(doc, stack') = Ahead(doc, stack) \ {c} /\ InOrder(doc, stack')
  <2>1. /\ Ahead(doc, stack') = Ahead(doc, stack) \ {ChildOf(doc, stack[Len(stack)].node, i)}
        /\ InOrder(doc, stack')
    BY <1>2, <1>3, OpenLevel
  <2> HIDE DEF c
  <2> QED
    BY <1>2, <2>1
<1>5. Kept(doc) \ Ahead(doc, stack') = Kept(doc) \ Ahead(doc, stack)
  <2>1. c \notin Kept(doc)
    BY <1>1 DEF Kept
  <2> QED
    BY <1>4, <2>1
<1>6. Named'
  <2>1. /\ CrossedOff(i) \in Seq(Frames(doc)) /\ Len(CrossedOff(i)) = Len(stack)
        /\ DOMAIN stack = 1 .. Len(stack) /\ Len(stack) \in Nat \ {0}
        /\ \A j \in DOMAIN stack : CrossedOff(i)[j].node = stack[j].node
    BY <1>2 DEF Crossed, IsStack
  <2>2. ASSUME NEW j \in DOMAIN stack'
        PROVE  PathTo(doc)[stack'[j].node] = [l \in 1 .. j - 1 |-> m_path'[l - 1]]
    <3>1. j \in 1 .. Len(stack) + 1
      BY <1>1, <2>1
    <3>2. CASE j \in 1 .. Len(stack)
      <4>1. stack'[j] = CrossedOff(i)[j]
        BY <1>1, <2>1, <3>2
      <4> QED
        BY <1>2, <2>1, <3>2, <4>1
    <3>3. CASE j = Len(stack) + 1
      <4>1. stack'[j] = Frame(c)
        BY <1>1, <2>1, <3>3
      <4>2. stack'[j].node = c /\ j - 1 = Len(stack)
        BY <2>1, <3>3, <4>1 DEF Frame
      <4> QED
        BY <1>2, <4>2
    <3> QED
      BY <2>1, <3>1, <3>2, <3>3
  <2> QED
    BY <1>1, <2>2 DEF Named
<1> QED
  BY <1>1, <1>4, <1>5, <1>6 DEF OptionInv, Storing

\* Nor does leaving it.
LEMMA LeaveOption ==
  ASSUME IInv, OptionInv, Leave
  PROVE  OptionInv'
<1>1. /\ pc = "visit" /\ stack # << >> /\ Top.left = {} /\ stack' = Front(stack)
      /\ UNCHANGED <<s_options, pc, set, doc, m_path>>
  BY DEF Leave
<1>2. IsStack(doc, stack) /\ Named /\ InOrder(doc, stack) /\ Storing
  BY <1>1 DEF IInv, StackOK, OptionInv
<1>3. Ahead(doc, stack') = Ahead(doc, stack) /\ InOrder(doc, stack')
  BY <1>1, <1>2, CloseLevel DEF Top
<1>4. DOMAIN Front(stack) \subseteq DOMAIN stack /\ \A j \in DOMAIN Front(stack) : Front(stack)[j] = stack[j]
  BY <1>1, <1>2, FrontOf DEF IsStack
<1>5. Named'
  BY <1>1, <1>2, <1>4 DEF Named
<1> QED
  BY <1>1, <1>2, <1>3, <1>5 DEF OptionInv, Storing

\* Nothing is stored for a document of which all but the root is ahead.
LEMMA LoadOption ==
  ASSUME OptionInv, Load
  PROVE  OptionInv'
<1>1. /\ pc = "load" /\ pc' = "visit" /\ doc' \in Documents /\ IsDocument(doc')
      /\ stack' = << Call(doc', 1) >>
      /\ s_options' = Default
  BY ConfigAssumption DEF ConfigAssumption, Load, Frame, Places, Call, OptionInv
<1>2. Ahead(doc', stack') = Nodes(doc') \ {1} /\ InOrder(doc', stack')
  BY <1>1, BeginLevels
<1>3. Kept(doc') \ Ahead(doc', stack') = {}
  <2>1. doc'.kind[1] = "table"
    BY <1>1 DEF IsDocument
  <2> QED
    BY <1>2, <2>1 DEF Kept
<1>4. Over(Stored(doc', {}), Default) = Default
  <2>1. DOMAIN Stored(doc', {}) = {}
    BY DEF Stored
  <2>2. Default = [p \in DOMAIN Default |-> Default[p]]
    BY DEF Default, DefaultTo
  <2> QED
    BY <2>1, <2>2 DEF Over
<1>5. Named'
  <2>1. PathTo(doc')[1] = << >>
    BY <1>1, PathTypes
  <2>2. DOMAIN stack' = {1} /\ stack'[1].node = 1
    BY <1>1 DEF Call
  <2>3. [l \in 1 .. 1 - 1 |-> m_path'[l - 1]] = << >>
    OBVIOUS
  <2> QED
    BY <2>1, <2>2, <2>3 DEF Named
<1> QED
  BY <1>1, <1>2, <1>3, <1>4, <1>5 DEF OptionInv, Storing

\* When nothing is ahead, all that is to be kept is stored.
LEMMA EndOption ==
  ASSUME IInv, OptionInv, LoadEnds
  PROVE  OptionInv'
<1>1. pc = "visit" /\ stack = << >> /\ pc' = "log" /\ UNCHANGED <<s_options, set, doc>>
  BY DEF LoadEnds
<1>2. Ahead(doc, stack) = {}
  BY <1>1 DEF Ahead
<1>3. s_options = Over(Written(doc), Default)
  <2>1. Kept(doc) \ {} = Kept(doc)
    OBVIOUS
  <2> QED
    BY <1>1, <1>2, <2>1 DEF OptionInv, Storing, Written
<1>4. CASE doc = NoDocument
  <2>1. Kept(NoDocument) = {}
    BY DEF Kept, NoDocument, Nodes
  <2>2. DOMAIN Written(NoDocument) = {}
    BY <2>1 DEF Written, Stored
  <2>3. Default = [p \in DOMAIN Default |-> Default[p]]
    BY DEF Default, DefaultTo
  <2>4. Over(Written(NoDocument), Default) = Default
    BY <2>2, <2>3 DEF Over
  <2> QED
    BY <1>1, <1>3, <1>4, <2>4 DEF OptionInv
<1>5. CASE doc # NoDocument
  BY <1>1, <1>3, <1>5 DEF OptionInv
<1> QED
  BY <1>4, <1>5

\* A default is stored, whatever comes before it.
LEMMA DefaultOption ==
  ASSUME IInv, OptionInv, SetDefault
  PROVE  OptionInv'
<1>1. /\ pc = "defaults" /\ set < Len(Defaults) /\ set' = set + 1
      /\ Store(Defaults[set + 1].path, Defaults[set + 1].value)
      /\ UNCHANGED <<pc, doc>>
  BY DEF SetDefault
<1>2. set \in Nat /\ set + 1 \in 1 .. Len(Defaults)
  BY <1>1, ConfigAssumption DEF ConfigAssumption, IInv, TypeOK
<1>3. Len(Defaults[set + 1].path) < MAX_SEGMENTS /\ Fits(Defaults[set + 1].path)
  BY <1>2, ConfigAssumption DEF ConfigAssumption, IsDefault, Fits
<1>4. s_options = DefaultTo(set) /\ doc = NoDocument
  BY <1>1 DEF OptionInv
<1>5. s_options' = DefaultTo(set + 1)
  BY <1>1, <1>2, <1>3, <1>4, DefaultMore DEF Store
<1> QED
  BY <1>1, <1>4, <1>5 DEF OptionInv

\* Every step keeps the options as far as the file has been read.
LEMMA NextOption == ASSUME IInv, OptionInv, [Next]_vars PROVE OptionInv'
<1>1. CASE DefaultsDone
  BY <1>1 DEF DefaultsDone, OptionInv, Default
<1>2. CASE LoadFails \/ LogConfig
  BY <1>2 DEF LoadFails, LogConfig, OptionInv
<1>3. CASE Read
  BY <1>3 DEF Read, OptionInv
<1>4. CASE UNCHANGED vars
  BY <1>4 DEF vars, parser, OptionInv, Named, Storing
<1> QED
  BY <1>1, <1>2, <1>3, <1>4, DefaultOption, LoadOption, EndOption, ValueOption, SkipOption,
     EnterOption, LeaveOption DEF Next, Start, Visit

LEMMA Recorded == Spec => []OptionInv
<1>1. ASSUME IInv, OptionInv, [Next]_vars PROVE OptionInv'
  BY <1>1, NextOption
<1> QED
  BY InitOption, <1>1, Invariance, PTL DEF Spec

\* However deep the document, m_path names the container that is being visited
\* and has room for one more segment (config.cpp:130-146, 173-184).
THEOREM PathNames == Spec => []PathNamesTop
<1>1. IInv /\ OptionInv => PathNamesTop
  <2> SUFFICES ASSUME IInv, OptionInv, pc = "visit", stack # << >>
               PROVE  /\ m_index = Len(stack) - 1
                      /\ m_index < MAX_SEGMENTS
                      /\ CurrentPath = PathTo(doc)[Top.node]
    BY DEF PathNamesTop
  <2>1. Len(stack) \in DOMAIN stack /\ m_index = Len(stack) - 1 /\ m_index \in 0 .. MAX_SEGMENTS - 1
    BY TopOK
  <2> QED
    BY <2>1, ConfigAssumption DEF ConfigAssumption, OptionInv, Named, CurrentPath, Top
<1> QED
  BY <1>1, Invariance, Recorded, PTL

\* For every document, the options that the features read are the defaults,
\* each replaced by the value the file has for it (README.md:70-71,
\* config.cpp:148-161, 216-235).
THEOREM AsWritten == Spec => []OptionsAsWritten
<1>1. OptionInv => OptionsAsWritten
  BY DEF OptionInv, OptionsAsWritten
<1> QED
  BY <1>1, Recorded, PTL

-----------------------------------------------------------------------------
(* Crashes. *)

\* A default has a path that fits, and the type it is read with.
LEMMA DefaultAt ==
  ASSUME NEW p \in DOMAIN Default
  PROVE  /\ Width(p) \in 1 .. MAX_PATH_LEN - 1
         /\ \A lookup \in Lookups : lookup.path = p => Default[p].type = lookup.type
<1> DEFINE S == {j \in 1 .. Len(Defaults) : Defaults[j].path = p}
<1>1. Len(Defaults) \in Nat /\ \A j \in 1 .. Len(Defaults) : IsDefault(Defaults[j])
  BY ConfigAssumption DEF ConfigAssumption
<1>2. S # {} /\ Default[p] = Defaults[Max(S)].value
  BY DEF Default, DefaultTo
<1>3. S \subseteq Nat /\ \A j \in S : j <= Len(Defaults)
  BY <1>1
<1>4. Max(S) \in S
  <2> HIDE DEF S
  <2> QED
    BY <1>1, <1>2, <1>3, MaxIn
<1>5. IsDefault(Defaults[Max(S)]) /\ Defaults[Max(S)].path = p
  BY <1>1, <1>4
<1> QED
  BY <1>2, <1>5 DEF IsDefault

\* What is written is the value of a node with a path that fits.
LEMMA WrittenAt ==
  ASSUME NEW d, IsDocument(d), NEW p \in DOMAIN Written(d)
  PROVE  /\ Width(p) \in 1 .. MAX_PATH_LEN - 1
         /\ \E n \in Nodes(d) : d.kind[n] = "value" /\ PathTo(d)[n] = p /\ Written(d)[p] = d.value[n]
<1> DEFINE S == {n \in Kept(d) : PathTo(d)[n] = p}
<1>1. S # {} /\ Written(d)[p] = d.value[Max(S)]
  BY DEF Written, Stored
<1>2. /\ Len(d.kind) \in Nat /\ S \subseteq Nat /\ \A n \in S : n <= Len(d.kind)
  BY NodesOf DEF Kept
<1>3. Max(S) \in S
  <2> HIDE DEF S
  <2> QED
    BY <1>1, <1>2, MaxIn
<1> QED
  BY <1>1, <1>3 DEF Kept

WrongOption ==
  \E n \in Nodes(doc), lookup \in Lookups :
    /\ doc.kind[n] = "value" /\ doc.value[n].type # lookup.type
    /\ PathTo(doc)[n] = lookup.path

\* Once all is stored, every key fits the buffer of LogConfig, and an option of
\* another type than it is read with is one of the document.
LEMMA Loaded ==
  ASSUME IInv, OptionInv, pc \in {"log", "ready"}
  PROVE  /\ \A p \in DOMAIN s_options : Width(p) \in 1 .. MAX_PATH_LEN - 1
         /\ \A lookup \in Lookups : WrongType(lookup) => WrongOption
<1>1. s_options = IF doc = NoDocument THEN Default ELSE Over(Written(doc), Default)
  BY DEF OptionInv
<1>2. CASE doc = NoDocument
  BY <1>1, <1>2, DefaultAt DEF WrongType
<1>3. CASE doc # NoDocument
  <2>1. IsDocument(doc)
    BY <1>3, ConfigAssumption DEF ConfigAssumption, IInv, TypeOK
  <2>2. ASSUME NEW p \in DOMAIN s_options
        PROVE  \/ p \in DOMAIN Written(doc) /\ s_options[p] = Written(doc)[p]
               \/ p \in DOMAIN Default /\ s_options[p] = Default[p]
    BY <1>1, <1>3, <2>2 DEF Over
  <2>3. ASSUME NEW p \in DOMAIN s_options PROVE Width(p) \in 1 .. MAX_PATH_LEN - 1
    BY <2>1, <2>2, DefaultAt, WrittenAt
  <2>4. ASSUME NEW lookup \in Lookups, WrongType(lookup) PROVE WrongOption
    <3> DEFINE p == lookup.path
    <3>1. p \in DOMAIN s_options /\ s_options[p].type # lookup.type
      BY <2>4 DEF WrongType
    <3>2. p \in DOMAIN Written(doc) /\ s_options[p] = Written(doc)[p]
      BY <2>2, <3>1, DefaultAt
    <3>3. PICK n \in Nodes(doc) :
            doc.kind[n] = "value" /\ PathTo(doc)[n] = p /\ Written(doc)[p] = doc.value[n]
      BY <2>1, <3>2, WrittenAt
    <3> QED
      BY <3>1, <3>2, <3>3 DEF WrongOption
  <2> QED
    BY <2>3, <2>4
<1> QED
  BY <1>2, <1>3

\* Whatever the file holds, the library only crashes at an option that the file
\* gave another type than it is read with (config.cpp:237-256,
\* dllmain.cpp:336-373).
THEOREM Crashes == Spec => []CrashNeedsWrongType
<1>1. Init => CrashNeedsWrongType
  BY DEF Init, CrashNeedsWrongType
<1>2. ASSUME IInv, OptionInv, CrashNeedsWrongType, [Next]_vars PROVE CrashNeedsWrongType'
  <2>1. SUFFICES ASSUME pc' = "crashed" PROVE WrongOption'
    BY DEF CrashNeedsWrongType, WrongOption
  <2>2. \/ LogConfig /\ pc = "log"
        \/ Read /\ pc = "ready"
        \/ pc = "crashed" /\ UNCHANGED doc
    BY <1>2, <2>1
    DEF Next, Start, SetDefault, DefaultsDone, LoadFails, Load, Visit, VisitValue, SkipContainer,
        EnterContainer, Descend, Leave, LoadEnds, LogConfig, Read, vars
  <2>3. CASE LogConfig /\ pc = "log"
    <3>1. PICK p \in DOMAIN s_options : Width(p) + 1 > LOG_LEN
      BY <2>1, <2>3 DEF LogConfig, Logged
    <3>2. Width(p) \in 1 .. MAX_PATH_LEN - 1
      BY <1>2, <2>3, Loaded
    <3> QED
      BY <3>1, <3>2, ConfigAssumption DEF ConfigAssumption
  <2>4. CASE Read /\ pc = "ready"
    <3>1. \E lookup \in Lookups : WrongType(lookup)
      BY <2>1, <2>4 DEF Read
    <3>2. WrongOption /\ UNCHANGED doc
      BY <1>2, <2>4, <3>1, Loaded DEF Read
    <3> QED
      BY <3>2 DEF WrongOption
  <2>5. CASE pc = "crashed" /\ UNCHANGED doc
    BY <1>2, <2>5 DEF CrashNeedsWrongType, WrongOption
  <2> QED
    BY <2>2, <2>3, <2>4, <2>5
<1> QED
  BY <1>1, <1>2, Invariance, Recorded, PTL DEF Spec

-----------------------------------------------------------------------------
(* The visit comes to an end. *)

\* Each node ahead is still to be entered and left.
Work == 2 * Cardinality(Ahead(doc, stack)) + Len(stack)

\* A visit of n nodes has fewer than 2n steps: when it begins there is less work
\* than that, and every step leaves less, whatever is visited first.
VisitShrinks ==
  [][/\ pc = "load" /\ pc' = "visit" => Work' \in 0 .. 2 * Len(doc'.kind) - 1
     /\ pc = "visit" /\ stack # << >> => Work \in Nat /\ Work' \in 0 .. Work - 1]_vars

\* What is ahead can be counted.
LEMMA AheadFinite ==
  ASSUME NEW d, IsDocument(d), NEW s
  PROVE  /\ IsFiniteSet(Ahead(d, s)) /\ Cardinality(Ahead(d, s)) \in Nat
         /\ IsFiniteSet(Nodes(d)) /\ Cardinality(Nodes(d)) = Len(d.kind)
<1>1. IsFiniteSet(Nodes(d)) /\ Cardinality(Nodes(d)) = Len(d.kind)
  <2>1. Nodes(d) = 1 .. Len(d.kind) /\ Len(d.kind) \in Nat \ {0}
    BY NodesOf
  <2> QED
    BY <2>1, FS_Interval
<1>2. Ahead(d, s) \in SUBSET Nodes(d)
  BY DEF Ahead
<1>3. IsFiniteSet(Ahead(d, s))
  BY <1>1, <1>2, FS_Subset
<1> QED
  BY <1>1, <1>3, FS_CardinalityType

\* A set without one of its elements, or fewer, is smaller.
LEMMA Fewer ==
  ASSUME NEW S, IsFiniteSet(S), NEW T, NEW c \in S, T \subseteq S \ {c}
  PROVE  Cardinality(T) \in Nat /\ Cardinality(S) \in Nat /\ Cardinality(T) < Cardinality(S)
<1>1. T \in SUBSET S /\ T # S
  OBVIOUS
<1>2. IsFiniteSet(T) /\ Cardinality(T) <= Cardinality(S) /\ Cardinality(S) # Cardinality(T)
  BY <1>1, FS_Subset
<1>3. Cardinality(T) \in Nat /\ Cardinality(S) \in Nat
  BY <1>2, FS_CardinalityType
<1> QED
  BY <1>2, <1>3

\* A node that is crossed off is no longer ahead.
LEMMA DescentShrinks ==
  ASSUME IInv, OptionInv, NEW i, VisitValue(i) \/ SkipContainer(i) \/ EnterContainer(i)
  PROVE  Work \in Nat /\ Work' \in 0 .. Work - 1
<1> DEFINE c == ChildOf(doc, stack[Len(stack)].node, i)
           a == Cardinality(Ahead(doc, stack))
<1>1. Descend(i) /\ doc' = doc
  BY DEF VisitValue, SkipContainer, EnterContainer
<1>2. /\ IsDocument(doc) /\ Len(stack) \in Nat \ {0}
      /\ Crossed(doc, stack, CrossedOff(i), i) /\ InOrder(doc, stack)
      /\ Child(i).node = c
  BY <1>1, Descent
<1>3. /\ c \in Nodes(doc) /\ Below(doc, c) \subseteq Ahead(doc, stack)
      /\ Ahead(doc, CrossedOff(i)) = Ahead(doc, stack) \ Below(doc, c)
  BY <1>2, CrossOff
<1>4. c \in Below(doc, c) /\ c \in Ahead(doc, stack)
  <2>1. c \in Nat /\ End(doc)[c] \in Nat /\ c <= End(doc)[c]
    BY <1>2, <1>3, NodesOf
  <2>2. c \in Below(doc, c)
    BY <2>1 DEF Below
  <2> QED
    BY <1>3, <2>2
<1>5. IsFiniteSet(Ahead(doc, stack)) /\ a \in Nat
  BY <1>2, AheadFinite
<1>6. CASE VisitValue(i) \/ SkipContainer(i)
  <2>1. stack' = CrossedOff(i) /\ Len(CrossedOff(i)) = Len(stack)
    BY <1>2, <1>6 DEF VisitValue, SkipContainer, Crossed
  <2>2. Ahead(doc, stack') \subseteq Ahead(doc, stack) \ {c}
    BY <1>3, <1>4, <2>1
  <2> DEFINE b == Cardinality(Ahead(doc, stack'))
  <2>3. b \in Nat /\ b < a
    BY <1>4, <1>5, <2>2, Fewer
  <2>4. Work = 2 * a + Len(stack) /\ Work' = 2 * b + Len(stack)
    BY <1>1, <2>1 DEF Work
  <2> HIDE DEF a, b
  <2> QED
    BY <1>2, <1>5, <2>3, <2>4
<1>7. CASE EnterContainer(i)
  <2>1. stack' = Append(CrossedOff(i), Call(doc, c))
    <3>1. stack' = Append(CrossedOff(i), Frame(Child(i).node))
      BY <1>7 DEF EnterContainer
    <3>2. Frame(c) = Call(doc, c)
      BY DEF Frame, Places, Call
    <3> HIDE DEF c
    <3> QED
      BY <1>2, <3>1, <3>2
  <2>2. Ahead(doc, stack') = Ahead(doc, stack) \ {c}
    BY <1>2, <2>1, OpenLevel
  <2>3. Len(stack') = Len(stack) + 1
    <3>1. CrossedOff(i) \in Seq(Frames(doc)) /\ Len(CrossedOff(i)) = Len(stack)
      BY <1>2 DEF Crossed, IsStack
    <3>2. Len(stack') = Len(CrossedOff(i)) + 1
      <4> HIDE DEF c
      <4> QED
        BY <2>1, <3>1
    <3> QED
      BY <3>1, <3>2
  <2> DEFINE b == Cardinality(Ahead(doc, stack'))
  <2>4. b \in Nat /\ b < a
    BY <1>4, <1>5, <2>2, Fewer
  <2>5. Work = 2 * a + Len(stack) /\ Work' = 2 * b + (Len(stack) + 1)
    BY <1>1, <2>3 DEF Work
  <2> HIDE DEF a, b
  <2> QED
    BY <1>2, <1>5, <2>4, <2>5
<1> QED
  BY <1>6, <1>7

\* A container that is left is off the stack.
LEMMA LeaveShrinks ==
  ASSUME IInv, OptionInv, Leave
  PROVE  Work \in Nat /\ Work' \in 0 .. Work - 1
<1>1. /\ pc = "visit" /\ stack # << >> /\ stack[Len(stack)].left = {} /\ stack' = Front(stack)
      /\ doc' = doc
  BY DEF Leave, Top
<1>2. IsStack(doc, stack) /\ InOrder(doc, stack)
  BY <1>1 DEF IInv, StackOK, OptionInv
<1>3. Ahead(doc, stack') = Ahead(doc, stack)
  BY <1>1, <1>2, CloseLevel
<1>4. Len(stack') = Len(stack) - 1 /\ Len(stack) \in Nat \ {0}
  BY <1>1, <1>2, TopOK, FrontOf DEF IsStack
<1> DEFINE a == Cardinality(Ahead(doc, stack))
<1>5. a \in Nat
  BY <1>1, TopOK, AheadFinite
<1>6. Work = 2 * a + Len(stack) /\ Work' = 2 * a + (Len(stack) - 1)
  BY <1>1, <1>3, <1>4 DEF Work
<1> HIDE DEF a
<1> QED
  BY <1>4, <1>5, <1>6

\* All nodes but the root are ahead at first.
LEMMA BeginWork ==
  ASSUME Load
  PROVE  Work' \in 0 .. 2 * Len(doc'.kind) - 1
<1>1. doc' \in Documents /\ IsDocument(doc') /\ stack' = << Call(doc', 1) >>
  BY ConfigAssumption DEF ConfigAssumption, Load, Frame, Places, Call
<1>2. Ahead(doc', stack') = Nodes(doc') \ {1}
  BY <1>1, BeginLevels
<1> DEFINE a == Cardinality(Ahead(doc', stack'))
           n == Len(doc'.kind)
<1>3. a \in Nat /\ n \in Nat /\ a < n
  <2>1. 1 \in Nodes(doc') /\ IsFiniteSet(Nodes(doc')) /\ Cardinality(Nodes(doc')) = n /\ n \in Nat
    BY <1>1, NodesOf, AheadFinite
  <2> QED
    BY <1>2, <2>1, Fewer
<1>4. Len(stack') = 1
  BY <1>1
<1>5. Work' = 2 * a + 1
  BY <1>4 DEF Work
<1> HIDE DEF a, n
<1>6. 2 * a + 1 \in 0 .. 2 * n - 1
  BY <1>3
<1> QED
  BY <1>5, <1>6 DEF n

\* The visit of a document of any size and shape comes to an end: its steps use up
\* what is ahead, so that the loader is not kept waiting for ever in DllMain
\* (config.cpp:130-184). With the fairness of the thread this is AttachEnds.
THEOREM Shrinks == Spec => VisitShrinks
<1>1. ASSUME IInv, OptionInv, [Next]_vars
      PROVE  [/\ pc = "load" /\ pc' = "visit" => Work' \in 0 .. 2 * Len(doc'.kind) - 1
              /\ pc = "visit" /\ stack # << >> => Work \in Nat /\ Work' \in 0 .. Work - 1]_vars
  <2> SUFFICES ASSUME Next
               PROVE  /\ pc = "load" /\ pc' = "visit" => Work' \in 0 .. 2 * Len(doc'.kind) - 1
                      /\ pc = "visit" /\ stack # << >> => Work \in Nat /\ Work' \in 0 .. Work - 1
    BY <1>1
  <2>1. ASSUME pc = "load", pc' = "visit" PROVE Load
    BY <2>1 DEF Next, Start, Visit, SetDefault, DefaultsDone, LoadFails, LoadEnds, LogConfig, Read,
            VisitValue, SkipContainer, EnterContainer, Descend, Leave
  <2>2. ASSUME pc = "visit", stack # << >> PROVE Visit
    BY <2>2 DEF Next, Start, SetDefault, DefaultsDone, LoadFails, Load, LoadEnds, LogConfig, Read
  <2> QED
    BY <1>1, <2>1, <2>2, BeginWork, DescentShrinks, LeaveShrinks DEF Visit
<1> QED
  BY <1>1, Invariance, Recorded, PTL DEF Spec, VisitShrinks
=============================================================================
