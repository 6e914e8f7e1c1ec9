------------------------------- MODULE Config --------------------------------
(***************************************************************************)
(* config.cpp, with InitConfig of dllmain.cpp: the options.                *)
(*                                                                         *)
(* While the library is attached the defaults are stored, Wrench.toml is   *)
(* parsed, and its tree is visited by a Parser that stores every value     *)
(* under the path that leads to it.  After that the options are only read. *)
(*                                                                         *)
(* A path is a sequence of segments; KeyWidth gives the bytes a segment    *)
(* takes in the combined key, its terminator included.  A document is the  *)
(* tree that cpptoml returns, its nodes numbered from the root down: node  *)
(* 1 is its root table, and all of an element of an array comes before the *)
(* next, as it is written.                                                 *)
(***************************************************************************)
EXTENDS Integers, Sequences, FiniteSetsExt, SequencesExt, Functions, TLC

CONSTANTS
  MAX_SEGMENTS,   \* length of Parser::m_path
  MAX_PATH_LEN,   \* bytes for a combined key
  LOG_LEN,        \* bytes of the buffer in which LogConfig spells out a key
  Keys,           \* segments that occur in paths
  KeyWidth,       \* KeyWidth[key]: its bytes, one of them the terminator
  Zero,           \* the segment "0" of array elements
  Defaults,       \* the options set first, a sequence of path and value
  Documents,      \* documents that the file may hold
  Lookups         \* the reads of the features: a path and a type

Kinds == {"table", "array", "value"}

Nodes(d) == DOMAIN d.kind

\* The children of a node are pairs of a key and a node.
Places(d, n) == DOMAIN d.children[n]
ChildOf(d, n, i) == d.children[n][i].node

\* The nodes below n, and n itself, are n to End(d)[n].
End(d) ==
  LET end[n \in Nodes(d)] ==
        IF d.children[n] = << >> THEN n ELSE end[ChildOf(d, n, Len(d.children[n]))]
  IN end
Below(d, n) == n .. End(d)[n]

\* No node is a child twice, and the nodes below one are those of its children,
\* one child after the other.
IsTree(d) ==
  /\ End(d) \in [Nodes(d) -> Nodes(d)] /\ End(d)[1] = Len(d.kind)
  /\ \A n \in Nodes(d) :
       /\ n <= End(d)[n]
       /\ n + 1 .. End(d)[n] = UNION {Below(d, ChildOf(d, n, i)) : i \in Places(d, n)}
       /\ \A i, j \in Places(d, n) : i < j => End(d)[ChildOf(d, n, i)] < ChildOf(d, n, j)
       /\ \A m \in Nodes(d) : \A i \in Places(d, n), j \in Places(d, m) :
            ChildOf(d, n, i) = ChildOf(d, m, j) => n = m

\* Values have no children, and a table has one entry of a name.
IsDocument(d) ==
  /\ d.kind \in Seq(Kinds) /\ d.kind # << >> /\ d.kind[1] = "table"
  /\ DOMAIN d.children = Nodes(d) /\ DOMAIN d.value = Nodes(d)
  /\ \A n \in Nodes(d) :
       /\ d.children[n] \in Seq([key : Keys, node : Nodes(d)])
       /\ d.kind[n] = "value" => d.children[n] = << >>
       /\ d.kind[n] = "table" =>
            \A i, j \in Places(d, n) : i < j => d.children[n][i].key # d.children[n][j].key
  /\ IsTree(d)

\* The bytes of the combined key of a path.
Width(path) == FoldSeq(LAMBDA key, bytes : KeyWidth[key] + bytes, 0, path)

\* Every default can be stored, and has the type that it is read with.
IsDefault(option) ==
  /\ Len(option.path) < MAX_SEGMENTS
  /\ Width(option.path) \in 1 .. MAX_PATH_LEN - 1
  /\ \A lookup \in Lookups : lookup.path = option.path => lookup.type = option.value.type

ASSUME ConfigAssumption ==
  /\ MAX_SEGMENTS \in Nat \ {0} /\ MAX_PATH_LEN \in Nat
  /\ LOG_LEN \in Nat /\ LOG_LEN >= MAX_PATH_LEN
  /\ Zero \in Keys
  /\ KeyWidth \in [Keys -> Nat \ {0}]
  /\ Len(Defaults) \in Nat /\ \A j \in 1 .. Len(Defaults) : IsDefault(Defaults[j])
  /\ \A d \in Documents : IsDocument(d)

VARIABLES
  s_options,   \* the stored options: a function from paths to values
  pc,          \* "defaults", "load", "visit", "log", "ready" or "crashed"
  set,         \* defaults stored so far
  doc,         \* the document, NoDocument when there is none
  m_path,      \* Parser::m_path, indexed from 0
  m_index,     \* Parser::m_index
  stack        \* active calls of visit: a node and its children left to visit

parser == <<m_path, m_index, stack>>
vars == <<s_options, pc, set, doc, parser>>

NoValue == [type |-> "none", data |-> ""]
NoDocument == [kind |-> <<"table">>, children |-> << <<>> >>, value |-> <<NoValue>>]
Frame(node) == [node |-> node, left |-> DOMAIN doc.children[node]]

Init ==
  /\ s_options = << >>
  /\ pc = "defaults"
  /\ set = 0
  /\ doc = NoDocument
  /\ m_path = [i \in 0 .. MAX_SEGMENTS - 1 |-> Zero]
  /\ m_index = 0
  /\ stack = << >>

-----------------------------------------------------------------------------
(* Storing. *)

\* The options of one function and, where it has none, of another.
Over(options, others) ==
  [path \in DOMAIN options \cup DOMAIN others |->
     IF path \in DOMAIN options THEN options[path] ELSE others[path]]

Option(path, value) == [p \in {path} |-> value]

\* Mutant: a key that fills the buffer to the last byte is accepted.
FitsExactly(path) == Width(path) \in 1 .. MAX_PATH_LEN

\* CombinePath gives 0, and so no key, for a path that leaves no byte free.
Fits(path) == Width(path) \in 1 .. MAX_PATH_LEN - 1

\* Parser::StoreValue with m_path holding path.
Store(path, value) ==
  s_options' = IF Len(path) < MAX_SEGMENTS /\ Fits(path)
               THEN Over(Option(path, value), s_options) ELSE s_options

\* InitConfig: one config::Set.
SetDefault ==
  /\ pc = "defaults" /\ set < Len(Defaults)
  /\ set' = set + 1
  /\ Store(Defaults[set + 1].path, Defaults[set + 1].value)
  /\ UNCHANGED <<pc, doc, parser>>

-----------------------------------------------------------------------------
(* Load.  The whole file is parsed before anything is stored: a missing    *)
(* file or one that is not TOML leaves the defaults alone.                 *)

DefaultsDone ==
  /\ pc = "defaults" /\ set = Len(Defaults)
  /\ pc' = "load"
  /\ UNCHANGED <<s_options, set, doc, parser>>

LoadFails ==
  /\ pc = "load"
  /\ pc' = "log"
  /\ UNCHANGED <<s_options, set, doc, parser>>

Load ==
  /\ pc = "load"
  /\ pc' = "visit"
  /\ doc' \in Documents
  /\ m_index' = 0
  /\ stack' = << Frame(1)' >>
  /\ UNCHANGED <<s_options, set, m_path>>

Top == stack[Len(stack)]

\* The elements of an array come in order, the entries of a table in any.
Chosen(i) ==
  /\ i \in Top.left
  /\ doc.kind[Top.node] = "array" => \A j \in Top.left : i <= j

Child(i) == doc.children[Top.node][i]

\* The index that names an array element is never incremented.
Segment(i) == IF doc.kind[Top.node] = "array" THEN Zero ELSE Child(i).key

CurrentPath == [i \in 1 .. m_index |-> m_path[i - 1]]

\* Write the segment of child i into m_path and cross the child off.
Descend(i) ==
  /\ pc = "visit" /\ stack # << >> /\ Chosen(i)
  /\ m_path' = [m_path EXCEPT ![m_index] = Segment(i)]

\* Mutant: the same child is visited again and again.
CrossedOffNever(i) == [stack EXCEPT ![Len(stack)].left = @ \cup {i}]

CrossedOff(i) == [stack EXCEPT ![Len(stack)].left = @ \ {i}]

VisitValue(i) ==
  /\ Descend(i)
  /\ doc.kind[Child(i).node] = "value"
  /\ Store(Append(CurrentPath, Segment(i)), doc.value[Child(i).node])
  /\ stack' = CrossedOff(i)
  /\ UNCHANGED <<pc, set, doc, m_index>>

\* A container for whose children m_path has no room is not visited.
SkipContainer(i) ==
  /\ Descend(i)
  /\ doc.kind[Child(i).node] # "value" /\ m_index + 1 = MAX_SEGMENTS
  /\ stack' = CrossedOff(i)
  /\ UNCHANGED <<s_options, pc, set, doc, m_index>>

\* Mutant: only the value, not its container, is held against the limit.
EnterContainerUnchecked(i) ==
  /\ Descend(i)
  /\ doc.kind[Child(i).node] # "value"
  /\ m_index' = m_index + 1
  /\ stack' = Append(CrossedOff(i), Frame(Child(i).node))
  /\ UNCHANGED <<s_options, pc, set, doc>>

EnterContainer(i) ==
  /\ Descend(i)
  /\ doc.kind[Child(i).node] # "value" /\ m_index + 1 < MAX_SEGMENTS
  /\ m_index' = m_index + 1
  /\ stack' = Append(CrossedOff(i), Frame(Child(i).node))
  /\ UNCHANGED <<s_options, pc, set, doc>>

\* Mutant: the segment is not taken back.
LeaveKeepsSegment ==
  /\ pc = "visit" /\ stack # << >> /\ Top.left = {}
  /\ stack' = Front(stack)
  /\ UNCHANGED <<s_options, pc, set, doc, m_path, m_index>>

Leave ==
  /\ pc = "visit" /\ stack # << >> /\ Top.left = {}
  /\ stack' = Front(stack)
  /\ m_index' = IF Len(stack) = 1 THEN m_index ELSE m_index - 1
  /\ UNCHANGED <<s_options, pc, set, doc, m_path>>

LoadEnds ==
  /\ pc = "visit" /\ stack = << >>
  /\ pc' = "log"
  /\ UNCHANGED <<s_options, set, doc, parser>>

Visit ==
  \/ \E i \in 1 .. Len(doc.children[Top.node]) :
       VisitValue(i) \/ SkipContainer(i) \/ EnterContainer(i)
  \/ Leave

-----------------------------------------------------------------------------
(* LogConfig enumerates the options and spells out every key, a colon after *)
(* each segment where the key has a terminator.                            *)

Logged == {path \in DOMAIN s_options : s_options[path].type \in {"bool", "string"}}

LogConfig ==
  /\ pc = "log"
  /\ pc' = IF \E path \in Logged : Width(path) + 1 > LOG_LEN THEN "crashed"
           ELSE "ready"
  /\ UNCHANGED <<s_options, set, doc, parser>>

-----------------------------------------------------------------------------
(* Get and GetBool: an option of another type is read through a null       *)
(* pointer.                                                                *)

\* Mutant: an option that is not there is read as well.
WrongTypeOrMissing(lookup) ==
  \/ lookup.path \notin DOMAIN s_options
  \/ s_options[lookup.path].type # lookup.type

WrongType(lookup) ==
  /\ lookup.path \in DOMAIN s_options
  /\ s_options[lookup.path].type # lookup.type

Read ==
  /\ pc = "ready"
  /\ \E lookup \in Lookups :
       pc' = IF WrongType(lookup) THEN "crashed" ELSE "ready"
  /\ UNCHANGED <<s_options, set, doc, parser>>

Start == SetDefault \/ DefaultsDone \/ LoadFails \/ Load
Next == Start \/ (stack # << >> /\ Visit) \/ LoadEnds \/ LogConfig \/ Read

Spec == Init /\ [][Next]_vars

-----------------------------------------------------------------------------
(* What the options should be: read off the tree as a whole.               *)

Parent(d, n) == CHOOSE p \in Nodes(d) : \E i \in Places(d, p) : ChildOf(d, p, i) = n

Place(d, n) == CHOOSE i \in Places(d, Parent(d, n)) : ChildOf(d, Parent(d, n), i) = n

\* The segment that leads from its parent to node n.
Name(d, n) ==
  IF d.kind[Parent(d, n)] = "array" THEN Zero ELSE d.children[Parent(d, n)][Place(d, n)].key

\* The path from the root to node n of document d.
PathTo(d) ==
  LET to[n \in Nodes(d)] == IF n = 1 THEN << >> ELSE Append(to[Parent(d, n)], Name(d, n))
  IN to

\* Values are stored under paths that are short enough; of several values with
\* the same path, elements of an array, the last one written counts.
Kept(d) ==
  {n \in Nodes(d) : /\ d.kind[n] = "value"
                    /\ Len(PathTo(d)[n]) < MAX_SEGMENTS
                    /\ Width(PathTo(d)[n]) \in 1 .. MAX_PATH_LEN - 1}

\* What the nodes in a set say.
Stored(d, nodes) ==
  [path \in {PathTo(d)[n] : n \in nodes} |->
     d.value[Max({n \in nodes : PathTo(d)[n] = path})]]

Written(d) == Stored(d, Kept(d))

\* What the first defaults say.
DefaultTo(last) ==
  [path \in {Defaults[j].path : j \in 1 .. last} |->
     Defaults[Max({j \in 1 .. last : Defaults[j].path = path})].value]

Default == DefaultTo(Len(Defaults))

-----------------------------------------------------------------------------
(* Correctness. *)

TypeOK ==
  /\ pc \in {"defaults", "load", "visit", "log", "ready", "crashed"}
  /\ set \in 0 .. Len(Defaults)
  /\ doc \in Documents \cup {NoDocument}
  /\ m_path \in [0 .. MAX_SEGMENTS - 1 -> Keys]
  /\ m_index \in 0 .. MAX_SEGMENTS - 1

\* However deep the document, m_path names the container being visited and has
\* room for one more segment: no visit writes past its end, and each takes back
\* what it added (config.cpp:130-146, 173-184).
PathNamesTop ==
  pc = "visit" /\ stack # << >> =>
    /\ m_index = Len(stack) - 1
    /\ m_index < MAX_SEGMENTS
    /\ CurrentPath = PathTo(doc)[Top.node]

\* "The below values are used by default even when not specified": the options
\* the features read are the defaults, each replaced by the value the document
\* has for it, or the defaults alone when the file is missing or broken
\* (README.md:70-71, config.cpp:148-161, 216-235).
OptionsAsWritten ==
  pc \in {"ready", "crashed"} =>
    s_options = IF doc = NoDocument THEN Default ELSE Over(Written(doc), Default)

\* No key outgrows the buffer in which LogConfig spells it out: the limits of two
\* files fit together, to the byte (config.cpp:17-41, dllmain.cpp:336-346).
KeysFitLog == \A path \in DOMAIN s_options : Width(path) + 1 <= LOG_LEN

\* Logging the options never crashes, and reading one does only if the document
\* gave it another type: every default has the type it is read with
\* (config.cpp:237-256, dllmain.cpp:364-373).
CrashNeedsWrongType ==
  pc = "crashed" =>
    \E n \in Nodes(doc), lookup \in Lookups :
      /\ doc.kind[n] = "value" /\ doc.value[n].type # lookup.type
      /\ PathTo(doc)[n] = lookup.path
=============================================================================
