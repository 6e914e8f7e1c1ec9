---------------------------- MODULE Detour_proofs ----------------------------
(***************************************************************************)
(* Proofs about Detour, for any memory, any function in it and any number  *)
(* of threads that execute it.                                             *)
(***************************************************************************)
EXTENDS Detour, TLAPS

Phases == Ended \cup {"begin", "follow", "search", "build", "protect", "tear",
                      "fill", "publish", "keep", "drop"}
Searching == {"begin", "follow", "search", "failed"}
Unpatched == Searching \cup {"build", "protect"}
Owned == {"keep", "drop", "done"}

\* The trampoline has a page of a free block to itself.
Placed(a) ==
  \E b \in layout.blocks : b.free /\ b.from <= a /\ a + Page <= b.to

\* What DetourImpl has done when it is in a phase.
StageInv ==
  /\ layout \in Layouts
  /\ phase \in Phases
  /\ phase \in Searching => buffer = None
  /\ phase \notin Searching => buffer \in Nat /\ Placed(buffer)
  /\ phase \in Unpatched => patched = "no"
  /\ phase = "tear" => patched = "torn"
  /\ phase = "fill" => patched = "jump"
  /\ phase = "publish" => patched = "filled"
  /\ phase \in Owned => patched = "filled" /\ prev = buffer
  /\ phase \notin Owned => prev = None
  /\ temp = IF phase = "keep" THEN buffer ELSE None
  /\ kept = IF phase \in {"drop", "done"} THEN buffer ELSE None
  /\ released = FALSE

-----------------------------------------------------------------------------
(* Pages. *)

LEMMA Multiples ==
  ASSUME NEW P \in Nat \ {0}, NEW m \in Int, NEW n \in Int, P * m < P * n
  PROVE  P * m + P <= P * n
<1>1. m < n
  <2>1. SUFFICES ASSUME n <= m PROVE P * n <= P * m
    BY SMT
  <2>2. PICK d \in Nat : m = n + d
    <3>1. m - n \in Nat /\ m = n + (m - n)
      BY SMT, <2>1
    <3> QED
      BY <3>1
  <2>3. P * m = P * n + P * d /\ P * d \in Nat
    BY SMT, <2>2
  <2> QED
    BY SMT, <2>3
<1>2. PICK d \in Nat : n = m + 1 + d
  <2>1. n - m - 1 \in Nat /\ n = m + 1 + (n - m - 1)
    BY SMT, <1>1
  <2> QED
    BY <2>1
<1>3. P * n = P * m + P + P * d /\ P * d \in Nat
  BY SMT, <1>2
<1> QED
  BY SMT, <1>3

\* The page of an address in a block of pages is in the block.
LEMMA PageInBlock ==
  ASSUME NEW P \in Nat \ {0}, NEW f \in Nat, NEW t \in Nat, NEW p \in Nat,
         f % P = 0, t % P = 0, f <= p, p < t
  PROVE  /\ f <= p - (p % P)
         /\ p - (p % P) + P <= t
         /\ f + P <= t
         /\ p - (p % P) \in Nat
<1> DEFINE q == p \div P  r == p % P  i == f \div P  j == t \div P
<1>1. q \in Nat /\ r \in 0 .. P - 1 /\ p = P * q + r
  BY Z3
<1>2. i \in Nat /\ f = P * i
  BY Z3
<1>3. j \in Nat /\ t = P * j
  BY Z3
<1>4. p % P = r
  OBVIOUS
<1> HIDE DEF q, r, i, j
<1>5. P * q \in Nat /\ P * i \in Nat /\ P * j \in Nat
  BY SMT, <1>1, <1>2, <1>3
<1>6. P * q + P <= P * j
  BY SMT, <1>1, <1>3, <1>5, Multiples
<1>7. P * i <= P * q
  <2>1. SUFFICES ASSUME P * q < P * i PROVE FALSE
    BY SMT, <1>5
  <2>2. P * q + P <= P * i
    BY <1>1, <1>2, <2>1, Multiples
  <2> QED
    BY SMT, <1>1, <1>2, <1>5, <2>2
<1>8. P * i + P <= P * j
  BY SMT, <1>1, <1>2, <1>3, <1>5, <1>6, <1>7
<1> QED
  <2>1. p - r = P * q
    BY SMT, <1>1, <1>5
  <2>2. p - (p % P) = P * q
    BY <1>4, <2>1
  <2> QED
    BY SMT, <1>2, <1>3, <1>5, <1>6, <1>7, <1>8, <2>2

-----------------------------------------------------------------------------
(* The stages of DetourImpl. *)

\* Wherever VirtualAlloc puts the trampoline, it is in one free block.
LEMMA BasesPlaced ==
  ASSUME layout \in Layouts, ~Occupied, NEW a \in Bases
  PROVE  a \in Nat /\ Placed(a)
<1>1. PICK b \in BlockOf(probe) : a \in {b.from, probe - (probe % Page)}
  BY DEF Bases
<1>2. /\ b \in layout.blocks /\ b.free
      /\ probe \in b.from .. b.to - 1
  BY <1>1 DEF BlockOf, Occupied
<1>3. /\ b.from \in Nat /\ b.to \in Nat /\ Page \in Nat \ {0}
      /\ b.from % Page = 0 /\ b.to % Page = 0
  BY <1>2, LayoutAssumption DEF LayoutAssumption
<1>4. probe \in Nat /\ b.from <= probe /\ probe < b.to
  BY SMT, <1>2, <1>3
<1>5. /\ b.from <= probe - (probe % Page)
      /\ probe - (probe % Page) + Page <= b.to
      /\ b.from + Page <= b.to
      /\ probe - (probe % Page) \in Nat
  BY <1>3, <1>4, PageInBlock
<1>6. CASE a = b.from
  BY <1>2, <1>3, <1>5, <1>6 DEF Placed
<1>7. CASE a = probe - (probe % Page)
  BY <1>2, <1>5, <1>7 DEF Placed
<1> QED
  BY <1>1, <1>6, <1>7

LEMMA InitStage == Init => StageInv
BY DEF Init, StageInv, Phases, Ended, Searching, Unpatched, Owned

LEMMA NextStage == ASSUME StageInv, [Next]_vars PROVE StageInv'
<1> USE DEF search, owners, pages, effects, running, Phase
<1>1. CASE UNCHANGED vars
  BY <1>1 DEF vars, StageInv, Placed
<1>2. CASE Begin \/ FollowJump \/ StopFollowing \/ SkipBlock \/ NoMemory
  BY <1>2
  DEF StageInv, Phases, Ended, Searching, Unpatched, Owned, Begin, FollowJump, StopFollowing,
      SkipBlock, NoMemory
<1>3. CASE Allocate
  <2>1. buffer' \in Nat /\ Placed(buffer')
    BY <1>3, BasesPlaced DEF Allocate, StageInv
  <2>2. Placed(buffer)'
    BY <1>3, <2>1 DEF Allocate, Placed
  <2> QED
    BY <1>3, <2>1, <2>2
    DEF Allocate, StageInv, Phases, Ended, Searching, Unpatched, Owned
<1>4. CASE Build \/ Protect \/ WriteJump \/ Publish \/ Keep \/ Drop
  <2>1. UNCHANGED <<layout, buffer>> /\ phase \notin Searching /\ phase' \notin Searching
    BY <1>4 DEF Build, Protect, Patch, WriteJump, Publish, Keep, Drop, Searching
  <2>2. Placed(buffer)' /\ buffer' \in Nat
    BY <2>1 DEF StageInv, Placed
  <2>3. buffer # None
    BY <2>1 DEF StageInv, None
  <2> QED
    BY <1>4, <2>1, <2>2, <2>3
    DEF StageInv, Phases, Ended, Searching, Unpatched, Owned, Build, Protect, Patch, WriteJump,
        Publish, Keep, Drop
<1>5. CASE Fill
  <2>1. UNCHANGED <<layout, src, length, buffer>> /\ phase \notin Searching
    BY <1>5 DEF Fill, Searching
  <2>2. Placed(buffer)' /\ buffer' \in Nat
    BY <2>1 DEF StageInv, Placed
  <2> QED
    BY <1>5, <2>1, <2>2
    DEF StageInv, Phases, Ended, Searching, Unpatched, Owned, Fill
<1>6. ASSUME NEW t \in Threads, ThreadStep(t) PROVE StageInv'
  <2>1. UNCHANGED DetourThread
    BY <1>6
    DEF ThreadStep, DetourThread, Call, Execute, Return, EnterHook, CallPrev, JumpBack, Slide,
        HookReturns, Stray
  <2> QED
    BY <2>1 DEF DetourThread, StageInv, Placed
<1> QED
  BY <1>1, <1>2, <1>3, <1>4, <1>5, <1>6 DEF Next, DetourStep

THEOREM Stages == Spec => []StageInv
BY InitStage, NextStage, PTL DEF Spec

\* A function is patched if and only if *prev is set, and the trampoline then
\* belongs to m_detours alone and is not given back (hooks.cpp:87-103, 153-189).
THEOREM Whole == Spec => []AllOrNothing
<1>1. StageInv => AllOrNothing
  BY DEF StageInv, AllOrNothing, Searching, Unpatched, Owned, None
<1> QED
  BY <1>1, Stages, PTL

-----------------------------------------------------------------------------
(* Pages that can be written. *)

\* What DetourImpl has done to them when it is in a phase.
PagesInv ==
  /\ src \in Int /\ lval \in Int
  /\ phase \in Unpatched => open = layout.open /\ protection = "none"
  /\ phase \in {"tear", "fill"} =>
       \/ open = layout.open /\ protection = "none"
       \/ /\ open = layout.open \cup JumpPages
          /\ protection = IF src \div Page \in layout.open THEN "write" ELSE "read"
  /\ phase \in {"publish"} \cup Owned =>
       open = layout.open \/ (JumpPages \cap layout.open # {} /\ ~(JumpPages \subseteq layout.open))

LEMMA FollowedInt ==
  ASSUME StageInv, src \in Int, lval \in Int, FollowJump
  PROVE  src' \in Int /\ lval' \in Int
<1>1. \A a \in DOMAIN code : code[a].len \in Int /\ code[a].to \in Int
  BY LayoutAssumption DEF LayoutAssumption, StageInv, code
<1>2. src \in DOMAIN code /\ Follows(code, src) \in Int
  BY <1>1 DEF FollowJump, FirstIs, Follows
<1> DEFINE disp == code[src].to - Follows(code, src)
<1>3. disp \in Int
  BY <1>1, <1>2
<1> HIDE DEF disp
<1>4. disp % Byte \in Int /\ lval \div Byte \in Int
  BY <1>3 DEF Byte
<1>5. Operand \in Int
  BY <1>3, <1>4 DEF Operand, disp, Byte
<1> QED
  BY <1>2, <1>5 DEF FollowJump

\* The first page of the jump is one of its pages.
LEMMA FirstPage == ASSUME src \in Int PROVE src \div Page \in JumpPages
<1>1. src \in src .. src + JumpSize - 1
  BY DEF JumpSize
<1> QED
  BY <1>1 DEF JumpPages, Pages

LEMMA NextPages == ASSUME StageInv, PagesInv, [Next]_vars PROVE PagesInv'
<1> USE DEF search, owners, pages, effects, running, Phase
<1>1. CASE FollowJump
  BY <1>1, FollowedInt DEF PagesInv, FollowJump, Unpatched, Searching, Owned
<1>2. CASE Begin \/ StopFollowing \/ SkipBlock \/ Allocate \/ NoMemory \/ Build
  BY <1>2
  DEF PagesInv, Unpatched, Searching, Owned, Begin, StopFollowing, SkipBlock, Allocate, NoMemory,
      Build
<1>3. CASE Protect
  <2>1. /\ phase = "protect" /\ phase' \in {"tear", "crashed"}
        /\ UNCHANGED <<layout, src, lval>>
        /\ open = layout.open /\ protection = "none"
        /\ \/ open' = open \cup JumpPages /\ protection' = FirstProtection
           \/ UNCHANGED pages
    BY <1>3 DEF Protect, Patch, PagesInv, Unpatched
  <2>2. JumpPages' = JumpPages
    BY <2>1 DEF JumpPages
  <2> QED
    BY <2>1, <2>2 DEF PagesInv, FirstProtection, Unpatched, Searching, Owned
<1>4. CASE WriteJump
  <2>1. JumpPages' = JumpPages
    BY <1>4 DEF WriteJump, JumpPages
  <2> QED
    BY <1>4, <2>1 DEF WriteJump, PagesInv, Unpatched, Searching, Owned
<1>5. CASE Fill
  <2>1. /\ phase = "fill" /\ phase' \in {"publish", "crashed"}
        /\ UNCHANGED <<layout, src, lval>>
        /\ phase' = "publish" =>
             open' = IF protection = "read" THEN open \ JumpPages ELSE open
    BY <1>5 DEF Fill
  <2>2. JumpPages' = JumpPages
    BY <2>1 DEF JumpPages
  <2>3. \/ open = layout.open /\ protection = "none"
        \/ /\ open = layout.open \cup JumpPages
           /\ protection = IF src \div Page \in layout.open THEN "write" ELSE "read"
    BY <2>1 DEF PagesInv
  <2>4. src \div Page \in JumpPages
    BY FirstPage DEF PagesInv
  <2>5. phase' = "publish" =>
          \/ open' = layout.open
          \/ JumpPages \cap layout.open # {} /\ ~(JumpPages \subseteq layout.open)
    BY <2>1, <2>3, <2>4
  <2> QED
    BY <2>1, <2>2, <2>5 DEF PagesInv, Unpatched, Searching, Owned
<1>6. CASE Publish \/ Keep \/ Drop
  <2>1. JumpPages' = JumpPages
    BY <1>6 DEF Publish, Keep, Drop, JumpPages
  <2> QED
    BY <1>6, <2>1 DEF Publish, Keep, Drop, PagesInv, Unpatched, Searching, Owned
<1>7. CASE UNCHANGED vars \/ \E t \in Threads : ThreadStep(t)
  <2>1. UNCHANGED <<layout, phase, src, lval, open, protection>>
    BY <1>7
    DEF vars, ThreadStep, DetourThread, Call, Execute, Return, EnterHook, CallPrev, JumpBack,
        Slide, HookReturns, Stray
  <2>2. JumpPages' = JumpPages
    BY <2>1 DEF JumpPages
  <2> QED
    BY <2>1, <2>2 DEF PagesInv
<1> QED
  BY <1>1, <1>2, <1>3, <1>4, <1>5, <1>6, <1>7 DEF Next, DetourStep

\* Whatever pages the moved code lies on and whatever Windows refuses, a detour
\* that returns leaves the protection of the game as it found it, but for a jump
\* on two pages that differ (hooks.cpp:181-185).
THEOREM Restores == Spec => []PagesRestored
<1>1. Init => PagesInv
  <2>1. SUFFICES ASSUME Init PROVE PagesInv
    OBVIOUS
  <2>2. src \in Int /\ lval \in Int
    BY <2>1, LayoutAssumption DEF LayoutAssumption, Init
  <2> QED
    BY <2>1, <2>2 DEF Init, PagesInv, Owned
<1>2. PagesInv => PagesRestored
  BY DEF PagesInv, PagesRestored, Unpatched, Searching, Owned
<1> QED
  BY <1>1, <1>2, NextPages, Stages, PTL DEF Spec

-----------------------------------------------------------------------------
(* The threads of the game, provided FollowJumps found the function. *)

Measured == phase \notin Searching \cup {"build"}

\* Where a thread may be that nothing has harmed: in the game's own code, but
\* not in bytes that were moved; in the replacement; or in the trampoline, at
\* the copy of the instruction that is due or behind the last.
OnTrack(a, d) ==
  \/ a \in {Idle, Hooked}
  \/ /\ a = d
     /\ patched # "no" /\ Moving(a) => a = src /\ phase \in Owned
  \/ a = Hook /\ d = src /\ phase \in Owned
  \/ a \in buffer .. buffer + length /\ d = src + (a - buffer) /\ phase \in Owned

\* Code that cannot move harms any thread, a jump that does not fit only those
\* that meet it.
Excused(a) == ~Movable \/ (a = Lost /\ patched # "no" /\ ~JumpFits)

TrackInv ==
  /\ at \in [Threads -> Int]
  /\ due \in [Threads -> DOMAIN code]
  /\ exposed \in [Threads -> BOOLEAN]
  /\ IF Measured THEN length = AsmLength(src) ELSE length = 0
  /\ \A t \in Threads : exposed[t] \/ Excused(at[t]) \/ OnTrack(at[t], due[t])

\* What AsmLength returns: the first instruction that begins far enough away.
LEMMA Measure ==
  ASSUME layout \in Layouts
  PROVE  /\ layout.final \in DOMAIN code
         /\ AsmLength(layout.final) \in MinSize .. Page - TailSize
         /\ layout.final + AsmLength(layout.final) \in DOMAIN code
         /\ \A b \in DOMAIN code :
              b >= layout.final + MinSize => layout.final + AsmLength(layout.final) <= b
<1> DEFINE S == {b \in DOMAIN code : b >= layout.final + MinSize}
<1>1. /\ layout.final \in DOMAIN code /\ DOMAIN code \subseteq Nat
      /\ \E a \in DOMAIN code :
           /\ a \in layout.final + MinSize .. layout.final + Page - TailSize
           /\ \A b \in DOMAIN code : b >= layout.final + MinSize => a <= b
      /\ Page \in Nat
  BY LayoutAssumption DEF LayoutAssumption, code
<1>2. PICK a \in DOMAIN code :
        /\ a \in layout.final + MinSize .. layout.final + Page - TailSize
        /\ \A b \in DOMAIN code : b >= layout.final + MinSize => a <= b
  BY <1>1
<1>3. layout.final \in Nat /\ a \in Nat /\ DOMAIN code \subseteq Nat
  BY <1>1, <1>2
<1>4. a \in S /\ \A b \in S : a <= b
  BY <1>1, <1>2, <1>3 DEF MinSize, TailSize
<1>5. Min(S) = a
  <2>1. Min(S) \in S /\ \A b \in S : Min(S) <= b
    BY <1>4 DEF Min
  <2>2. Min(S) \in Nat
    BY <1>3, <2>1
  <2> QED
    BY <1>3, <1>4, <2>1, <2>2
<1>6. AsmLength(layout.final) = a - layout.final
  BY <1>5 DEF AsmLength
<1>7. layout.final + AsmLength(layout.final) = a
  BY <1>3, <1>6
<1> QED
  BY <1>1, <1>2, <1>3, <1>6, <1>7 DEF MinSize, TailSize

\* The bytes that move, once DetourImpl has measured them.
LEMMA Moved ==
  ASSUME layout \in Layouts, src = layout.final, length = AsmLength(src)
  PROVE  /\ src \in DOMAIN code /\ src \in Nat
         /\ length \in MinSize .. Page - TailSize
         /\ src + length \in DOMAIN code
         /\ \A a \in DOMAIN code : Moving(a) => Follows(code, a) <= src + length
         /\ \A a : Moving(a) <=> a \in Int /\ src <= a /\ a < src + length
<1>1. DOMAIN code \subseteq Nat /\ Page \in Nat
  BY LayoutAssumption DEF LayoutAssumption, code
<1>2. /\ src \in DOMAIN code
      /\ length \in MinSize .. Page - TailSize
      /\ src + length \in DOMAIN code
  BY Measure
<1>3. src \in Nat /\ length \in Nat
  BY <1>1, <1>2 DEF MinSize, TailSize
<1>4. \A a : Moving(a) <=> a \in Int /\ src <= a /\ a < src + length
  BY <1>3 DEF Moving
<1>5. \A a, b \in DOMAIN code : a < b => Follows(code, a) <= b
  BY LayoutAssumption DEF LayoutAssumption, code
<1> QED
  BY <1>2, <1>3, <1>4, <1>5

\* The trampoline and its end lie apart from the code and from what moves.
LEMMA Apart ==
  ASSUME StageInv, phase \notin Searching, src = layout.final, length = AsmLength(src),
         NEW a \in buffer .. buffer + length
  PROVE  a \in Nat /\ a \notin DOMAIN code /\ ~Moving(a)
<1>1. /\ layout \in Layouts /\ buffer \in Nat /\ Placed(buffer)
  BY DEF StageInv
<1>2. PICK b \in layout.blocks : b.free /\ b.from <= buffer /\ buffer + Page <= b.to
  BY <1>1 DEF Placed
<1>3. /\ b.from \in Nat /\ b.to \in Nat /\ Page \in Nat
      /\ \A c \in DOMAIN code : c \notin b.from .. b.to - 1
  BY <1>1, <1>2, LayoutAssumption DEF LayoutAssumption, code
<1>4. /\ src \in DOMAIN code /\ src \in Nat /\ src + length \in DOMAIN code
      /\ length \in MinSize .. Page - TailSize
      /\ Moving(a) <=> a \in Int /\ src <= a /\ a < src + length
  BY <1>1, Moved
<1>5. a \in Nat /\ length \in Nat /\ length + 24 <= Page
  BY <1>1, <1>3, <1>4 DEF MinSize, TailSize
<1>6. b.from <= a /\ a < b.to /\ b.from + Page <= b.to
  BY <1>1, <1>2, <1>3, <1>5
<1>7. a \notin DOMAIN code
  BY <1>3, <1>5, <1>6
<1>8. ~(src <= a /\ a < src + length)
  <2>1. SUFFICES ASSUME src <= a, a < src + length PROVE FALSE
    OBVIOUS
  <2>2. src \notin b.from .. b.to - 1 /\ src + length \notin b.from .. b.to - 1
    BY <1>3, <1>4
  <2>3. src < b.from /\ b.to <= src + length
    BY <1>3, <1>4, <1>5, <1>6, <2>1, <2>2
  <2> QED
    BY <1>3, <1>4, <1>5, <1>6, <2>3
<1> QED
  BY <1>4, <1>5, <1>7, <1>8

\* A step of DetourImpl that patches nothing.
LEMMA SearchTrack ==
  ASSUME StageInv, TrackInv,
         Begin \/ FollowJump \/ StopFollowing \/ SkipBlock \/ Allocate \/ NoMemory \/ Build
  PROVE  TrackInv'
<1> USE DEF search, owners, pages, effects, running, Phase
<1>1. /\ UNCHANGED <<layout, patched, at, due, exposed>>
      /\ phase \in {"begin", "follow", "search", "build"}
      /\ phase' \in {"follow", "search", "build", "failed", "protect"}
      /\ IF phase' = "protect" THEN length' = AsmLength(src) /\ src' = src
         ELSE UNCHANGED length
  BY DEF Begin, FollowJump, StopFollowing, SkipBlock, Allocate, NoMemory, Build
<1>2. patched = "no" /\ phase \notin Owned
  BY <1>1 DEF StageInv, Unpatched, Searching, Owned
<1>3. IF Measured' THEN length' = AsmLength(src)' ELSE length' = 0
  BY <1>1 DEF TrackInv, Measured, Searching, AsmLength, code
<1>4. \A t \in Threads : Excused(at[t]) => Excused(at[t])'
  BY <1>1, <1>2 DEF Excused, Movable, code, AsmLength
<1>5. \A t \in Threads : OnTrack(at[t], due[t]) => OnTrack(at[t], due[t])'
  BY <1>1, <1>2 DEF OnTrack
<1> QED
  BY <1>1, <1>3, <1>4, <1>5 DEF TrackInv, code

\* A step of DetourImpl that patches, or comes after that.
LEMMA PatchTrack ==
  ASSUME StageInv, TrackInv, Protect \/ WriteJump \/ Fill \/ Publish \/ Keep \/ Drop
  PROVE  TrackInv'
<1> USE DEF search, owners, pages, effects, running, Phase
<1>1. /\ UNCHANGED <<layout, src, length, buffer, at, due>>
      /\ phase \in {"protect", "tear", "fill", "publish", "keep", "drop"}
      /\ phase' \in {"tear", "fill", "publish", "keep", "drop", "done", "crashed"}
      /\ phase \in Owned => phase' \in Owned
      /\ \/ phase = "protect" /\ exposed' = [t \in Threads |-> exposed[t] \/ Moving(at[t])]
         \/ phase # "protect" /\ patched' # "no" /\ UNCHANGED exposed
  BY DEF Protect, Patch, WriteJump, Fill, Publish, Keep, Drop, StageInv, Owned
<1>2. phase = "protect" => patched = "no" /\ phase \notin Owned
  BY DEF StageInv, Unpatched, Owned
<1>3. phase # "protect" => patched # "no"
  BY <1>1 DEF StageInv, Owned
<1>4. \A a : Moving(a)' <=> Moving(a)
  BY <1>1 DEF Moving
<1>5. Measured /\ Measured'
  BY <1>1 DEF Measured, Searching
<1>6. length' = AsmLength(src)'
  BY <1>1, <1>5 DEF TrackInv, AsmLength, code
<1>7. \A t \in Threads : Excused(at[t]) => Excused(at[t])'
  BY <1>1, <1>2, <1>3 DEF Excused, Movable, code, AsmLength, JumpFits, Displacement
<1>8. exposed' \in [Threads -> BOOLEAN]
  BY <1>1 DEF TrackInv, Moving
<1>9. ASSUME NEW t \in Threads PROVE exposed'[t] \/ Excused(at[t])' \/ OnTrack(at[t], due[t])'
  <2>1. exposed[t] \/ Excused(at[t]) \/ OnTrack(at[t], due[t])
    BY DEF TrackInv
  <2>2. CASE exposed[t]
    BY <1>1, <2>2
  <2>3. CASE OnTrack(at[t], due[t]) /\ phase = "protect"
    BY <1>1, <1>2, <1>4, <2>3 DEF OnTrack
  <2>4. CASE OnTrack(at[t], due[t]) /\ phase # "protect"
    BY <1>1, <1>3, <1>4, <2>4 DEF OnTrack
  <2> QED
    BY <1>7, <2>1, <2>2, <2>3, <2>4
<1> QED
  BY <1>1, <1>5, <1>6, <1>8, <1>9 DEF TrackInv, code

\* A step of one thread harms no other.
LEMMA ThreadTrack ==
  ASSUME TrackInv, NEW t \in Threads, NEW a \in Int, NEW d \in DOMAIN code, NEW e \in BOOLEAN,
         UNCHANGED DetourThread,
         at' = [at EXCEPT ![t] = a], due' = [due EXCEPT ![t] = d],
         exposed' = [exposed EXCEPT ![t] = e],
         e \/ Excused(a) \/ OnTrack(a, d)
  PROVE  TrackInv'
<1>1. UNCHANGED <<layout, phase, src, length, buffer, patched, prev>>
  BY DEF DetourThread, search, effects
<1>2. (\A b : Excused(b)' <=> Excused(b)) /\ (Measured' <=> Measured) /\ AsmLength(src)' = AsmLength(src)
  BY <1>1 DEF Excused, Movable, code, AsmLength, JumpFits, Displacement, Measured
<1>3. \A b, c : OnTrack(b, c)' <=> OnTrack(b, c)
  BY <1>1 DEF OnTrack, Moving
<1>4. code' = code
  BY <1>1 DEF code
<1> QED
  BY <1>1, <1>2, <1>3, <1>4 DEF TrackInv

\* Once the function is patched, its moved bytes are known.
LEMMA Patched ==
  ASSUME StageInv, TrackInv, FollowsJumps, patched # "no"
  PROVE  /\ src = layout.final /\ length = AsmLength(src)
         /\ layout \in Layouts /\ phase \notin Searching
         /\ phase # "crashed" => Window \/ phase \in Owned
BY DEF StageInv, TrackInv, FollowsJumps, Unpatched, Searching, Measured, Owned, Window, Phases,
       Ended, None

\* What can move: nothing in it is relative, nothing leads into its middle.
LEMMA MovableMoved ==
  ASSUME Movable, src = layout.final, length = AsmLength(src)
  PROVE  /\ \A a \in DOMAIN code : Moving(a) => code[a].op \in {"plain", "ret"}
         /\ \A a \in DOMAIN code : ~Moving(a) =>
              \A b \in Targets(code, a) : Moving(b) => b = src
         /\ \A c \in layout.calls : Moving(c) => c = src
BY DEF Movable, Moving

\* A thread in the game's own code comes to an instruction of it.
LEMMA Arrives ==
  ASSUME StageInv, TrackInv, FollowsJumps, phase # "crashed", NEW a \in DOMAIN code,
         Movable => (Moving(a) => a = src) \/ patched = "no"
  PROVE  (Window /\ Moving(a)) \/ Excused(a) \/ OnTrack(a, a)
<1>1. SUFFICES ASSUME Movable, patched # "no", Moving(a) PROVE Window \/ (phase \in Owned /\ a = src)
  BY DEF Excused, OnTrack
<1> QED
  BY <1>1, Patched

LEMMA CallTrack ==
  ASSUME StageInv, TrackInv, FollowsJumps, phase # "crashed", NEW t \in Threads, Call(t)
  PROVE  TrackInv'
<1>1. PICK c \in layout.calls : Goto(t, c) /\ due' = [due EXCEPT ![t] = c]
  BY DEF Call
<1>2. c \in DOMAIN code /\ c \in Int
  BY LayoutAssumption DEF LayoutAssumption, code, StageInv
<1>3. at' = [at EXCEPT ![t] = c] /\ at'[t] = c
  BY <1>1 DEF Goto, TrackInv
<1>4. /\ UNCHANGED DetourThread
      /\ exposed' = [exposed EXCEPT ![t] = Window /\ Moving(c)]
  BY <1>3 DEF Call
<1>5. Movable => (Moving(c) => c = src) \/ patched = "no"
  BY Patched, MovableMoved
<1>6. (Window /\ Moving(c)) \/ Excused(c) \/ OnTrack(c, c)
  BY <1>2, <1>5, Arrives
<1>7. (Window /\ Moving(c)) \in BOOLEAN
  BY DEF Window, Moving
<1> QED
  BY <1>1, <1>2, <1>3, <1>4, <1>6, <1>7, ThreadTrack

LEMMA ReturnTrack ==
  ASSUME TrackInv, NEW t \in Threads, Return(t) \/ HookReturns(t)
  PROVE  TrackInv'
<1>1. PICK a \in {Idle, Hooked} : at' = [at EXCEPT ![t] = a]
  BY DEF Return, HookReturns, Goto
<1>2. UNCHANGED DetourThread /\ UNCHANGED <<due, exposed>>
  BY DEF Return, HookReturns
<1>3. due' = [due EXCEPT ![t] = due[t]] /\ exposed' = [exposed EXCEPT ![t] = exposed[t]]
  BY <1>2 DEF TrackInv
<1>4. OnTrack(a, due[t]) /\ a \in Int
  BY DEF OnTrack, Idle, Hooked
<1>5. due[t] \in DOMAIN code /\ exposed[t] \in BOOLEAN
  BY DEF TrackInv
<1> QED
  BY <1>1, <1>2, <1>3, <1>4, <1>5, ThreadTrack

\* The replacement finds the copy of the first instruction behind *prev.
LEMMA CallPrevTrack ==
  ASSUME StageInv, TrackInv, FollowsJumps, NEW t \in Threads, CallPrev(t)
  PROVE  TrackInv'
<1> DEFINE a == IF prev = None THEN Lost ELSE prev
<1>1. at[t] = Hook /\ at' = [at EXCEPT ![t] = a]
  BY DEF CallPrev, Goto
<1>2. UNCHANGED DetourThread /\ UNCHANGED <<due, exposed>>
  BY DEF CallPrev
<1>3. due' = [due EXCEPT ![t] = due[t]] /\ exposed' = [exposed EXCEPT ![t] = exposed[t]]
  BY <1>2 DEF TrackInv
<1>4. a \in Int
  BY DEF StageInv, Lost, None, Searching, Owned
<1>5. due[t] \in DOMAIN code /\ exposed[t] \in BOOLEAN
  BY DEF TrackInv
<1>6. exposed[t] \/ Excused(a) \/ OnTrack(a, due[t])
  <2>1. SUFFICES ASSUME OnTrack(at[t], due[t]) PROVE OnTrack(a, due[t])
    BY <1>1 DEF TrackInv, Excused, Hook, Lost
  <2>2. due[t] \in Nat
    BY <1>5, LayoutAssumption DEF LayoutAssumption, StageInv, code
  <2>3. phase \notin Searching => buffer \in Nat
    BY DEF StageInv
  <2>4. due[t] = src /\ phase \in Owned
    BY <1>1, <2>1, <2>2, <2>3 DEF OnTrack, Hook, Idle, Hooked, Owned, Searching
  <2>5. prev = buffer /\ buffer \in Nat /\ patched # "no"
    BY <2>3, <2>4 DEF StageInv, Owned, Searching
  <2>6. length \in MinSize .. Page - TailSize /\ src \in Nat /\ Page \in Nat
    <3>1. src = layout.final /\ length = AsmLength(src) /\ layout \in Layouts
      BY <2>5, Patched
    <3>2. Page \in Nat
      BY LayoutAssumption DEF LayoutAssumption
    <3> QED
      BY <3>1, <3>2, Moved
  <2>7. a = buffer
    BY <2>5 DEF None
  <2>8. buffer \in buffer .. buffer + length /\ src = src + (buffer - buffer)
    BY <2>5, <2>6 DEF MinSize, TailSize
  <2> QED
    BY <2>4, <2>7, <2>8 DEF OnTrack
<1> HIDE DEF a
<1> QED
  BY <1>1, <1>2, <1>3, <1>4, <1>5, <1>6, ThreadTrack

\* The jump leads a thread whose first instruction is due into the replacement.
LEMMA EnterHookTrack ==
  ASSUME StageInv, TrackInv, FollowsJumps, NEW t \in Threads, EnterHook(t)
  PROVE  TrackInv'
<1> DEFINE a == IF JumpFits /\ ~released THEN Hook ELSE Lost
<1>1. at[t] = src /\ patched # "no" /\ at' = [at EXCEPT ![t] = a]
  BY DEF EnterHook, AtJump, Goto
<1>2. UNCHANGED DetourThread /\ UNCHANGED <<due, exposed>>
  BY DEF EnterHook
<1>3. due' = [due EXCEPT ![t] = due[t]] /\ exposed' = [exposed EXCEPT ![t] = exposed[t]]
  BY <1>2 DEF TrackInv
<1>4. due[t] \in DOMAIN code /\ exposed[t] \in BOOLEAN /\ a \in Int
  BY DEF TrackInv, Hook, Lost
<1>5. /\ src = layout.final /\ length = AsmLength(src) /\ layout \in Layouts
      /\ phase \notin Searching
  BY <1>1, Patched
<1>6. ASSUME OnTrack(at[t], due[t]), JumpFits PROVE OnTrack(a, due[t])
  <2>1. /\ src \in DOMAIN code /\ src \in Nat /\ length \in MinSize .. Page - TailSize
        /\ Moving(src) <=> src \in Int /\ src <= src /\ src < src + length
    BY <1>5, Moved
  <2>2. Moving(src)
    BY <2>1 DEF MinSize
  <2>3. src \notin buffer .. buffer + length
    BY <1>5, <2>1, Apart
  <2>4. due[t] = src /\ phase \in Owned
    BY <1>1, <1>6, <2>1, <2>2, <2>3 DEF OnTrack, Idle, Hooked, Hook
  <2>5. a = Hook
    BY <1>6 DEF StageInv
  <2> QED
    BY <2>4, <2>5 DEF OnTrack
<1>7. at[t] # Lost
  BY <1>1, <1>5, Measure, LayoutAssumption DEF LayoutAssumption, code, Lost
<1>8. exposed[t] \/ Excused(a) \/ OnTrack(a, due[t])
  BY <1>1, <1>6, <1>7 DEF TrackInv, Excused, StageInv
<1> HIDE DEF a
<1> QED
  BY <1>1, <1>2, <1>3, <1>4, <1>8, ThreadTrack

\* Behind the last copy the trampoline goes on where the moved code ends, and
\* no thread that is not exposed slides there over the nops.
LEMMA GoOnTrack ==
  ASSUME StageInv, TrackInv, FollowsJumps, phase # "crashed", NEW t \in Threads,
         JumpBack(t) \/ Slide(t)
  PROVE  TrackInv'
<1>1. /\ at' = [at EXCEPT ![t] = src + length]
      /\ UNCHANGED DetourThread /\ UNCHANGED due
      /\ \/ at[t] = buffer + length /\ length > 0
         \/ at[t] \in src + JumpSize .. src + length - 1 /\ patched = "filled"
  BY DEF JumpBack, Slide, Goto, AtTail, AtNops
<1>2. Measured
  BY <1>1 DEF TrackInv, StageInv, Unpatched, Measured, Searching
<1>3. PICK e \in BOOLEAN : exposed' = [exposed EXCEPT ![t] = e] /\ (exposed[t] => e)
  <2>1. CASE JumpBack(t)
    BY <2>1 DEF JumpBack, Expose, TrackInv
  <2>2. CASE Slide(t)
    BY <2>2 DEF Slide, TrackInv
  <2> QED
    BY <2>1, <2>2
<1>4. /\ src = layout.final /\ length = AsmLength(src) /\ layout \in Layouts
      /\ phase \notin Searching
  BY <1>2 DEF TrackInv, StageInv, FollowsJumps, Measured, Searching
<1>5. /\ src \in Nat /\ length \in MinSize .. Page - TailSize
      /\ src + length \in DOMAIN code
      /\ \A b : Moving(b) <=> b \in Int /\ src <= b /\ b < src + length
  BY <1>4, Moved
<1>6. due' = [due EXCEPT ![t] = due[t]] /\ due[t] \in DOMAIN code
  BY <1>1 DEF TrackInv
<1>7. buffer \in Nat /\ DOMAIN code \subseteq Nat /\ Page \in Nat
  BY <1>4, LayoutAssumption DEF LayoutAssumption, StageInv, code
<1>8. length \in Nat
  BY <1>5, <1>7 DEF MinSize, TailSize
<1>9. \A b \in buffer .. buffer + length : b \notin DOMAIN code /\ ~Moving(b)
  BY <1>4, Apart
<1>10. ASSUME OnTrack(at[t], due[t]) PROVE due[t] = src + length
  <2>1. CASE at[t] = buffer + length
    <3>1. at[t] \in Nat /\ at[t] \in buffer .. buffer + length
      BY <1>7, <1>8, <2>1
    <3>2. due[t] = src + (at[t] - buffer)
      BY <1>6, <1>9, <1>10, <3>1 DEF OnTrack, Idle, Hooked, Hook
    <3> QED
      BY <1>5, <1>7, <1>8, <2>1, <3>2
  <2>2. CASE at[t] \in src + JumpSize .. src + length - 1 /\ patched = "filled"
    <3>1. at[t] \in Nat /\ at[t] # src /\ Moving(at[t])
      BY <1>5, <1>8, <2>2 DEF JumpSize
    <3>2. at[t] \notin buffer .. buffer + length
      BY <1>9, <3>1
    <3> QED
      BY <1>10, <2>2, <3>1, <3>2 DEF OnTrack, Idle, Hooked, Hook
  <2> QED
    BY <1>1, <2>1, <2>2
<1>11. ~Moving(src + length)
  BY <1>5, <1>8
<1>12. at[t] # Lost
  BY <1>1, <1>5, <1>7, <1>8 DEF Lost, JumpSize
<1>13. e \/ Excused(src + length) \/ OnTrack(src + length, due[t])
  BY <1>3, <1>10, <1>11, <1>12 DEF TrackInv, OnTrack, Excused
<1>14. src + length \in Int
  BY <1>5, <1>8
<1> QED
  BY <1>1, <1>3, <1>6, <1>13, <1>14, ThreadTrack

\* The step of a thread in the game's own code.
LEMMA InPlaceTrack ==
  ASSUME StageInv, TrackInv, FollowsJumps, phase # "crashed", NEW t \in Threads,
         Execute(t), at[t] = due[t]
  PROVE  TrackInv'
<1>1. /\ Runs(t)
      /\ \E a \in Targets(code, due[t]) :
           due' = [due EXCEPT ![t] = a] /\ at' = [at EXCEPT ![t] = a]
      /\ exposed' = [exposed EXCEPT ![t] = @ \/ (Window /\ Moving(at'[t]))]
      /\ UNCHANGED DetourThread
  <2>1. PICK a \in Targets(code, due[t]) :
          /\ due' = [due EXCEPT ![t] = a]
          /\ Goto(t, IF at[t] = due[t] THEN a
                     ELSE IF code[due[t]].op # "relative" /\ a = Follows(code, due[t])
                     THEN at[t] + code[due[t]].len
                     ELSE Lost)
    BY DEF Execute
  <2>2. at' = [at EXCEPT ![t] = a]
    BY <2>1 DEF Goto
  <2> QED
    BY <2>1, <2>2 DEF Execute, Expose
<1>2. PICK a \in Targets(code, due[t]) :
        due' = [due EXCEPT ![t] = a] /\ at' = [at EXCEPT ![t] = a]
  BY <1>1
<1>3. due[t] \in DOMAIN code /\ exposed[t] \in BOOLEAN /\ at'[t] = a
  BY <1>2 DEF TrackInv
<1>4. a \in DOMAIN code /\ a \in Int
  BY <1>3, LayoutAssumption DEF LayoutAssumption, StageInv, code
<1>5. DEFINE e == exposed[t] \/ (Window /\ Moving(a))
<1>6. e \in BOOLEAN /\ exposed' = [exposed EXCEPT ![t] = e]
  BY <1>1, <1>3 DEF Window, Moving
<1>7. e \/ Excused(a) \/ OnTrack(a, a)
  <2>1. at[t] # Lost
    BY <1>3, LayoutAssumption DEF LayoutAssumption, StageInv, code, Lost
  <2>2. SUFFICES ASSUME ~exposed[t], Movable, patched # "no", Moving(a),
                        OnTrack(at[t], due[t])
                 PROVE  a = src
    BY <1>4, <2>1, Arrives DEF TrackInv, Excused
  <2> QED
    <3>1. /\ src = layout.final /\ length = AsmLength(src) /\ layout \in Layouts
          /\ phase \notin Searching
      BY <2>2, Patched
    <3>2. due[t] \notin buffer .. buffer + length /\ due[t] \in Nat
      BY <1>3, <3>1, Apart, LayoutAssumption DEF LayoutAssumption, code
    <3>3. Moving(due[t]) => due[t] = src /\ phase \in Owned
      BY <2>2, <3>2 DEF OnTrack, Idle, Hooked, Hook
    <3>4. phase \in Owned => patched = "filled"
      BY DEF StageInv
    <3>5. ~Moving(due[t])
      BY <1>1, <3>3, <3>4 DEF Runs, Overwritten
    <3> QED
      BY <1>3, <2>2, <3>1, <3>5, MovableMoved
<1> HIDE DEF e
<1> QED
  BY <1>1, <1>2, <1>4, <1>6, <1>7, ThreadTrack

\* The step of a thread in the trampoline: the copies follow each other as the
\* instructions do.
LEMMA InTrampolineTrack ==
  ASSUME StageInv, TrackInv, FollowsJumps, NEW t \in Threads,
         Execute(t), at[t] # due[t]
  PROVE  TrackInv'
<1>1. PICK a \in Targets(code, due[t]) :
        /\ due' = [due EXCEPT ![t] = a]
        /\ Goto(t, IF at[t] = due[t] THEN a
                   ELSE IF code[due[t]].op # "relative" /\ a = Follows(code, due[t])
                   THEN at[t] + code[due[t]].len
                   ELSE Lost)
  BY DEF Execute
<1>2. PICK x : /\ at' = [at EXCEPT ![t] = x]
               /\ x = IF code[due[t]].op # "relative" /\ a = Follows(code, due[t])
                      THEN at[t] + code[due[t]].len ELSE Lost
  BY <1>1 DEF Goto
<1>3. /\ Runs(t) /\ code[due[t]].op # "ret"
      /\ UNCHANGED DetourThread
      /\ exposed' = [exposed EXCEPT ![t] = @ \/ (Window /\ Moving(at'[t]))]
  BY DEF Execute, Expose
<1>4. /\ due[t] \in DOMAIN code /\ exposed[t] \in BOOLEAN /\ at[t] \in Int
      /\ layout \in Layouts
  BY DEF TrackInv, StageInv
<1>5. /\ a \in DOMAIN code /\ DOMAIN code \subseteq Nat
      /\ code[due[t]].len \in Nat \ {0}
      /\ Page \in Nat
  BY <1>4, LayoutAssumption DEF LayoutAssumption, code
<1>6. x \in Int
  BY <1>2, <1>4, <1>5 DEF Lost
<1>7. PICK e \in BOOLEAN : exposed' = [exposed EXCEPT ![t] = e] /\ (exposed[t] => e)
  <2>1. exposed[t] \/ (Window /\ Moving(at'[t])) \in BOOLEAN
    BY DEF Window, Moving
  <2> QED
    BY <1>3, <2>1
<1>8. ASSUME Movable, OnTrack(at[t], due[t]) PROVE OnTrack(x, a)
  <2>1. /\ at[t] \in buffer .. buffer + length
        /\ due[t] = src + (at[t] - buffer) /\ phase \in Owned
    BY <1>3, <1>8 DEF OnTrack, Runs, Idle, Hooked, Hook
  <2>2. /\ phase \notin Searching /\ patched # "no" /\ buffer \in Nat
    BY <2>1 DEF StageInv, Owned, Searching
  <2>3. src = layout.final /\ length = AsmLength(src)
    BY <2>2, Patched
  <2>4. /\ src \in Nat /\ length \in MinSize .. Page - TailSize
        /\ src + length \in DOMAIN code
        /\ \A b \in DOMAIN code : Moving(b) => Follows(code, b) <= src + length
        /\ \A b : Moving(b) <=> b \in Int /\ src <= b /\ b < src + length
    BY <1>4, <2>3, Moved
  <2>5. length \in Nat
    BY <1>5, <2>4 DEF MinSize, TailSize
  <2>6. at[t] # buffer + length
    <3>1. at[t] \notin DOMAIN code
      BY <2>1, <2>2, <2>3, Apart
    <3>2. Origin(at[t]) = due[t] /\ Origin(at[t]) # at[t]
      BY <1>3 DEF Runs
    <3>3. Copied(at[t])
      BY <3>2 DEF Origin
    <3> QED
      BY <2>2, <2>5, <3>3 DEF Copied
  <2>7. Moving(due[t])
    BY <2>1, <2>2, <2>4, <2>5, <2>6
  <2>8. code[due[t]].op = "plain"
    BY <1>3, <1>4, <1>8, <2>3, <2>7, MovableMoved
  <2>9. a = due[t] + code[due[t]].len
    BY <2>8 DEF Targets, Follows
  <2>10. x = at[t] + code[due[t]].len
    BY <1>2, <2>8, <2>9 DEF Follows
  <2>11. a <= src + length
    BY <1>4, <2>4, <2>7, <2>9 DEF Follows
  <2>12. x \in buffer .. buffer + length /\ a = src + (x - buffer)
    BY <1>4, <1>5, <2>1, <2>2, <2>4, <2>5, <2>9, <2>10, <2>11
  <2> QED
    BY <2>1, <2>12 DEF OnTrack
<1>9. e \/ Excused(x) \/ OnTrack(x, a)
  BY <1>3, <1>7, <1>8 DEF TrackInv, Excused, Runs, Lost
<1> QED
  BY <1>1, <1>2, <1>3, <1>5, <1>6, <1>7, <1>9, ThreadTrack

\* An address of the game's code is none of the trampoline.
LEMMA NotCopied ==
  ASSUME StageInv, TrackInv, FollowsJumps, NEW a \in DOMAIN code
  PROVE  ~Copied(a)
<1>1. CASE Measured
  <2>1. src = layout.final /\ length = AsmLength(src) /\ phase \notin Searching
    BY <1>1 DEF TrackInv, FollowsJumps, Measured, Searching
  <2>2. layout \in Layouts /\ buffer \in Nat /\ Page \in Nat
    BY <2>1, LayoutAssumption DEF LayoutAssumption, StageInv
  <2>3. length \in Nat
    BY <2>1, <2>2, Moved DEF MinSize, TailSize
  <2>4. a \notin buffer .. buffer + length
    BY <2>1, Apart
  <2> QED
    BY <2>2, <2>3, <2>4 DEF Copied
<1>2. CASE ~Measured
  <2>1. length = 0 /\ buffer \in Nat \cup {None}
    BY <1>2 DEF TrackInv, StageInv
  <2> QED
    BY <2>1 DEF Copied, None
<1> QED
  BY <1>1, <1>2

\* No other thread meets bytes that are not an instruction of its own.
LEMMA StrayTrack ==
  ASSUME StageInv, TrackInv, FollowsJumps, phase # "crashed", NEW t \in Threads, Stray(t)
  PROVE  TrackInv'
<1>1. /\ at[t] >= 0 /\ ~Runs(t) /\ ~AtJump(t) /\ ~AtTail(t)
      /\ at' = [at EXCEPT ![t] = Lost]
      /\ UNCHANGED DetourThread /\ UNCHANGED <<due, exposed>>
  BY DEF Stray, Goto
<1>2. due' = [due EXCEPT ![t] = due[t]] /\ exposed' = [exposed EXCEPT ![t] = exposed[t]]
  BY <1>1 DEF TrackInv
<1>3. /\ due[t] \in DOMAIN code /\ exposed[t] \in BOOLEAN /\ at[t] \in Int
      /\ layout \in Layouts /\ Lost \in Int
  BY DEF TrackInv, StageInv, Lost
<1>4. DOMAIN code \subseteq Nat /\ Page \in Nat
  BY <1>3, LayoutAssumption DEF LayoutAssumption, code
<1>5. ~OnTrack(at[t], due[t])
  <2>1. SUFFICES ASSUME OnTrack(at[t], due[t]) PROVE FALSE
    OBVIOUS
  <2>2. CASE patched = "no"
    <3>1. at[t] = due[t] /\ phase \notin Owned
      BY <1>1, <1>3, <2>1, <2>2 DEF OnTrack, Idle, Hooked, Hook, StageInv
    <3>2. ~Copied(at[t])
      BY <1>3, <1>4, <2>2, <3>1, NotCopied
    <3> QED
      BY <1>1, <2>2, <3>1, <3>2 DEF Runs, Origin, Overwritten
  <2>3. CASE patched # "no"
    <3>1. /\ src = layout.final /\ length = AsmLength(src) /\ phase \notin Searching
      BY <2>3, Patched
    <3>2. /\ src \in Nat /\ length \in MinSize .. Page - TailSize
          /\ \A b : Moving(b) <=> b \in Int /\ src <= b /\ b < src + length
      BY <1>3, <3>1, Moved
    <3>3. \A b \in buffer .. buffer + length : b \notin DOMAIN code /\ ~Moving(b)
      BY <3>1, Apart
    <3>4. buffer \in Nat /\ length \in Nat /\ length >= 16 /\ released = FALSE
      BY <1>4, <3>1, <3>2 DEF StageInv, MinSize, TailSize
    <3>5. \A b : Overwritten(b) => Moving(b)
      BY <3>2, <3>4 DEF Overwritten, JumpSize
    <3>6. CASE at[t] = due[t]
      <4>1. ~Copied(at[t])
        BY <1>3, <3>3, <3>4, <3>6 DEF Copied
      <4>2. Moving(at[t])
        BY <1>1, <3>5, <3>6, <4>1 DEF Runs, Origin
      <4>3. at[t] = src /\ phase \in Owned
        BY <1>1, <1>3, <2>1, <2>3, <3>3, <3>6, <4>2 DEF OnTrack, Idle, Hooked, Hook
      <4> QED
        BY <1>1, <4>3 DEF AtJump, StageInv
    <3>7. CASE at[t] # due[t]
      <4>1. /\ at[t] \in buffer .. buffer + length
            /\ due[t] = src + (at[t] - buffer)
        BY <1>1, <2>1, <3>7 DEF OnTrack, Idle, Hooked, Hook
      <4>2. at[t] # buffer + length
        BY <1>1, <3>4 DEF AtTail, None
      <4>3. Copied(at[t])
        BY <3>4, <4>1, <4>2 DEF Copied, None
      <4> QED
        BY <1>1, <3>3, <3>5, <4>1, <4>3 DEF Runs, Origin
    <3> QED
      BY <3>6, <3>7
  <2> QED
    BY <2>2, <2>3
<1>6. exposed[t] \/ Excused(Lost) \/ OnTrack(Lost, due[t])
  BY <1>1, <1>5 DEF TrackInv, Excused, Lost
<1> QED
  BY <1>1, <1>2, <1>3, <1>6, ThreadTrack

LEMMA InitTrack == Init => TrackInv
<1>1. SUFFICES ASSUME Init PROVE TrackInv
  OBVIOUS
<1>2. layout.entry \in DOMAIN code
  BY <1>1, LayoutAssumption DEF LayoutAssumption, Init, code
<1> QED
  BY <1>1, <1>2 DEF Init, TrackInv, OnTrack, Measured, Searching, Idle

LEMMA NextTrack ==
  ASSUME StageInv, TrackInv, FollowsJumps, [Next]_vars
  PROVE  TrackInv'
<1>1. CASE UNCHANGED vars
  <2>1. UNCHANGED <<layout, phase, src, length, buffer, patched, at, due, exposed>>
    BY <1>1 DEF vars, search, owners, effects, running
  <2>2. (\A a : Excused(a)' <=> Excused(a)) /\ (Measured' <=> Measured) /\ AsmLength(src)' = AsmLength(src)
    BY <2>1 DEF Excused, Movable, code, AsmLength, JumpFits, Displacement, Measured
  <2>3. \A a, d : OnTrack(a, d)' <=> OnTrack(a, d)
    BY <2>1 DEF OnTrack, Moving
  <2> QED
    BY <2>1, <2>2, <2>3 DEF TrackInv, code
<1>2. CASE DetourStep
  BY <1>2, SearchTrack, PatchTrack DEF DetourStep
<1>3. ASSUME phase # "crashed", NEW t \in Threads, ThreadStep(t) PROVE TrackInv'
  BY <1>3, CallTrack, ReturnTrack, CallPrevTrack, EnterHookTrack, GoOnTrack, InPlaceTrack,
     InTrampolineTrack, StrayTrack
  DEF ThreadStep
<1> QED
  BY <1>1, <1>2, <1>3 DEF Next

\* Whatever the function, the memory and the moment at which its threads run:
\* who was not in the moving code between the first byte that is overwritten
\* and *prev goes on with the instruction that is due, if the jumps of the
\* function were followed to where they lead (hooks.cpp:128-189).
THEOREM Unharmed == Spec /\ []FollowsJumps => []CallsUnharmed
<1>1. StageInv /\ TrackInv => CallsUnharmed
  <2>1. SUFFICES ASSUME StageInv, TrackInv, NEW t \in Threads, at[t] = Lost
                 PROVE  exposed[t] \/ ~Movable \/ ~JumpFits
    BY DEF CallsUnharmed
  <2>2. due[t] # Lost
    BY <2>1, LayoutAssumption DEF LayoutAssumption, TrackInv, StageInv, code, Lost
  <2>3. ~OnTrack(at[t], due[t])
    BY <2>1, <2>2 DEF OnTrack, StageInv, Searching, Owned, Idle, Hooked, Hook, Lost
  <2> QED
    BY <2>1, <2>3 DEF TrackInv, Excused
<1> QED
  BY <1>1, InitTrack, NextTrack, Stages, PTL DEF Spec

-----------------------------------------------------------------------------
(* How often the replacement runs. *)

\* On its way from a call to its return a thread comes to the function once:
\* through before to its first instruction, and from there on through after.
Parts(before, after) ==
  /\ before \subseteq DOMAIN code /\ after \subseteq DOMAIN code
  /\ before \cap after = {} /\ layout.calls \subseteq before /\ layout.final \in before
  /\ \A a \in before \ {layout.final} :
       code[a].op # "ret" /\ Targets(code, a) \subseteq before
  /\ \A a \in after \cup {layout.final} : Targets(code, a) \subseteq after

OncePerCall == \E before, after \in SUBSET DOMAIN code : Parts(before, after)

\* Once the detour is done, every call runs the replacement.
Counts(t) == IF late[t] THEN {1} ELSE {0, 1}

Counted(t, before, after) ==
  /\ at[t] = Idle => ran[t] \in Counts(t)
  /\ at[t] \in {Hook, Hooked} => ran[t] = 1
  /\ at[t] = due[t] =>
       \/ due[t] \in before /\ ran[t] = 0
       \/ due[t] \in after /\ ran[t] \in Counts(t)
  /\ at[t] \in buffer .. buffer + length /\ phase \in Owned =>
       ran[t] = 1 /\ due[t] \in after \cup {src}

CountInv(before, after) ==
  /\ Parts(before, after)
  /\ ran \in [Threads -> Int]
  /\ late \in [Threads -> BOOLEAN]
  /\ \A t \in Threads :
       /\ late[t] => phase = "done"
       /\ exposed[t] \/ Excused(at[t]) \/ Counted(t, before, after)

\* DetourImpl has measured the function once anything is patched, and before.
LEMMA Measures ==
  ASSUME StageInv, TrackInv, FollowsJumps, patched # "no" \/ length # 0 \/ phase \in Owned
  PROVE  /\ phase \notin Searching /\ src = layout.final /\ length = AsmLength(src)
         /\ src \in DOMAIN code /\ src \in Nat /\ src + length \in DOMAIN code
         /\ length \in Nat /\ length >= 16 /\ buffer \in Nat
         /\ \A a : Moving(a) <=> a \in Int /\ src <= a /\ a < src + length
         /\ \A a \in buffer .. buffer + length : a \notin DOMAIN code /\ ~Moving(a)
<1>1. Measured
  BY DEF StageInv, TrackInv, Unpatched, Searching, Measured, Owned
<1>2. /\ src = layout.final /\ length = AsmLength(src) /\ layout \in Layouts
      /\ phase \notin Searching /\ buffer \in Nat
  BY <1>1 DEF TrackInv, StageInv, FollowsJumps, Measured, Searching
<1>3. Page \in Nat
  BY LayoutAssumption DEF LayoutAssumption
<1> QED
  BY <1>2, <1>3, Moved, Apart DEF MinSize, TailSize

LEMMA StaysExcused ==
  ASSUME StageInv, DetourStep, NEW a, Excused(a)
  PROVE  Excused(a)'
<1> USE DEF search, owners, pages, effects, running, Phase
<1>1. /\ UNCHANGED layout
      /\ patched # "no" => patched' # "no" /\ UNCHANGED <<src, buffer, length>>
  BY DEF DetourStep, Begin, FollowJump, StopFollowing, SkipBlock, Allocate, NoMemory, Build,
         Protect, Patch, WriteJump, Fill, Publish, Keep, Drop, StageInv, Unpatched, Searching
<1> QED
  BY <1>1 DEF Excused, Movable, code, AsmLength, JumpFits, Displacement

\* A step of DetourImpl leaves the threads where they are.
LEMMA DetourCounts ==
  ASSUME StageInv, TrackInv, FollowsJumps, StageInv', TrackInv', FollowsJumps',
         DetourStep, NEW before, NEW after, CountInv(before, after)
  PROVE  CountInv(before, after)'
<1> USE DEF search, owners, pages, effects, running, Phase
<1>1. /\ UNCHANGED <<layout, at, due, ran, late>>
      /\ phase # "done"
      /\ \A t \in Threads : exposed[t] => exposed'[t]
      /\ phase \in Owned => phase' \in Owned
      /\ phase' \in Owned => UNCHANGED <<src, buffer, length>>
  BY DEF DetourStep, Begin, FollowJump, StopFollowing, SkipBlock, Allocate, NoMemory, Build,
         Protect, Patch, WriteJump, Fill, Publish, Keep, Drop, Owned, TrackInv
<1>2. phase' \in Owned => phase \in Owned \cup {"publish"}
  BY DEF DetourStep, Begin, FollowJump, StopFollowing, SkipBlock, Allocate, NoMemory, Build,
         Protect, Patch, WriteJump, Fill, Publish, Keep, Drop, Owned
<1>3. Parts(before, after)'
  BY <1>1 DEF CountInv, Parts, code
<1>4. ASSUME NEW t \in Threads, ~exposed'[t], ~Excused(at[t])'
      PROVE  Counted(t, before, after)'
  <2>1. ~late[t] /\ ~exposed[t] /\ ~Excused(at[t])
    BY <1>1, <1>4, StaysExcused DEF CountInv
  <2>2. Counted(t, before, after) /\ OnTrack(at[t], due[t]) /\ due[t] \in DOMAIN code
    BY <2>1 DEF CountInv, TrackInv
  <2>3. ASSUME phase' \in Owned, at[t] \in buffer .. buffer + length
        PROVE  phase \in Owned
    <3>1. buffer \in Nat /\ \A a \in buffer .. buffer + length : a \notin DOMAIN code
      <4>1. patched # "no"
        BY <1>2, <2>3 DEF StageInv, Owned
      <4> QED
        BY <4>1, Measures
    <3> QED
      BY <2>2, <2>3, <3>1 DEF OnTrack, Idle, Hooked
  <2> QED
    BY <1>1, <2>1, <2>2, <2>3 DEF Counted, Counts
<1> QED
  BY <1>1, <1>3, <1>4 DEF CountInv

\* A step of one thread does not count for another.
LEMMA ThreadCounts ==
  ASSUME NEW before, NEW after, CountInv(before, after), NEW t \in Threads,
         UNCHANGED DetourThread,
         ran' \in [Threads -> Int], late' \in [Threads -> BOOLEAN], late'[t] => phase = "done",
         \A u \in Threads \ {t} :
           /\ at'[u] = at[u] /\ due'[u] = due[u] /\ ran'[u] = ran[u]
           /\ late'[u] = late[u] /\ exposed'[u] = exposed[u],
         exposed'[t] \/ Excused(at[t])' \/ Counted(t, before, after)'
  PROVE  CountInv(before, after)'
<1>1. UNCHANGED <<layout, phase, src, length, buffer, patched, prev>>
  BY DEF DetourThread, search, effects
<1>2. \A b : Excused(b)' <=> Excused(b)
  BY <1>1 DEF Excused, Movable, code, AsmLength, JumpFits, Displacement
<1>3. Parts(before, after)'
  BY <1>1 DEF CountInv, Parts, code
<1>4. ASSUME NEW u \in Threads \ {t}
      PROVE  exposed'[u] \/ Excused(at[u])' \/ Counted(u, before, after)'
  BY <1>1, <1>2 DEF CountInv, Counted, Counts
<1>5. \A u \in Threads : late'[u] => phase' = "done"
  BY <1>1 DEF CountInv
<1> QED
  BY <1>3, <1>4, <1>5 DEF CountInv

\* A thread that moves was on its way, unless it is excused.
LEMMA OnTheWay ==
  ASSUME StageInv, TrackInv, FollowsJumps, NEW before, NEW after, CountInv(before, after),
         NEW t \in Threads,
         Execute(t) \/ Return(t) \/ EnterHook(t) \/ CallPrev(t) \/ JumpBack(t) \/ Slide(t)
           \/ HookReturns(t),
         ~exposed'[t], ~Excused(at[t])'
  PROVE  /\ at[t] # Lost /\ OnTrack(at[t], due[t]) /\ Counted(t, before, after)
         /\ ~exposed[t] /\ Movable
<1>1. UNCHANGED DetourThread /\ (exposed[t] => exposed'[t])
  BY DEF Execute, Return, EnterHook, CallPrev, JumpBack, Slide, HookReturns, Expose, TrackInv
<1>2. at[t] # Lost
  <2>1. CASE at[t] >= 0 \/ at[t] \in {Hook, Hooked}
    BY <2>1 DEF Lost, Hook, Hooked, TrackInv
  <2>2. CASE AtJump(t) \/ AtNops(t)
    BY <2>2, Measures DEF AtJump, AtNops, Lost, JumpSize
  <2>3. CASE AtTail(t)
    <3>1. length # 0
      BY <2>3 DEF AtTail
    <3> QED
      BY <2>3, <3>1, Measures DEF AtTail, Lost
  <2> QED
    BY <2>1, <2>2, <2>3
    DEF Execute, Return, EnterHook, CallPrev, JumpBack, Slide, HookReturns, Runs
<1>3. Movable
  <2>1. Movable' <=> Movable
    BY <1>1 DEF DetourThread, Movable, code, AsmLength
  <2> QED
    BY <2>1 DEF Excused
<1> QED
  BY <1>1, <1>2, <1>3 DEF TrackInv, CountInv, Excused

\* No thread runs the first instruction in place once the detour is done.
LEMMA NeverLate ==
  ASSUME StageInv, TrackInv, FollowsJumps, NEW before, NEW after, CountInv(before, after),
         NEW t \in Threads, Runs(t), at[t] = due[t], due[t] = layout.final
  PROVE  ~late[t]
<1>1. SUFFICES ASSUME phase = "done" PROVE FALSE
  BY DEF CountInv
<1>2. patched = "filled" /\ phase \in Owned
  BY <1>1 DEF StageInv, Owned
<1>3. Moving(at[t])
  BY <1>2, Measures
<1> QED
  BY <1>2, <1>3 DEF Runs, Overwritten

LEMMA CallCounts ==
  ASSUME StageInv, TrackInv, FollowsJumps, NEW before, NEW after, CountInv(before, after),
         NEW t \in Threads, Call(t)
  PROVE  CountInv(before, after)'
<1>1. PICK c \in layout.calls : at' = [at EXCEPT ![t] = c] /\ due' = [due EXCEPT ![t] = c]
  BY DEF Call, Goto
<1>2. /\ ran' = [ran EXCEPT ![t] = 0] /\ late' = [late EXCEPT ![t] = phase = "done"]
      /\ UNCHANGED DetourThread
      /\ exposed' = [exposed EXCEPT ![t] = Window /\ Moving(at'[t])]
  BY DEF Call
<1>3. c \in before /\ c \in DOMAIN code /\ c \in Nat
  BY <1>1, LayoutAssumption DEF CountInv, Parts, LayoutAssumption, StageInv, code
<1>4. /\ at'[t] = c /\ due'[t] = c /\ ran'[t] = 0 /\ (late'[t] => phase = "done")
      /\ ran' \in [Threads -> Int] /\ late' \in [Threads -> BOOLEAN]
  BY <1>1, <1>2 DEF CountInv, TrackInv
<1>5. phase \in Owned => c \notin buffer .. buffer + length
  BY <1>3, Measures
<1>6. UNCHANGED <<phase, buffer, length>>
  BY <1>2 DEF DetourThread, search
<1>7. Counted(t, before, after)'
  BY <1>3, <1>4, <1>5, <1>6 DEF Counted, Idle, Hook, Hooked
<1>8. \A u \in Threads \ {t} :
        /\ at'[u] = at[u] /\ due'[u] = due[u] /\ ran'[u] = ran[u]
        /\ late'[u] = late[u] /\ exposed'[u] = exposed[u]
  BY <1>1, <1>2 DEF CountInv, TrackInv
<1> QED
  BY <1>2, <1>4, <1>7, <1>8, ThreadCounts

\* A step of a thread that neither calls nor counts.
LEMMA StepCounts ==
  ASSUME StageInv, TrackInv, FollowsJumps, NEW before, NEW after, CountInv(before, after),
         NEW t \in Threads, NEW a \in Int, NEW d \in DOMAIN code,
         UNCHANGED <<ran, late>>, UNCHANGED DetourThread,
         at' = [at EXCEPT ![t] = a], due' = [due EXCEPT ![t] = d],
         \A u \in Threads \ {t} : exposed'[u] = exposed[u],
         ~exposed'[t] /\ ~Excused(at[t])' =>
           /\ a = Idle => ran[t] \in Counts(t)
           /\ a \in {Hook, Hooked} => ran[t] = 1
           /\ a = d => \/ d \in before /\ ran[t] = 0
                       \/ d \in after /\ ran[t] \in Counts(t)
           /\ a \in buffer .. buffer + length /\ phase \in Owned =>
                ran[t] = 1 /\ d \in after \cup {src}
  PROVE  CountInv(before, after)'
<1>1. at'[t] = a /\ due'[t] = d
  BY DEF TrackInv
<1>2. UNCHANGED <<phase, src, buffer, length>>
  BY DEF DetourThread, search
<1>3. exposed'[t] \/ Excused(at[t])' \/ Counted(t, before, after)'
  BY <1>1, <1>2 DEF Counted, Counts
<1>4. \A u \in Threads \ {t} :
        /\ at'[u] = at[u] /\ due'[u] = due[u] /\ ran'[u] = ran[u]
        /\ late'[u] = late[u] /\ exposed'[u] = exposed[u]
  BY DEF TrackInv
<1> QED
  BY <1>3, <1>4, ThreadCounts DEF CountInv

LEMMA ReturnCounts ==
  ASSUME StageInv, TrackInv, FollowsJumps, NEW before, NEW after, CountInv(before, after),
         NEW t \in Threads, Return(t) \/ HookReturns(t)
  PROVE  CountInv(before, after)'
<1>1. PICK a \in {Idle, Hooked} :
        /\ at' = [at EXCEPT ![t] = a]
        /\ \/ Runs(t) /\ code[due[t]].op = "ret" /\ a = IF ran[t] > 0 THEN Hooked ELSE Idle
           \/ at[t] = Hooked /\ a = Idle
  BY DEF Return, HookReturns, Goto
<1>2. UNCHANGED DetourThread /\ UNCHANGED <<due, ran, late, exposed>>
  BY DEF Return, HookReturns
<1>3. due' = [due EXCEPT ![t] = due[t]] /\ due[t] \in DOMAIN code /\ due[t] \in Nat
  BY <1>2, LayoutAssumption DEF TrackInv, LayoutAssumption, StageInv, code
<1>4. phase \in Owned => buffer \in Nat
  BY Measures
<1>5. ASSUME ~exposed'[t], ~Excused(at[t])'
      PROVE  ran[t] \in IF a = Idle THEN Counts(t) ELSE {1}
  <2>1. OnTrack(at[t], due[t]) /\ Counted(t, before, after)
    BY <1>5, OnTheWay
  <2>2. CASE at[t] = Hooked /\ a = Idle
    BY <2>1, <2>2 DEF Counted, Counts
  <2>3. CASE Runs(t) /\ code[due[t]].op = "ret" /\ a = IF ran[t] > 0 THEN Hooked ELSE Idle
    <3>1. CASE at[t] = due[t] /\ due[t] \in before /\ ran[t] = 0
      <4>1. due[t] = layout.final
        BY <2>3, <3>1 DEF CountInv, Parts
      <4> QED
        BY <2>3, <3>1, <4>1, NeverLate DEF Counts
    <3>2. CASE at[t] = due[t] /\ due[t] \in after /\ ran[t] \in Counts(t)
      BY <2>3, <3>2 DEF Counts, Idle, Hooked
    <3>3. CASE at[t] # due[t]
      <4>1. at[t] \in buffer .. buffer + length /\ phase \in Owned
        BY <2>1, <2>3, <3>3 DEF OnTrack, Runs, Idle, Hook, Hooked
      <4> QED
        BY <2>1, <2>3, <4>1 DEF Counted, Idle, Hooked
    <3> QED
      BY <2>1, <3>1, <3>2, <3>3 DEF Counted
  <2> QED
    BY <1>1, <2>2, <2>3
<1>6. a \in Int /\ a # due[t] /\ (phase \in Owned => a \notin buffer .. buffer + length)
  BY <1>3, <1>4 DEF Idle, Hooked
<1>7. ~exposed'[t] /\ ~Excused(at[t])' =>
        (a = Idle => ran[t] \in Counts(t)) /\ (a \in {Hook, Hooked} => ran[t] = 1)
  BY <1>5 DEF Idle, Hook, Hooked
<1> QED
  BY <1>1, <1>2, <1>3, <1>6, <1>7, StepCounts

LEMMA CallPrevCounts ==
  ASSUME StageInv, TrackInv, FollowsJumps, NEW before, NEW after, CountInv(before, after),
         NEW t \in Threads, CallPrev(t)
  PROVE  CountInv(before, after)'
<1> DEFINE a == IF prev = None THEN Lost ELSE prev
<1>1. at[t] = Hook /\ at' = [at EXCEPT ![t] = a]
  BY DEF CallPrev, Goto
<1>2. UNCHANGED DetourThread /\ UNCHANGED <<due, ran, late, exposed>>
  BY DEF CallPrev
<1>3. due' = [due EXCEPT ![t] = due[t]] /\ due[t] \in DOMAIN code /\ due[t] \in Nat
  BY <1>2, LayoutAssumption DEF TrackInv, LayoutAssumption, StageInv, code
<1>4. a = Lost \/ (a = buffer /\ a \in Nat)
  BY DEF StageInv, Searching, Owned
<1>5. phase \in Owned => buffer \in Nat
  BY Measures
<1>6. ASSUME ~exposed'[t], ~Excused(at[t])', a = buffer, a \in Nat
      PROVE  ran[t] = 1 /\ due[t] = src /\ a # due[t]
  <2>1. OnTrack(Hook, due[t]) /\ Counted(t, before, after)
    BY <1>1, <1>6, OnTheWay
  <2>2. phase \notin Searching => buffer \in Nat
    BY DEF StageInv
  <2>3. due[t] = src /\ phase \in Owned
    BY <1>3, <2>1, <2>2 DEF OnTrack, Hook, Idle, Hooked, Owned, Searching
  <2>4. buffer \in buffer .. buffer + length
    BY <2>3, Measures
  <2>5. buffer # due[t]
    BY <1>3, <2>3, <2>4, Measures
  <2> QED
    BY <1>1, <1>6, <2>1, <2>3, <2>5 DEF Counted
<1> HIDE DEF a
<1>7. a \in Int /\ a \notin {Idle, Hook, Hooked}
  BY <1>4 DEF Lost, Idle, Hook, Hooked
<1>8. a = Lost => a # due[t] /\ (phase \in Owned => a \notin buffer .. buffer + length)
  BY <1>3, <1>5 DEF Lost
<1> QED
  BY <1>1, <1>2, <1>3, <1>4, <1>6, <1>7, <1>8, StepCounts

\* The jump counts: behind it is the replacement.
LEMMA EnterHookCounts ==
  ASSUME StageInv, TrackInv, FollowsJumps, NEW before, NEW after, CountInv(before, after),
         NEW t \in Threads, EnterHook(t)
  PROVE  CountInv(before, after)'
<1>1. PICK a \in {Hook, Lost} : at' = [at EXCEPT ![t] = a]
  BY DEF EnterHook, Goto
<1>2. /\ at[t] = src /\ patched # "no" /\ UNCHANGED DetourThread
      /\ UNCHANGED <<due, late, exposed>>
      /\ ran' = [ran EXCEPT ![t] = IF @ < 2 THEN @ + 1 ELSE @]
  BY DEF EnterHook, AtJump
<1>3. /\ src = layout.final /\ src \in DOMAIN code /\ Moving(src) /\ buffer \in Nat
      /\ \A b \in buffer .. buffer + length : ~Moving(b)
  BY <1>2, Measures
<1>4. due[t] \in DOMAIN code /\ due[t] \in Nat /\ src \in Nat
  BY <1>3, LayoutAssumption DEF TrackInv, LayoutAssumption, StageInv, code
<1>5. ran' \in [Threads -> Int] /\ at'[t] = a
  BY <1>1, <1>2 DEF CountInv, TrackInv
<1>6. ASSUME ~exposed'[t], ~Excused(at[t])' PROVE ran'[t] = 1
  <2>1. OnTrack(src, due[t]) /\ Counted(t, before, after)
    BY <1>2, <1>6, OnTheWay
  <2>2. due[t] = src
    BY <1>3, <1>4, <2>1 DEF OnTrack, Idle, Hook, Hooked
  <2>3. ran[t] = 0
    BY <1>2, <1>3, <2>1, <2>2 DEF Counted, CountInv, Parts
  <2> QED
    BY <1>2, <2>3 DEF CountInv
<1>7. UNCHANGED <<phase, buffer, length>>
  BY <1>2 DEF DetourThread, search
<1>8. a \in Int /\ a # due[t] /\ a \notin buffer .. buffer + length /\ a # Idle /\ a # Hooked
  BY <1>3, <1>4 DEF Hook, Lost, Idle, Hooked
<1>9. exposed'[t] \/ Excused(at[t])' \/ Counted(t, before, after)'
  BY <1>2, <1>5, <1>6, <1>7, <1>8 DEF Counted
<1>10. \A u \in Threads \ {t} :
         /\ at'[u] = at[u] /\ due'[u] = due[u] /\ ran'[u] = ran[u]
         /\ late'[u] = late[u] /\ exposed'[u] = exposed[u]
  BY <1>1, <1>2 DEF CountInv, TrackInv
<1> QED
  BY <1>2, <1>5, <1>9, <1>10, ThreadCounts DEF CountInv

\* Whoever comes back from the trampoline has counted.
LEMMA GoOnCounts ==
  ASSUME StageInv, TrackInv, FollowsJumps, NEW before, NEW after, CountInv(before, after),
         NEW t \in Threads, JumpBack(t) \/ Slide(t)
  PROVE  CountInv(before, after)'
<1>1. /\ at' = [at EXCEPT ![t] = src + length]
      /\ UNCHANGED DetourThread /\ UNCHANGED <<due, ran, late>>
      /\ \/ at[t] = buffer + length /\ length # 0
         \/ at[t] \in src + JumpSize .. src + length - 1 /\ patched = "filled"
  BY DEF JumpBack, Slide, Goto, AtTail, AtNops
<1>2. /\ src \in Nat /\ length \in Nat /\ length >= 16 /\ buffer \in Nat
      /\ src + length \in DOMAIN code
      /\ \A b : Moving(b) <=> b \in Int /\ src <= b /\ b < src + length
      /\ \A b \in buffer .. buffer + length : b \notin DOMAIN code /\ ~Moving(b)
  BY <1>1, Measures
<1>3. due' = [due EXCEPT ![t] = due[t]] /\ due[t] \in DOMAIN code
  BY <1>1 DEF TrackInv
<1>4. \A u \in Threads \ {t} : exposed'[u] = exposed[u]
  BY DEF JumpBack, Slide, Expose, TrackInv
<1>5. ASSUME ~exposed'[t], ~Excused(at[t])'
      PROVE  ran[t] = 1 /\ (due[t] = src + length => due[t] \in after)
  <2>1. OnTrack(at[t], due[t]) /\ Counted(t, before, after)
    BY <1>5, OnTheWay
  <2>2. CASE at[t] = buffer + length
    <3>1. at[t] \in Nat /\ at[t] \in buffer .. buffer + length
      BY <1>2, <2>2
    <3>2. phase \in Owned
      BY <1>2, <1>3, <2>1, <3>1 DEF OnTrack, Idle, Hooked, Hook
    <3> QED
      BY <1>2, <2>1, <3>1, <3>2 DEF Counted
  <2>3. CASE at[t] \in src + JumpSize .. src + length - 1 /\ patched = "filled"
    <3>1. at[t] \in Nat /\ at[t] # src /\ Moving(at[t])
      BY <1>2, <2>3 DEF JumpSize
    <3>2. at[t] \notin buffer .. buffer + length
      BY <1>2, <3>1
    <3> QED
      BY <2>1, <2>3, <3>1, <3>2 DEF OnTrack, Idle, Hooked, Hook
  <2> QED
    BY <1>1, <2>2, <2>3
<1>6. /\ src + length \in Int /\ src + length \notin {Idle, Hook, Hooked}
      /\ src + length \notin buffer .. buffer + length
  BY <1>2 DEF Idle, Hook, Hooked
<1> QED
  BY <1>1, <1>3, <1>4, <1>5, <1>6, StepCounts DEF Counts

LEMMA InPlaceCounts ==
  ASSUME StageInv, TrackInv, FollowsJumps, NEW before, NEW after, CountInv(before, after),
         NEW t \in Threads, Execute(t), at[t] = due[t]
  PROVE  CountInv(before, after)'
<1>1. PICK a \in Targets(code, due[t]) :
        due' = [due EXCEPT ![t] = a] /\ at' = [at EXCEPT ![t] = a]
  BY DEF Execute, Goto
<1>2. /\ Runs(t) /\ UNCHANGED DetourThread /\ UNCHANGED <<ran, late>>
      /\ \A u \in Threads \ {t} : exposed'[u] = exposed[u]
  BY DEF Execute, Expose, TrackInv
<1>3. due[t] \in DOMAIN code /\ a \in DOMAIN code /\ a \in Nat
  BY <1>1, LayoutAssumption DEF TrackInv, LayoutAssumption, StageInv, code
<1>4. phase \in Owned => a \notin buffer .. buffer + length
  BY <1>3, Measures
<1>5. ASSUME ~exposed'[t], ~Excused(at[t])'
      PROVE  \/ a \in before /\ ran[t] = 0
             \/ a \in after /\ ran[t] \in Counts(t)
  <2>1. \/ due[t] \in before /\ ran[t] = 0
        \/ due[t] \in after /\ ran[t] \in Counts(t)
    BY <1>5, OnTheWay DEF Counted
  <2>2. CASE due[t] = layout.final /\ ran[t] = 0
    BY <1>1, <1>2, <2>2, NeverLate DEF CountInv, Parts, Counts
  <2>3. CASE due[t] \in before \ {layout.final} /\ ran[t] = 0
    BY <1>1, <2>3 DEF CountInv, Parts
  <2>4. CASE due[t] \in after /\ ran[t] \in Counts(t)
    BY <1>1, <2>4 DEF CountInv, Parts
  <2> QED
    BY <2>1, <2>2, <2>3, <2>4
<1>6. a \in Int /\ a \notin {Idle, Hook, Hooked}
  BY <1>3 DEF Idle, Hook, Hooked
<1> QED
  BY <1>1, <1>2, <1>3, <1>4, <1>5, <1>6, StepCounts

LEMMA InTrampolineCounts ==
  ASSUME StageInv, TrackInv, FollowsJumps, NEW before, NEW after, CountInv(before, after),
         NEW t \in Threads, Execute(t), at[t] # due[t]
  PROVE  CountInv(before, after)'
<1>1. PICK a \in Targets(code, due[t]) :
        /\ due' = [due EXCEPT ![t] = a]
        /\ at' = [at EXCEPT ![t] = IF code[due[t]].op # "relative" /\ a = Follows(code, due[t])
                                   THEN at[t] + code[due[t]].len ELSE Lost]
  BY DEF Execute, Goto
<1>2. PICK x : /\ at' = [at EXCEPT ![t] = x]
               /\ \/ x = Lost
                  \/ x = at[t] + code[due[t]].len /\ a = due[t] + code[due[t]].len
  BY <1>1 DEF Follows
<1>3. /\ Runs(t) /\ UNCHANGED DetourThread /\ UNCHANGED <<ran, late>>
      /\ \A u \in Threads \ {t} : exposed'[u] = exposed[u]
  BY DEF Execute, Expose, TrackInv
<1>4. /\ due[t] \in DOMAIN code /\ a \in DOMAIN code /\ a \in Nat /\ due[t] \in Nat
      /\ at[t] \in Int /\ at[t] >= 0 /\ code[due[t]].len \in Nat
  BY <1>1, <1>3, LayoutAssumption DEF TrackInv, LayoutAssumption, StageInv, code, Runs
<1>5. x \in Int /\ x # a /\ x \notin {Idle, Hook, Hooked}
  BY <1>2, <1>4 DEF Lost, Idle, Hook, Hooked
<1>6. ASSUME ~exposed'[t], ~Excused(at[t])'
      PROVE  ran[t] = 1 /\ a \in after
  <2>1. OnTrack(at[t], due[t]) /\ Counted(t, before, after)
    BY <1>6, OnTheWay
  <2>2. at[t] \in buffer .. buffer + length /\ phase \in Owned
    BY <1>4, <2>1 DEF OnTrack, Idle, Hooked, Hook
  <2>3. ran[t] = 1 /\ due[t] \in after \cup {layout.final}
    BY <2>1, <2>2, Measures DEF Counted
  <2> QED
    BY <1>1, <2>3 DEF CountInv, Parts
<1> QED
  BY <1>1, <1>2, <1>3, <1>4, <1>5, <1>6, StepCounts

\* A thread that is lost no longer counts.
LEMMA StrayCounts ==
  ASSUME StageInv, TrackInv, FollowsJumps, NEW before, NEW after, CountInv(before, after),
         NEW t \in Threads, Stray(t)
  PROVE  CountInv(before, after)'
<1>1. /\ at' = [at EXCEPT ![t] = Lost]
      /\ UNCHANGED DetourThread /\ UNCHANGED <<due, ran, late, exposed>>
  BY DEF Stray, Goto
<1>2. due' = [due EXCEPT ![t] = due[t]] /\ due[t] \in DOMAIN code /\ due[t] \in Nat
  BY <1>1, LayoutAssumption DEF TrackInv, LayoutAssumption, StageInv, code
<1>3. phase \in Owned => Lost \notin buffer .. buffer + length
  BY Measures DEF Lost
<1>4. Lost \in Int /\ Lost # due[t] /\ Lost \notin {Idle, Hook, Hooked}
  BY <1>2 DEF Lost, Idle, Hook, Hooked
<1> QED
  BY <1>1, <1>2, <1>3, <1>4, StepCounts

LEMMA NextCounts ==
  ASSUME StageInv, TrackInv, FollowsJumps, StageInv', TrackInv', FollowsJumps',
         [Next]_vars, NEW before, NEW after, CountInv(before, after)
  PROVE  CountInv(before, after)'
<1>1. CASE UNCHANGED vars
  <2>1. UNCHANGED <<layout, phase, src, length, buffer, patched, at, due, exposed, ran, late>>
    BY <1>1 DEF vars, search, owners, effects, running
  <2>2. \A a : Excused(a)' <=> Excused(a)
    BY <2>1 DEF Excused, Movable, code, AsmLength, JumpFits, Displacement
  <2>3. Parts(before, after)'
    BY <2>1 DEF CountInv, Parts, code
  <2> QED
    BY <2>1, <2>2, <2>3 DEF CountInv, Counted, Counts
<1>2. CASE DetourStep
  BY <1>2, DetourCounts
<1>3. ASSUME NEW t \in Threads, ThreadStep(t) PROVE CountInv(before, after)'
  BY <1>3, CallCounts, ReturnCounts, CallPrevCounts, EnterHookCounts, GoOnCounts,
     InPlaceCounts, InTrampolineCounts, StrayCounts
  DEF ThreadStep
<1> QED
  BY <1>1, <1>2, <1>3 DEF Next

\* Whatever the function and whoever runs it while it is detoured: a call that
\* begins after DetourImpl has returned runs the replacement exactly once, one
\* that began before it at most once, if the code brings every call to the
\* function once and its jumps were followed to where they lead
\* (hooks.cpp:128-131, 170-178).
THEOREM HookedOnce == Spec /\ OncePerCall /\ []FollowsJumps => []CallsHooked
<1> DEFINE Counting == \E before, after \in SUBSET DOMAIN code : CountInv(before, after)
<1>1. Init /\ OncePerCall => Counting
  <2>1. SUFFICES ASSUME Init, NEW before \in SUBSET DOMAIN code, NEW after \in SUBSET DOMAIN code,
                        Parts(before, after)
                 PROVE  CountInv(before, after)
    BY DEF OncePerCall
  <2>2. layout.entry \in DOMAIN code /\ layout.entry \in Nat
    BY <2>1, LayoutAssumption DEF LayoutAssumption, Init, code
  <2> QED
    BY <2>1, <2>2 DEF Init, CountInv, Counted, Counts, Idle, Hook, Hooked, Owned
<1>2. ASSUME StageInv, TrackInv, FollowsJumps, StageInv', TrackInv', FollowsJumps',
             [Next]_vars, Counting
      PROVE  Counting'
  <2>1. PICK before \in SUBSET DOMAIN code, after \in SUBSET DOMAIN code :
          CountInv(before, after)
    BY <1>2
  <2>2. CountInv(before, after)'
    BY <1>2, <2>1, NextCounts
  <2>3. before \in SUBSET DOMAIN code' /\ after \in SUBSET DOMAIN code'
    BY <2>2 DEF CountInv, Parts
  <2> QED
    BY <2>2, <2>3
<1>3. TrackInv /\ Counting => CallsHooked
  <2>1. SUFFICES ASSUME TrackInv, NEW before, NEW after, CountInv(before, after), NEW t \in Threads,
                        at[t] = Idle, ~exposed[t], Movable
                 PROVE  ran[t] \in Counts(t)
    BY DEF CallsHooked, Counts
  <2> QED
    BY <2>1 DEF CountInv, Counted, Excused, Idle, Lost
<1>4. Spec /\ []FollowsJumps => []TrackInv
  BY InitTrack, NextTrack, Stages, PTL DEF Spec
<1> HIDE DEF Counting
<1> QED
  BY <1>1, <1>2, <1>3, <1>4, Stages, PTL DEF Spec

-----------------------------------------------------------------------------
(* Where the trampoline is. *)

LEMMA Wraps ==
  ASSUME NEW S \in Nat \ {0}, NEW n \in Int
  PROVE  /\ n % S \in 0 .. S - 1
         /\ 0 <= n /\ n < S => n % S = n
         /\ -S <= n /\ n < 0 => n % S = n + S
BY Z3

\* The search goes down from the function, until it comes to the lowest address
\* and goes on at the highest, of which nothing is known; the block in which
\* memory was found has an address below the function that a jump reaches.
SearchInv ==
  /\ phase = "search" => probe \in Nat /\ (probe <= src \/ probe = Space - 1)
  /\ phase \notin Searching =>
       \E b \in BlockOf(buffer) :
         b.free /\ \E p \in b.from .. b.to - 1 : p <= src /\ src - Reach < p

\* What InRange says.
LEMMA Ranges ==
  ASSUME NEW p \in Nat, src \in 0 .. Space - 1, p <= src, probe = p, InRange
  PROVE  src - Reach < p
<1>1. Space \in Nat \ {0} /\ Reach \in Nat \ {0} /\ Reach <= Space
  BY LayoutAssumption DEF LayoutAssumption
<1> DEFINE n == src - Reach
<1>2. n \in Int /\ -Space <= n /\ n < Space /\ src \in Nat
  BY <1>1
<1>3. probe > n % Space
  BY DEF InRange
<1> HIDE DEF n
<1>4. /\ 0 <= n => n % Space = n
      /\ n < 0 => n % Space = n + Space
  BY <1>1, <1>2, Wraps
<1>5. n < p
  <2>1. CASE 0 <= n
    BY <1>2, <1>3, <1>4, <2>1
  <2>2. CASE n < 0
    BY <1>2, <2>2
  <2> QED
    BY <1>2, <2>1, <2>2
<1> QED
  BY <1>5 DEF n

LEMMA NextSearch ==
  ASSUME StageInv, SearchInv, FollowsJumps, FollowsJumps', [Next]_vars
  PROVE  SearchInv'
<1> USE DEF search, owners, pages, effects, running, Phase
<1>1. /\ layout \in Layouts /\ Space \in Nat \ {0} /\ Page \in Nat \ {0}
      /\ layout.final \in DOMAIN code /\ DOMAIN code \subseteq 0 .. Space - 1
      /\ \A b \in layout.blocks :
           /\ b.from \in 0 .. Space - 1 /\ b.to \in 0 .. Space - 1
           /\ b.from % Page = 0 /\ b.to % Page = 0
  BY LayoutAssumption DEF LayoutAssumption, StageInv, code
<1>2. CASE StopFollowing
  BY <1>1, <1>2 DEF StopFollowing, SearchInv, FollowsJumps, Searching, code
<1>3. CASE SkipBlock
  <2>1. src \in 0 .. Space - 1 /\ probe \in Nat
    BY <1>1, <1>3 DEF SkipBlock, SearchInv, FollowsJumps
  <2>2. PICK base \in Bases : probe' = (base - 1) % Space
    BY <1>3 DEF SkipBlock, NextBlock
  <2>3. PICK b \in BlockOf(probe) : base \in {b.from, probe - (probe % Page)}
    BY <2>2 DEF Bases
  <2>4. b \in layout.blocks /\ probe \in b.from .. b.to - 1
    BY <2>3 DEF BlockOf
  <2>5. /\ probe < Space - 1 /\ b.from \in Nat /\ b.to \in Nat /\ b.from <= probe /\ probe < b.to
        /\ b.from % Page = 0 /\ b.to % Page = 0
    BY <1>1, <2>4
  <2>6. /\ b.from <= probe - (probe % Page) /\ probe - (probe % Page) \in Nat
        /\ probe % Page \in 0 .. Page - 1
    <3>1. probe % Page \in 0 .. Page - 1
      BY <1>1, <2>1, Wraps
    <3> QED
      BY <1>1, <2>1, <2>5, <3>1, PageInBlock
  <2>7. base \in Nat /\ base <= probe
    BY <2>1, <2>3, <2>5, <2>6
  <2>8. probe <= src
    BY <1>3, <2>5 DEF SkipBlock, SearchInv
  <2>9. probe' \in Nat /\ (probe' <= src \/ probe' = Space - 1)
    <3>1. base - 1 \in Int /\ -Space <= base - 1 /\ base - 1 < Space
      BY <1>1, <2>1, <2>5, <2>7
    <3> DEFINE n == base - 1
    <3>2. n \in Int /\ -Space <= n /\ n < Space /\ probe' = n % Space
      BY <2>2, <3>1
    <3> HIDE DEF n
    <3>3. (0 <= n => n % Space = n) /\ (n < 0 => n % Space = n + Space)
      BY <1>1, <3>2, Wraps
    <3> QED
      BY <1>1, <2>1, <2>7, <2>8, <3>2, <3>3 DEF n
  <2> QED
    BY <1>3, <2>9 DEF SkipBlock, SearchInv, Searching
<1>4. CASE Allocate
  <2>1. src \in 0 .. Space - 1 /\ probe \in Nat
    BY <1>1, <1>4 DEF Allocate, SearchInv, FollowsJumps
  <2>2. PICK b \in BlockOf(probe) : buffer' \in {b.from, probe - (probe % Page)}
    BY <1>4 DEF Allocate, Bases
  <2>3. b \in layout.blocks /\ probe \in b.from .. b.to - 1 /\ b.free
    BY <1>4, <2>2 DEF BlockOf, Allocate, Occupied
  <2>4. /\ probe < Space - 1 /\ b.from \in Nat /\ b.to \in Nat /\ b.from <= probe /\ probe < b.to
        /\ b.from % Page = 0 /\ b.to % Page = 0
    BY <1>1, <2>3
  <2>5. /\ b.from <= probe - (probe % Page) /\ probe - (probe % Page) \in Nat
        /\ probe % Page \in 0 .. Page - 1
    <3>1. probe % Page \in 0 .. Page - 1
      BY <1>1, <2>1, Wraps
    <3> QED
      BY <1>1, <2>1, <2>4, <3>1, PageInBlock
  <2>6. buffer' \in Nat /\ b.from <= buffer' /\ buffer' < b.to
    BY <2>1, <2>2, <2>4, <2>5
  <2>7. probe <= src
    BY <1>4, <2>4 DEF Allocate, SearchInv
  <2>8. src - Reach < probe
    BY <1>4, <2>1, <2>7, Ranges DEF Allocate
  <2>9. b \in BlockOf(buffer)'
    BY <1>4, <2>3, <2>4, <2>6 DEF Allocate, BlockOf
  <2>10. phase' = "build" /\ src' = src
    BY <1>4 DEF Allocate
  <2> QED
    BY <2>3, <2>7, <2>8, <2>9, <2>10 DEF SearchInv
<1>5. CASE UNCHANGED <<layout, src, probe, buffer, phase>>
  BY <1>5 DEF SearchInv, BlockOf
<1>6. CASE /\ UNCHANGED <<layout, src, buffer>> /\ phase' # "search"
           /\ phase \in Searching <=> phase' \in Searching
  BY <1>6 DEF SearchInv, BlockOf
<1>7. CASE phase' \in Searching \ {"search"}
  BY <1>7 DEF SearchInv
<1>8. Begin \/ FollowJump \/ NoMemory => phase' \in Searching \ {"search"}
  BY DEF Begin, FollowJump, NoMemory, Searching
<1>9. Build \/ Protect \/ WriteJump \/ Fill \/ Publish \/ Keep \/ Drop =>
        /\ UNCHANGED <<layout, src, buffer>> /\ phase' # "search"
        /\ phase \in Searching <=> phase' \in Searching
  BY DEF Build, Protect, Patch, WriteJump, Fill, Publish, Keep, Drop, Searching
<1>10. ASSUME NEW t \in Threads, ThreadStep(t)
       PROVE  UNCHANGED <<layout, src, probe, buffer, phase>>
  BY <1>10
  DEF ThreadStep, DetourThread, Call, Execute, Return, EnterHook, CallPrev, JumpBack, Slide,
      HookReturns, Stray
<1>11. UNCHANGED vars => UNCHANGED <<layout, src, probe, buffer, phase>>
  BY DEF vars
<1> QED
  BY <1>2, <1>3, <1>4, <1>5, <1>6, <1>7, <1>8, <1>9, <1>10, <1>11 DEF Next, DetourStep

\* Wherever the free memory is: a jump to the trampoline fails to reach it only
\* if the block it was taken from begins out of reach and ends within it
\* (hooks.cpp:137, 146-147, 177).
THEOREM Reaches == Spec /\ []FollowsJumps => []JumpReaches
<1>1. ASSUME StageInv, TrackInv, FollowsJumps, SearchInv PROVE JumpReaches
  <2> SUFFICES ASSUME patched # "no", ~JumpFits
               PROVE  \E b \in BlockOf(buffer) : b.from < src - Reach /\ src - Reach < b.to
    BY DEF JumpReaches
  <2>1. /\ phase \notin Searching /\ src = layout.final /\ length = AsmLength(src)
        /\ src \in DOMAIN code /\ src \in Nat /\ length \in Nat /\ buffer \in Nat
    BY <1>1, Measures
  <2>2. layout \in Layouts /\ Placed(buffer)
    BY <1>1, <2>1 DEF StageInv
  <2>3. Page \in Nat /\ Reach \in Nat \ {0}
    BY LayoutAssumption DEF LayoutAssumption
  <2>4. length + 24 <= Page
    BY <2>1, <2>2, <2>3, Moved DEF MinSize, TailSize
  <2>5. PICK b \in BlockOf(buffer) :
          b.free /\ \E p \in b.from .. b.to - 1 : p <= src /\ src - Reach < p
    BY <1>1, <2>1 DEF SearchInv
  <2>6. PICK p \in b.from .. b.to - 1 : p <= src /\ src - Reach < p
    BY <2>5
  <2>7. PICK c \in layout.blocks : c.free /\ c.from <= buffer /\ buffer + Page <= c.to
    BY <2>2 DEF Placed
  <2>8. b \in layout.blocks /\ buffer \in b.from .. b.to - 1
    BY <2>5 DEF BlockOf
  <2>9. /\ b.from \in Nat /\ b.to \in Nat /\ c.from \in Nat /\ c.to \in Nat
        /\ src \notin c.from .. c.to - 1 /\ src \notin b.from .. b.to - 1
    BY <2>1, <2>2, <2>5, <2>7, <2>8, LayoutAssumption DEF LayoutAssumption, code
  <2>10. CASE buffer <= src
    <3>1. buffer + Page <= src
      BY <2>1, <2>3, <2>7, <2>9, <2>10
    <3>2. buffer + length + 16 - src - 6 < -Reach
      BY <2>1, <2>3, <2>4, <3>1 DEF JumpFits, Displacement, MinSize, JumpSize
    <3>3. b.from < src - Reach /\ src - Reach < b.to
      BY <2>1, <2>3, <2>6, <2>8, <2>9, <3>2
    <3> QED
      BY <3>3
  <2>11. CASE src < buffer
    BY <2>1, <2>6, <2>8, <2>9, <2>11
  <2> QED
    BY <2>1, <2>10, <2>11
<1>2. Init => SearchInv
  BY DEF Init, SearchInv, Searching
<1>3. Spec /\ []FollowsJumps => []TrackInv
  BY InitTrack, NextTrack, Stages, PTL DEF Spec
<1> QED
  BY <1>1, <1>2, <1>3, NextSearch, Stages, PTL DEF Spec

-----------------------------------------------------------------------------
(* Types. *)

Places == Nat \cup {Idle, Hook, Hooked, Lost}

\* What the search computes with are addresses.
LEMMA SearchTypes ==
  ASSUME StageInv, TypeOK, FollowsJumps', [Next]_vars
  PROVE  src' \in Int /\ lval' \in Int /\ probe' \in 0 .. Space - 1
<1> USE DEF search, owners, pages, effects, running, Phase
<1>1. /\ Space \in Nat \ {0} /\ layout \in Layouts
      /\ layout.final \in 0 .. Space - 1
      /\ DOMAIN code \subseteq 0 .. Space - 1
      /\ \A a \in DOMAIN code : code[a].len \in Int /\ code[a].to \in Int
      /\ \A b \in layout.blocks : b.from \in Int
  BY LayoutAssumption DEF LayoutAssumption, StageInv, code
<1>2. src \in Int /\ lval \in Int /\ probe \in 0 .. Space - 1
  BY DEF TypeOK
<1>3. CASE FollowJump
  <2>1. src \in DOMAIN code /\ Follows(code, src) \in Int
    BY <1>1, <1>2, <1>3 DEF FollowJump, FirstIs, Follows
  <2> DEFINE disp == code[src].to - Follows(code, src)
  <2>2. disp \in Int
    BY <1>1, <2>1
  <2> HIDE DEF disp
  <2>3. disp % Byte \in Int /\ lval \div Byte \in Int
    BY <1>2, <2>2 DEF Byte
  <2>4. Operand \in Int
    BY <1>2, <2>2, <2>3 DEF Operand, disp, Byte
  <2> QED
    BY <1>2, <1>3, <2>1, <2>4 DEF FollowJump
<1>4. CASE StopFollowing
  BY <1>1, <1>2, <1>4 DEF StopFollowing, FollowsJumps
<1>5. CASE SkipBlock
  <2>1. PICK base \in Bases : probe' = (base - 1) % Space
    BY <1>5 DEF SkipBlock, NextBlock
  <2>2. PICK b \in BlockOf(probe) : base \in {b.from, probe - (probe % Page)}
    BY <2>1 DEF Bases
  <2>3. Page \in Nat \ {0}
    BY LayoutAssumption DEF LayoutAssumption
  <2>4. probe \in Int /\ probe % Page \in Int
    BY <1>1, <1>2, <2>3, Wraps
  <2>5. base \in Int
    BY <1>1, <2>2, <2>4 DEF BlockOf
  <2> DEFINE n == base - 1
  <2>6. n \in Int /\ probe' = n % Space
    BY <2>1, <2>5
  <2> HIDE DEF n
  <2>7. n % Space \in 0 .. Space - 1
    BY <1>1, <2>6, Wraps
  <2> QED
    BY <1>2, <1>5, <2>6, <2>7 DEF SkipBlock
<1>6. CASE Begin \/ Allocate \/ NoMemory \/ Build \/ Protect \/ WriteJump \/ Fill \/ Publish
             \/ Keep \/ Drop
  BY <1>2, <1>6
  DEF Begin, Allocate, NoMemory, Build, Protect, Patch, WriteJump, Fill, Publish, Keep, Drop
<1>7. ASSUME NEW t \in Threads, ThreadStep(t) PROVE UNCHANGED <<src, lval, probe>>
  BY <1>7
  DEF ThreadStep, DetourThread, Call, Execute, Return, EnterHook, CallPrev, JumpBack, Slide,
      HookReturns, Stray
<1>8. UNCHANGED vars => UNCHANGED <<src, lval, probe>>
  BY DEF vars
<1> QED
  BY <1>2, <1>3, <1>4, <1>5, <1>6, <1>7, <1>8 DEF Next, DetourStep

\* The threads only come to addresses.
LEMMA ThreadTypes ==
  ASSUME StageInv, TrackInv, FollowsJumps, TypeOK, NEW t \in Threads, ThreadStep(t)
  PROVE  /\ at' \in [Threads -> Places]
         /\ ran' \in [Threads -> 0 .. 2] /\ late' \in [Threads -> BOOLEAN]
<1>1. /\ at \in [Threads -> Places] /\ ran \in [Threads -> 0 .. 2]
      /\ late \in [Threads -> BOOLEAN] /\ due[t] \in DOMAIN code
  BY DEF TypeOK, Places, TrackInv
<1>2. /\ layout \in Layouts /\ DOMAIN code \subseteq Nat /\ layout.calls \subseteq DOMAIN code
      /\ \A a \in DOMAIN code : Targets(code, a) \subseteq DOMAIN code /\ code[a].len \in Nat
  BY LayoutAssumption DEF LayoutAssumption, StageInv, code
<1>3. CASE Call(t)
  BY <1>1, <1>2, <1>3 DEF Call, Goto, Places
<1>4. CASE Execute(t)
  <2>1. PICK a \in Targets(code, due[t]) :
          at' = [at EXCEPT ![t] = IF at[t] = due[t] THEN a
                                  ELSE IF code[due[t]].op # "relative" /\ a = Follows(code, due[t])
                                  THEN at[t] + code[due[t]].len
                                  ELSE Lost]
    BY <1>4 DEF Execute, Goto
  <2>2. a \in Nat /\ code[due[t]].len \in Nat /\ at[t] \in Nat
    BY <1>1, <1>2, <1>4 DEF Execute, Runs, Places, Idle, Hook, Hooked, Lost
  <2>3. at[t] + code[due[t]].len \in Nat
    BY <2>2
  <2>4. at' \in [Threads -> Places]
    BY <1>1, <2>1, <2>2, <2>3 DEF Places
  <2> QED
    BY <1>1, <1>4, <2>4 DEF Execute
<1>5. CASE Return(t) \/ HookReturns(t) \/ Stray(t)
  BY <1>1, <1>5 DEF Return, HookReturns, Stray, Goto, Places
<1>6. CASE EnterHook(t)
  <2>1. at' \in [Threads -> Places]
    BY <1>1, <1>6 DEF EnterHook, Goto, Places
  <2>2. ran' \in [Threads -> 0 .. 2]
    BY <1>1, <1>6 DEF EnterHook
  <2> QED
    BY <1>1, <1>6, <2>1, <2>2 DEF EnterHook
<1>7. CASE CallPrev(t)
  <2>1. prev = None \/ prev \in Nat
    BY DEF StageInv, Searching, Owned
  <2> QED
    BY <1>1, <1>7, <2>1 DEF CallPrev, Goto, Places
<1>8. CASE JumpBack(t) \/ Slide(t)
  <2>1. src + length \in Nat
    <3>1. length # 0 \/ patched # "no"
      BY <1>8 DEF JumpBack, Slide, AtTail, AtNops
    <3> QED
      BY <3>1, Measures
  <2> QED
    BY <1>1, <1>8, <2>1 DEF JumpBack, Slide, Goto, Places
<1> QED
  BY <1>3, <1>4, <1>5, <1>6, <1>7, <1>8 DEF ThreadStep

\* Pages have numbers, like the code on them.
LEMMA PagesTypes ==
  ASSUME StageInv, TrackInv, FollowsJumps, TypeOK, [Next]_vars
  PROVE  open' \subseteq Nat /\ protection' \in {"none", "read", "write"}
<1> USE DEF search, owners, pages, effects, running, Phase
<1>1. CASE Protect
  <2>1. length = AsmLength(src) /\ src = layout.final /\ layout \in Layouts
    BY <1>1 DEF Protect, TrackInv, Measured, Searching, FollowsJumps, StageInv
  <2>2. src \in Nat /\ Page \in Nat \ {0}
    BY <2>1, Moved, LayoutAssumption DEF LayoutAssumption
  <2>3. JumpPages \subseteq Nat
    <3>1. ASSUME NEW b \in src .. src + JumpSize - 1 PROVE b \div Page \in Nat
      <4>1. b \in Nat
        BY <2>2 DEF JumpSize
      <4> QED
        BY Z3, <2>2, <4>1
    <3> QED
      BY <3>1 DEF JumpPages, Pages
  <2> QED
    BY <1>1, <2>3 DEF Protect, TypeOK, FirstProtection
<1>2. CASE Fill
  BY <1>2 DEF Fill, TypeOK
<1>3. CASE ~Protect /\ ~Fill
  <2>1. UNCHANGED pages
    BY <1>3
    DEF vars, Next, DetourStep, Begin, FollowJump, StopFollowing, SkipBlock, Allocate, NoMemory,
        Build, WriteJump, Publish, Keep, Drop, ThreadStep, DetourThread, Call, Execute, Return,
        EnterHook, CallPrev, JumpBack, Slide, HookReturns, Stray
  <2> QED
    BY <2>1 DEF TypeOK
<1> QED
  BY <1>1, <1>2, <1>3

\* Every address is one, whatever the memory looks like and whoever runs what
\* (hooks.cpp:120-190).
THEOREM Types == Spec /\ []FollowsJumps => []TypeOK
<1>1. Spec /\ []FollowsJumps => []TrackInv
  BY InitTrack, NextTrack, Stages, PTL DEF Spec
<1>2. Init => TypeOK
  <2>1. SUFFICES ASSUME Init PROVE TypeOK
    OBVIOUS
  <2>2. /\ layout \in Layouts /\ layout.entry \in DOMAIN code /\ DOMAIN code \subseteq Nat
        /\ Space \in Nat \ {0}
    BY <2>1, LayoutAssumption DEF LayoutAssumption, Init, code
  <2>3. /\ layout.entry \in Int /\ 0 \in 0 .. Space - 1 /\ None \in Nat \cup {None}
        /\ 0 \in 0 .. 2
    BY <2>2
  <2>4. /\ at \in [Threads -> Nat \cup {Idle, Hook, Hooked, Lost}]
        /\ due \in [Threads -> DOMAIN code] /\ ran \in [Threads -> 0 .. 2]
        /\ late \in [Threads -> BOOLEAN] /\ exposed \in [Threads -> BOOLEAN]
    BY <2>1, <2>2, <2>3 DEF Init
  <2>5. /\ src \in Int /\ lval \in Int /\ probe \in 0 .. Space - 1 /\ length \in Nat
        /\ {buffer, prev, temp, kept} \subseteq Nat \cup {None}
    BY <2>1, <2>3 DEF Init
  <2>6. phase = "begin" /\ patched = "no" /\ released = FALSE
    BY <2>1 DEF Init
  <2>7. open \subseteq Nat /\ protection = "none"
    BY <2>1, <2>2, LayoutAssumption DEF LayoutAssumption, Init
  <2> QED
    BY <2>2, <2>4, <2>5, <2>6, <2>7 DEF TypeOK
<1>3. ASSUME StageInv, TrackInv, FollowsJumps, TypeOK, StageInv', TrackInv', FollowsJumps',
             [Next]_vars
      PROVE  TypeOK'
  <2>1. src' \in Int /\ lval' \in Int /\ probe' \in 0 .. Space - 1
    BY <1>3, SearchTypes
  <2>2. /\ at' \in [Threads -> Places]
        /\ ran' \in [Threads -> 0 .. 2] /\ late' \in [Threads -> BOOLEAN]
    <3>1. CASE \E t \in Threads : ThreadStep(t)
      BY <1>3, <3>1, ThreadTypes
    <3>2. CASE DetourStep \/ UNCHANGED vars
      <4>1. UNCHANGED running
        BY <3>2
        DEF vars, DetourStep, Begin, FollowJump, StopFollowing, SkipBlock, Allocate, NoMemory,
            Build, Protect, Patch, WriteJump, Fill, Publish, Keep, Drop, running, effects
      <4> QED
        BY <1>3, <4>1 DEF running, TypeOK, Places
    <3> QED
      BY <1>3, <3>1, <3>2 DEF Next
  <2>3. patched' \in {"no", "torn", "jump", "filled"}
    BY <1>3
    DEF TypeOK, vars, Next, DetourStep, Begin, FollowJump, StopFollowing, SkipBlock, Allocate,
        NoMemory, Build, Protect, Patch, WriteJump, Fill, Publish, Keep, Drop, effects, owners, Phase,
        ThreadStep, DetourThread, Call, Execute, Return, EnterHook, CallPrev, JumpBack, Slide,
        HookReturns, Stray
  <2>4. length' \in Nat
    <3>1. CASE Build
      <4>1. src = layout.final /\ layout \in Layouts /\ Page \in Nat
        BY <1>3, <3>1, LayoutAssumption
        DEF LayoutAssumption, Build, Phase, FollowsJumps, StageInv
      <4> QED
        BY <3>1, <4>1, Measure DEF Build, MinSize, TailSize
    <3>2. CASE ~Build
      <4>1. length' = length
        BY <1>3, <3>2
        DEF vars, Next, DetourStep, Begin, FollowJump, StopFollowing, SkipBlock, Allocate,
            NoMemory, Protect, Patch, WriteJump, Fill, Publish, Keep, Drop, search, ThreadStep,
            DetourThread, Call, Execute, Return, EnterHook, CallPrev, JumpBack, Slide,
            HookReturns, Stray
      <4> QED
        BY <1>3, <4>1 DEF TypeOK
    <3> QED
      BY <3>1, <3>2
  <2>5. /\ layout' \in Layouts /\ phase' \in Phases /\ released' \in BOOLEAN
        /\ {buffer', prev', temp', kept'} \subseteq Nat \cup {None}
    BY <1>3 DEF StageInv, Searching, Owned
  <2>6. due' \in [Threads -> DOMAIN code'] /\ exposed' \in [Threads -> BOOLEAN]
    BY <1>3 DEF TrackInv
  <2>7. open' \subseteq Nat /\ protection' \in {"none", "read", "write"}
    BY <1>3, PagesTypes
  <2> QED
    BY <2>1, <2>2, <2>3, <2>4, <2>5, <2>6, <2>7 DEF TypeOK, Phases, Places
<1> QED
  BY <1>1, <1>2, <1>3, Stages, PTL DEF Spec

-----------------------------------------------------------------------------
(* Following the jumps. *)

IsJump(a) == code[a].op \in {"jump", "short"}
Disp(a) == code[a].to - Follows(code, a)

\* The instructions of path jump from the function to the final one.  What
\* udis86 keeps of an operand is what a jump of one byte would have in its upper
\* bytes: nothing, if it is the first, or the upper bytes of the jump before.
Leading(path) ==
  /\ path \subseteq DOMAIN code /\ layout.entry \in path
  /\ \A a \in path : IF IsJump(a) THEN code[a].to \in path ELSE a = layout.final
  /\ \A a \in path : code[a].op = "short" =>
       /\ a = layout.entry => Disp(a) \div Byte = 0
       /\ \A b \in path :
            IsJump(b) /\ code[b].to = a => Disp(b) \div Byte = Disp(a) \div Byte

JumpsLead == \E path \in SUBSET DOMAIN code : Leading(path)

\* The operand is that of the jump that led to src.
Carried(path) ==
  \/ src = layout.entry /\ lval = 0
  \/ \E b \in path : IsJump(b) /\ code[b].to = src /\ lval = Disp(b)

FollowInv ==
  \E path \in SUBSET DOMAIN code :
    /\ Leading(path)
    /\ IF phase \in {"begin", "follow"} THEN src \in path /\ Carried(path)
       ELSE src = layout.final

\* Bytes above the lowest and the lowest make the number.
LEMMA LowByte ==
  ASSUME NEW m \in Int, NEW n \in Int, m \div Byte = n \div Byte
  PROVE  (m \div Byte) * Byte + (n % Byte) = n
BY Z3 DEF Byte

\* The operand of a jump that is followed is the one in the code.
LEMMA OperandRight ==
  ASSUME layout \in Layouts, NEW path \in SUBSET DOMAIN code, Leading(path), src \in path,
         Carried(path), IsJump(src)
  PROVE  /\ Operand = Disp(src)
         /\ Follows(code, src) + Operand = code[src].to
<1>1. \A a \in path : /\ a \in Int /\ code[a].to \in Int
                      /\ Follows(code, a) \in Int /\ Disp(a) \in Int
  BY LayoutAssumption DEF LayoutAssumption, code, Follows, Disp
<1>2. CASE code[src].op = "short"
  <2>1. lval \in Int /\ lval \div Byte = Disp(src) \div Byte
    <3>1. CASE src = layout.entry /\ lval = 0
      <4>1. 0 \div Byte = 0
        BY SMT DEF Byte
      <4> QED
        BY <1>2, <3>1, <4>1 DEF Leading
    <3>2. CASE \E b \in path : IsJump(b) /\ code[b].to = src /\ lval = Disp(b)
      BY <1>1, <1>2, <3>2 DEF Leading
    <3> QED
      BY <3>1, <3>2 DEF Carried
  <2>2. (lval \div Byte) * Byte + (Disp(src) % Byte) = Disp(src)
    BY <1>1, <2>1, LowByte
  <2>3. Operand = (lval \div Byte) * Byte + (Disp(src) % Byte)
    BY <1>2 DEF Operand, FirstIs, Disp
  <2> QED
    BY <1>1, <2>2, <2>3 DEF Disp
<1>3. CASE code[src].op # "short"
  <2>1. Operand = Disp(src)
    BY <1>3 DEF Operand, FirstIs, Disp
  <2> QED
    BY <1>1, <2>1 DEF Disp
<1> QED
  BY <1>2, <1>3

LEMMA NextFollow == ASSUME StageInv, FollowInv, [Next]_vars PROVE FollowInv'
<1>1. PICK path \in SUBSET DOMAIN code :
        /\ Leading(path)
        /\ IF phase \in {"begin", "follow"} THEN src \in path /\ Carried(path)
           ELSE src = layout.final
  BY DEF FollowInv
<1>2. layout \in Layouts
  BY DEF StageInv
<1>3. ASSUME UNCHANGED layout
      PROVE  path \in SUBSET DOMAIN code' /\ Leading(path)'
  BY <1>1, <1>3 DEF code, Leading, IsJump, Disp
<1>4. CASE FollowJump
  <2>1. /\ phase = "follow" /\ phase' = "follow" /\ UNCHANGED layout
        /\ src \in path /\ Carried(path) /\ IsJump(src)
        /\ lval' = Operand /\ src' = Follows(code, src) + Operand
    BY <1>1, <1>4 DEF FollowJump, Phase, FirstIs, IsJump
  <2>2. lval' = Disp(src) /\ src' = code[src].to
    BY <1>1, <1>2, <2>1, OperandRight
  <2>3. src' \in path
    BY <1>1, <2>1, <2>2 DEF Leading
  <2>4. Carried(path)'
    BY <2>1, <2>2 DEF Carried, IsJump, Disp, code
  <2> QED
    BY <1>3, <2>1, <2>3, <2>4 DEF FollowInv
<1>5. CASE StopFollowing
  <2>1. src \in path /\ ~IsJump(src)
    BY <1>1, <1>5 DEF StopFollowing, Phase, FirstIs, IsJump
  <2>2. src = layout.final
    BY <1>1, <2>1 DEF Leading
  <2> QED
    BY <1>3, <1>5, <2>2 DEF FollowInv, StopFollowing, Phase
<1>6. CASE Begin
  <2>1. /\ phase = "begin" /\ phase' = "follow" /\ UNCHANGED <<layout, src, lval>>
    BY <1>6 DEF Begin, Phase, search
  <2>2. src' \in path /\ Carried(path)'
    BY <1>1, <2>1 DEF Carried, IsJump, Disp, code
  <2> QED
    BY <1>3, <2>1, <2>2 DEF FollowInv
<1>7. CASE /\ UNCHANGED <<layout, src, lval>>
           /\ \/ phase' = phase
              \/ {phase, phase'} \cap {"begin", "follow"} = {}
  <2>1. Carried(path) => Carried(path)'
    BY <1>7 DEF Carried, IsJump, Disp, code
  <2> QED
    BY <1>1, <1>3, <1>7, <2>1 DEF FollowInv
<1>8. SkipBlock \/ Allocate \/ NoMemory \/ Build \/ Protect \/ WriteJump \/ Fill \/ Publish
        \/ Keep \/ Drop =>
        UNCHANGED <<layout, src, lval>> /\ {phase, phase'} \cap {"begin", "follow"} = {}
  BY DEF SkipBlock, Allocate, NoMemory, Build, Protect, Patch, WriteJump, Fill, Publish, Keep, Drop,
         Phase, search
<1>9. ASSUME NEW t \in Threads, ThreadStep(t) PROVE UNCHANGED <<layout, src, lval, phase>>
  BY <1>9
  DEF ThreadStep, DetourThread, search, Call, Execute, Return, EnterHook, CallPrev, JumpBack,
      Slide, HookReturns, Stray
<1>10. UNCHANGED vars => UNCHANGED <<layout, src, lval, phase>>
  BY DEF vars, search
<1> QED
  BY <1>4, <1>5, <1>6, <1>7, <1>8, <1>9, <1>10 DEF Next, DetourStep

\* Wherever the jumps of the function lead, DetourImpl detours the final
\* function, as long as none of them has one byte of displacement with other
\* upper bytes than the operand before it (hooks.cpp:45-66, 128-131).
THEOREM Follow == Spec /\ JumpsLead => []FollowsJumps
<1>1. Init /\ JumpsLead => FollowInv
  BY DEF Init, JumpsLead, FollowInv, Leading, Carried
<1>2. FollowInv => FollowsJumps
  BY DEF FollowInv, FollowsJumps
<1> QED
  BY <1>1, <1>2, NextFollow, Stages, PTL DEF Spec

\* So everything that is said of the detour holds in such a memory outright.
THEOREM Detours ==
  Spec /\ JumpsLead => [](TypeOK /\ CallsUnharmed /\ JumpReaches /\ AllOrNothing)
BY Follow, Types, Unharmed, Reaches, Whole, PTL

\* And with code that brings each call to the function once, every later call
\* is hooked, also one that comes through the function that only jumps
\* (hooks.cpp:128-131, 170-178).
THEOREM Hooks == Spec /\ JumpsLead /\ OncePerCall => []CallsHooked
BY Follow, HookedOnce, PTL

-----------------------------------------------------------------------------
(* Coming to an end. *)

\* How many stages DetourImpl has before it.
Ahead ==
  CASE phase = "begin" -> 11
    [] phase = "follow" -> 10
    [] phase = "search" -> 9
    [] phase = "build" -> 8
    [] phase = "protect" -> 7
    [] phase = "tear" -> 6
    [] phase = "fill" -> 5
    [] phase = "publish" -> 4
    [] phase = "keep" -> 3
    [] phase = "drop" -> 2
    [] OTHER -> 0

\* How much memory the search has before it: it goes down, and from the lowest
\* block to the highest address, of which VirtualQuery tells nothing.
Unsearched == IF probe = Space - 1 THEN 0 ELSE probe + 1

\* No step but a jump that is followed leaves DetourImpl where it was: it comes to
\* a later stage, or searches below the block that it searched (hooks.cpp:137-151).
StepsForward ==
  [][DetourStep =>
       \/ phase = "follow" /\ UNCHANGED phase
       \/ Ahead' < Ahead
       \/ phase = "search" /\ UNCHANGED phase /\ Unsearched' < Unsearched]_vars

LEMMA SearchGoesDown ==
  ASSUME StageInv, probe \in 0 .. Space - 1, SkipBlock
  PROVE  Unsearched' < Unsearched
<1>1. /\ Space \in Nat \ {0} /\ Page \in Nat \ {0}
      /\ \A b \in layout.blocks :
           /\ b.from \in 0 .. Space - 1 /\ b.to \in 0 .. Space - 1 /\ b.from < b.to
           /\ b.from % Page = 0 /\ b.to % Page = 0
  BY LayoutAssumption DEF LayoutAssumption, StageInv
<1>2. PICK base \in Bases : probe' = (base - 1) % Space
  BY DEF SkipBlock, NextBlock
<1>3. PICK b \in layout.blocks : /\ base \in {b.from, probe - (probe % Page)}
                                 /\ probe \in b.from .. b.to - 1
  BY <1>2 DEF Bases, BlockOf
<1>4. /\ b.from \in Nat /\ b.to \in Nat /\ b.to <= Space - 1 /\ probe \in Nat
      /\ b.from <= probe /\ probe < b.to
      /\ b.from % Page = 0 /\ b.to % Page = 0
  BY <1>1, <1>3
<1>5. base \in Nat /\ base <= probe
  <2>1. probe % Page \in 0 .. Page - 1
    BY <1>1, <1>4, Wraps
  <2>2. b.from <= probe - (probe % Page) /\ probe - (probe % Page) \in Nat
    BY <1>1, <1>4, PageInBlock
  <2> QED
    BY <1>3, <1>4, <2>1, <2>2
<1> DEFINE n == base - 1
<1>6. n \in Int /\ -Space <= n /\ n < Space /\ probe' = n % Space
  BY <1>1, <1>2, <1>4, <1>5
<1> HIDE DEF n
<1>7. (0 <= n => probe' = n) /\ (n < 0 => probe' = n + Space)
  BY <1>1, <1>6, Wraps
<1>8. (base > 0 /\ probe' = base - 1) \/ probe' = Space - 1
  BY <1>1, <1>5, <1>6, <1>7 DEF n
<1> QED
  BY <1>1, <1>4, <1>5, <1>8 DEF Unsearched

\* Whatever the memory, the wrench cannot be in DetourImpl for more steps than
\* there are jumps to follow, blocks below the function and stages: the part of
\* DetourEnds that needs no fairness (hooks.cpp:45-66, 137-190).
THEOREM Forward == Spec /\ JumpsLead => StepsForward
<1>1. ASSUME StageInv, TypeOK, [Next]_vars
      PROVE  [DetourStep =>
                \/ phase = "follow" /\ UNCHANGED phase
                \/ Ahead' < Ahead
                \/ phase = "search" /\ UNCHANGED phase /\ Unsearched' < Unsearched]_vars
  <2>1. probe \in 0 .. Space - 1
    BY <1>1 DEF TypeOK
  <2>2. SkipBlock => phase = "search" /\ UNCHANGED phase /\ Unsearched' < Unsearched
    BY <1>1, <2>1, SearchGoesDown DEF SkipBlock, Phase
  <2>3. FollowJump => phase = "follow" /\ UNCHANGED phase
    BY DEF FollowJump, Phase
  <2>4. Begin \/ StopFollowing \/ Allocate \/ NoMemory \/ Build => Ahead' < Ahead
    BY SMT DEF Begin, StopFollowing, Allocate, NoMemory, Build, Phase, Ahead
  <2>5. Protect \/ WriteJump \/ Fill \/ Publish \/ Keep \/ Drop => Ahead' < Ahead
    BY SMT DEF Protect, Patch, WriteJump, Fill, Publish, Keep, Drop, Phase, Ahead
  <2> QED
    BY <2>2, <2>3, <2>4, <2>5 DEF DetourStep
<1> QED
  BY <1>1, Follow, Types, Stages, PTL DEF Spec, StepsForward
=============================================================================
