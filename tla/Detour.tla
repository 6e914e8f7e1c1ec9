------------------------------- MODULE Detour --------------------------------
(***************************************************************************)
(* hooks.cpp: DetourImpl diverts a function of the running game to a       *)
(* function of the wrench.                                                 *)
(*                                                                         *)
(* The first instructions of the function, at least MinSize bytes, are     *)
(* copied to a trampoline and overwritten with a jump; the replacement     *)
(* calls the trampoline, which goes on behind the bytes that moved.        *)
(* Nothing stops the other threads of the game while that happens: the     *)
(* module runs them instruction by instruction.                            *)
(*                                                                         *)
(* Memory is a layout: the instructions that can be reached, as a function *)
(* of their addresses, the blocks of pages, of which some are free, and    *)
(* the pages that can be written.                                          *)
(* What disassembles an instruction is udis86 (external).                  *)
(***************************************************************************)
EXTENDS Integers, FiniteSetsExt

CONSTANTS
  Threads,   \* the threads that call the function
  Layouts,   \* the memories to start from, see LayoutAssumption
  Space,     \* number of addresses, for 2^64
  Reach,     \* how far a jump reaches, for 2^31
  Page       \* size of a page, for 2^12

MinSize == 16
JumpSize == 6
TailSize == 24   \* of the trampoline: the jump back and the address of the replacement
Byte == 256

\* "jump" and "short" jump with four bytes and with one byte of displacement,
\* "branch" may jump, "relative" takes an address relative to its own, as a
\* "call" does, "plain" does nothing of the kind.
Ops == {"plain", "jump", "short", "branch", "relative", "ret"}

Follows(code, a) == a + code[a].len
Targets(code, a) ==
  CASE code[a].op = "ret" -> {}
    [] code[a].op \in {"jump", "short"} -> {code[a].to}
    [] code[a].op = "branch" -> {code[a].to, Follows(code, a)}
    [] OTHER -> {Follows(code, a)}

\* Instructions do not overlap and no free memory holds any; the code that moves
\* and what goes with it takes no more than a page.  The highest address belongs
\* to the system, which VirtualQuery tells nothing of.
ASSUME LayoutAssumption ==
  /\ {Space, Reach, Page} \subseteq Nat \ {0} /\ Reach <= Space
  /\ \A l \in Layouts :
       /\ DOMAIN l.code \subseteq 0 .. Space - 1
       /\ \A a \in DOMAIN l.code :
            /\ l.code[a].op \in Ops /\ l.code[a].len \in Nat \ {0} /\ l.code[a].to \in Int
            /\ Targets(l.code, a) \subseteq DOMAIN l.code
            /\ \A b \in DOMAIN l.code : a < b => Follows(l.code, a) <= b
       /\ l.calls \subseteq DOMAIN l.code /\ l.entry \in l.calls /\ l.final \in l.calls
       /\ l.open \subseteq Nat
       /\ \E a \in DOMAIN l.code :
            /\ a \in l.final + MinSize .. l.final + Page - TailSize
            /\ \A b \in DOMAIN l.code : b >= l.final + MinSize => a <= b
       /\ \A b \in l.blocks :
            /\ {b.from, b.to} \subseteq 0 .. Space - 1 /\ b.from < b.to
            /\ b.from % Page = 0 /\ b.to % Page = 0
            /\ b.free => \A a \in DOMAIN l.code : a \notin b.from .. b.to - 1

None == -1      \* a null pointer
Idle == -2      \* a thread outside the function
Hook == -3      \* a thread in the replacement, before it calls *prev
Hooked == -4    \* and after that
Lost == -5      \* a thread that runs something else than the game's code

VARIABLES
  layout,    \* the memory
  phase,     \* where DetourImpl is
  src,       \* the function, as far as its jumps are followed
  lval,      \* the operand that udis86 keeps from one instruction to the next
  probe,     \* the address to look for free memory at
  buffer,    \* the trampoline
  length,    \* how many bytes move
  patched,   \* what the moved bytes hold: "no", "torn", "jump" or "filled"
  prev,      \* *prev
  temp,      \* m_buffer of the DetourBuffer that is returned
  kept,      \* m_buffer of the one in m_detours
  released,  \* the trampoline was given back
  open,      \* the pages that can be written
  protection,\* what VirtualProtect says the first page was before, "none" if it failed
  at,        \* at[t]: the address thread t executes next
  due,       \* due[t]: the instruction of the game that is due in t
  ran,       \* history: ran[t]: runs of the replacement in the call of t
  late,      \* history: late[t]: the call of t began after the detour was done
  exposed    \* history: exposed[t]: t was in moving code during the window

search == <<src, lval, probe, buffer, length>>
owners == <<temp, kept, released>>
pages == <<open, protection>>
effects == <<patched, prev, owners, pages>>
running == <<at, due, ran, late>>
vars == <<layout, phase, search, effects, running, exposed>>

code == layout.code

Init ==
  /\ layout \in Layouts
  /\ phase = "begin"
  /\ src = layout.entry
  /\ lval = 0
  /\ probe = 0
  /\ buffer = None
  /\ length = 0
  /\ patched = "no"
  /\ prev = None
  /\ temp = None /\ kept = None /\ released = FALSE
  /\ open = layout.open /\ protection = "none"
  /\ at = [t \in Threads |-> Idle]
  /\ due = [t \in Threads |-> layout.entry]
  /\ ran = [t \in Threads |-> 0]
  /\ late = [t \in Threads |-> FALSE]
  /\ exposed = [t \in Threads |-> FALSE]

Phase(from, to) == phase = from /\ phase' = to

Moving(a) == a \in src .. src + length - 1

\* From the first byte that is overwritten until *prev is set.
Window == phase \in {"tear", "fill", "publish"}

-----------------------------------------------------------------------------
(* FollowJumps. *)

Begin ==
  /\ Phase("begin", "follow")
  /\ prev' = None
  /\ UNCHANGED <<layout, search, patched, owners, pages, running, exposed>>

FirstIs(ops) == src \in DOMAIN code /\ code[src].op \in ops

\* udis86 writes a displacement of one byte over the lowest byte of the operand
\* only, but FollowJumps always reads four bytes of it.
Operand ==
  LET disp == code[src].to - Follows(code, src) IN
  IF FirstIs({"short"}) THEN (lval \div Byte) * Byte + (disp % Byte) ELSE disp

\* Mutant: only one jump is followed.
FollowOneJump ==
  /\ FirstIs({"jump", "short"})
  /\ Phase("follow", "search")
  /\ lval' = Operand
  /\ src' = Follows(code, src) + Operand
  /\ probe' = src'
  /\ UNCHANGED <<layout, buffer, length, effects, running, exposed>>

FollowJump ==
  /\ FirstIs({"jump", "short"})
  /\ Phase("follow", "follow")
  /\ lval' = Operand
  /\ src' = Follows(code, src) + Operand
  /\ UNCHANGED <<layout, probe, buffer, length, effects, running, exposed>>

\* Another instruction, one that cannot be decoded, or a jump through memory.
StopFollowing ==
  /\ ~FirstIs({"jump", "short"})
  /\ Phase("follow", "search")
  /\ probe' = src
  /\ UNCHANGED <<layout, src, lval, buffer, length, effects, running, exposed>>

-----------------------------------------------------------------------------
(* Looking for memory, downwards from the function. *)

\* Mutant: the whole address space is searched.
InRangeAnywhere == TRUE

\* Unsigned: for a function in the lowest part of memory nothing is in range.
InRange == probe > (src - Reach) % Space

BlockOf(a) == {b \in layout.blocks : a \in b.from .. b.to - 1}

\* VirtualQuery may give the page that was asked for or the block it is in.
Bases == UNION {{b.from, probe - (probe % Page)} : b \in BlockOf(probe)}

\* Mutant: the search goes on at the first address of the block.
NextBlockSame(base) == base

\* Mutant: the address does not wrap.
NextBlockSigned(base) == base - 1

NextBlock(base) == (base - 1) % Space

Occupied == \E b \in BlockOf(probe) : ~b.free

\* A free block may be refused by VirtualAlloc.
SkipBlock ==
  /\ InRange
  /\ Phase("search", "search")
  /\ \E base \in Bases : probe' = NextBlock(base)
  /\ UNCHANGED <<layout, src, lval, buffer, length, effects, running, exposed>>

Allocate ==
  /\ InRange /\ ~Occupied
  /\ Phase("search", "build")
  /\ buffer' \in Bases
  /\ UNCHANGED <<layout, src, lval, probe, length, effects, running, exposed>>

NoMemory ==
  /\ ~InRange \/ BlockOf(probe) = {}
  /\ Phase("search", "failed")
  /\ UNCHANGED <<layout, search, effects, running, exposed>>

-----------------------------------------------------------------------------
(* Building the trampoline and patching the function. *)

\* Mutant: exactly as many bytes as the jump back takes.
AsmLengthExact(a) == MinSize

\* udis86 reports where the last instruction began: whole instructions, of
\* which there is always one that begins at MinSize or later.
AsmLength(a) == Min({b \in DOMAIN code : b >= a + MinSize}) - a

Build ==
  /\ Phase("build", "protect")
  /\ length' = AsmLength(src)
  /\ UNCHANGED <<layout, src, lval, probe, buffer, effects, running, exposed>>

\* The displacement of the jump, as a signed number of half the width.
Displacement == buffer + length + MinSize - src - JumpSize
JumpFits == Displacement \in -Reach .. Reach - 1

\* The pages of n bytes.
Pages(a, n) == {b \div Page : b \in a .. a + n - 1}

JumpPages == Pages(src, JumpSize)
RestPages == Pages(src + JumpSize, length - JumpSize)

FirstProtection == IF src \div Page \in open THEN "write" ELSE "read"

\* From here on every thread in the moving code is exposed.
Patch ==
  /\ IF JumpPages \subseteq open' THEN phase' = "tear" /\ patched' = "torn"
     ELSE phase' = "crashed" /\ UNCHANGED patched
  /\ exposed' = [t \in Threads |-> exposed[t] \/ Moving(at[t])]
  /\ UNCHANGED <<layout, search, prev, owners, running>>

\* Mutant: all the bytes that move are made writable.
ProtectAll ==
  /\ phase = "protect"
  /\ \/ open' = open \cup Pages(src, length) /\ protection' = FirstProtection
     \/ UNCHANGED pages
  /\ Patch

\* Windows may refuse, which nobody looks at; then what counts is whether the
\* game had made its code writable itself.
Protect ==
  /\ phase = "protect"
  /\ \/ open' = open \cup JumpPages /\ protection' = FirstProtection
     \/ UNCHANGED pages
  /\ Patch

WriteJump ==
  /\ Phase("tear", "fill")
  /\ patched' = "jump"
  /\ UNCHANGED <<layout, search, prev, owners, pages, running, exposed>>

\* The second VirtualProtect gives all the pages what the first had, and does
\* nothing if the first failed; Windows does not refuse to take rights away.
Fill ==
  /\ phase = "fill"
  /\ \/ /\ RestPages \subseteq open
        /\ phase' = "publish" /\ patched' = "filled"
        /\ open' = IF protection = "read" THEN open \ JumpPages ELSE open
     \/ /\ ~(RestPages \subseteq open)
        /\ phase' = "crashed" /\ UNCHANGED <<patched, open>>
  /\ UNCHANGED <<layout, search, prev, owners, protection, running, exposed>>

Publish ==
  /\ Phase("publish", "keep")
  /\ prev' = buffer
  /\ temp' = buffer
  /\ UNCHANGED <<layout, search, patched, kept, released, pages, running, exposed>>

\* Mutant: the DetourBuffer that was moved from keeps its pointer.
KeepCopies ==
  /\ Phase("keep", "drop")
  /\ kept' = temp
  /\ UNCHANGED <<layout, search, patched, prev, temp, released, pages, running, exposed>>

\* The DetourBuffer moves into m_detours, which empties the one that was
\* returned before its destructor runs.
Keep ==
  /\ Phase("keep", "drop")
  /\ kept' = temp
  /\ temp' = None
  /\ UNCHANGED <<layout, search, patched, prev, released, pages, running, exposed>>

Drop ==
  /\ Phase("drop", "done")
  /\ released' = (temp # None)
  /\ UNCHANGED <<layout, search, patched, prev, temp, kept, pages, running, exposed>>

-----------------------------------------------------------------------------
(* A thread of the game, one instruction at a time. *)

Copied(a) == buffer # None /\ ~released /\ a \in buffer .. buffer + length - 1

\* The instruction of the game that is executed at address a.
Origin(a) == IF Copied(a) THEN src + (a - buffer) ELSE a

Overwritten(a) ==
  \/ patched \in {"torn", "jump"} /\ a \in src .. src + JumpSize - 1
  \/ patched = "filled" /\ Moving(a)

Runs(t) == at[t] >= 0 /\ ~Overwritten(at[t]) /\ Origin(at[t]) = due[t]

AtJump(t) == at[t] = src /\ patched \in {"jump", "filled"}
AtNops(t) == at[t] \in src + JumpSize .. src + length - 1 /\ patched = "filled"
AtTail(t) == buffer # None /\ ~released /\ length > 0 /\ at[t] = buffer + length

Expose(t) == exposed' = [exposed EXCEPT ![t] = @ \/ (Window /\ Moving(at'[t]))]

Goto(t, a) == at' = [at EXCEPT ![t] = a]

DetourThread == <<layout, phase, search, effects>>

Call(t) ==
  /\ at[t] = Idle
  /\ \E c \in layout.calls : Goto(t, c) /\ due' = [due EXCEPT ![t] = c]
  /\ ran' = [ran EXCEPT ![t] = 0]
  /\ late' = [late EXCEPT ![t] = phase = "done"]
  /\ exposed' = [exposed EXCEPT ![t] = Window /\ Moving(at'[t])]
  /\ UNCHANGED DetourThread

\* An address relative to the instruction is another one in the trampoline.
Execute(t) ==
  /\ Runs(t) /\ code[due[t]].op # "ret"
  /\ \E a \in Targets(code, due[t]) :
       /\ due' = [due EXCEPT ![t] = a]
       /\ Goto(t, IF at[t] = due[t] THEN a
                  ELSE IF code[due[t]].op # "relative" /\ a = Follows(code, due[t])
                  THEN at[t] + code[due[t]].len
                  ELSE Lost)
  /\ Expose(t)
  /\ UNCHANGED <<DetourThread, ran, late>>

Return(t) ==
  /\ Runs(t) /\ code[due[t]].op = "ret"
  /\ Goto(t, IF ran[t] > 0 THEN Hooked ELSE Idle)
  /\ UNCHANGED <<DetourThread, due, ran, late, exposed>>

\* The jump over the first bytes of the function.
EnterHook(t) ==
  /\ AtJump(t)
  /\ Goto(t, IF JumpFits /\ ~released THEN Hook ELSE Lost)
  /\ ran' = [ran EXCEPT ![t] = IF @ < 2 THEN @ + 1 ELSE @]
  /\ UNCHANGED <<DetourThread, due, late, exposed>>

\* The replacement calls *prev.
CallPrev(t) ==
  /\ at[t] = Hook
  /\ Goto(t, IF prev = None THEN Lost ELSE prev)
  /\ UNCHANGED <<DetourThread, due, ran, late, exposed>>

\* The four instructions at the end of the trampoline.
JumpBack(t) ==
  /\ AtTail(t)
  /\ Goto(t, src + length)
  /\ Expose(t)
  /\ UNCHANGED <<DetourThread, due, ran, late>>

Slide(t) ==
  /\ AtNops(t)
  /\ Goto(t, src + length)
  /\ UNCHANGED <<DetourThread, due, ran, late, exposed>>

HookReturns(t) ==
  /\ at[t] = Hooked
  /\ Goto(t, Idle)
  /\ UNCHANGED <<DetourThread, due, ran, late, exposed>>

\* Half an instruction, an instruction that is not due, or freed memory.
Stray(t) ==
  /\ at[t] >= 0 /\ ~Runs(t) /\ ~AtJump(t) /\ ~AtTail(t) /\ ~AtNops(t)
  /\ Goto(t, Lost)
  /\ UNCHANGED <<DetourThread, due, ran, late, exposed>>

-----------------------------------------------------------------------------
DetourStep ==
  \/ Begin \/ FollowJump \/ StopFollowing
  \/ SkipBlock \/ Allocate \/ NoMemory
  \/ Build \/ Protect \/ WriteJump \/ Fill \/ Publish \/ Keep \/ Drop

ThreadStep(t) ==
  \/ Call(t) \/ Execute(t) \/ Return(t) \/ EnterHook(t) \/ CallPrev(t)
  \/ JumpBack(t) \/ Slide(t) \/ HookReturns(t) \/ Stray(t)

\* A fault of the thread that detours ends the game.
Next == phase # "crashed" /\ (DetourStep \/ \E t \in Threads : ThreadStep(t))

\* The thread that detours is never blocked; the game does what it likes.
Spec == Init /\ [][Next]_vars /\ WF_vars(DetourStep)

-----------------------------------------------------------------------------
(* Correctness. *)

Ended == {"done", "failed", "crashed"}

TypeOK ==
  /\ layout \in Layouts
  /\ phase \in Ended \cup {"begin", "follow", "search", "build", "protect", "tear",
                           "fill", "publish", "keep", "drop"}
  /\ src \in Int /\ lval \in Int
  /\ probe \in 0 .. Space - 1
  /\ {buffer, prev, temp, kept} \subseteq Nat \cup {None}
  /\ length \in Nat
  /\ patched \in {"no", "torn", "jump", "filled"}
  /\ released \in BOOLEAN
  /\ open \subseteq Nat /\ protection \in {"none", "read", "write"}
  /\ at \in [Threads -> Nat \cup {Idle, Hook, Hooked, Lost}]
  /\ due \in [Threads -> DOMAIN code]
  /\ ran \in [Threads -> 0 .. 2]
  /\ late \in [Threads -> BOOLEAN] /\ exposed \in [Threads -> BOOLEAN]

\* The code that moves can move: it uses no address relative to its own, and
\* nothing else jumps, and no call goes, into the middle of it.
Movable ==
  LET moved == layout.final .. layout.final + AsmLength(layout.final) - 1 IN
  /\ \A a \in DOMAIN code : a \in moved => code[a].op \in {"plain", "ret"}
  /\ \A a \in DOMAIN code :
       a \notin moved => Targets(code, a) \cap moved \subseteq {layout.final}
  /\ layout.calls \cap moved \subseteq {layout.final}

\* A thread of the game is only harmed if it was in the moving code while that
\* was overwritten and *prev not yet set, or if the code cannot move or the
\* trampoline is out of reach, both of which the comments of DetourImpl and
\* AsmLength leave open: all others go on with the instruction that is due,
\* before, while and after the function is patched (hooks.cpp:163-188, 20, 146).
CallsUnharmed ==
  \A t \in Threads : at[t] = Lost => exposed[t] \/ ~Movable \/ ~JumpFits

\* Once DetourImpl has returned, every call runs the replacement once, also one
\* that comes through a function that only jumps; a call that began before
\* that runs it at most once (hooks.cpp:128-131, 170-178).
CallsHooked ==
  \A t \in Threads :
    at[t] = Idle /\ ~exposed[t] /\ Movable =>
      ran[t] \in IF late[t] THEN {1} ELSE {0, 1}

\* A trampoline that a jump does not reach is at least in a block that begins
\* out of reach and ends within it (hooks.cpp:137, 146-147, 177).
JumpReaches ==
  patched # "no" /\ ~JumpFits =>
    \E b \in BlockOf(buffer) : b.from < src - Reach /\ src - Reach < b.to

\* DetourImpl either did everything or nothing: a function is patched if and
\* only if *prev is set, and the trampoline is then kept by m_detours alone
\* and not given back (hooks.cpp:87-103, 153-167, 188-189, 216-220).
AllOrNothing ==
  phase \in {"done", "failed"} =>
    /\ (patched = "filled") = (prev # None)
    /\ patched \in {"no", "filled"}
    /\ kept = prev /\ temp = None /\ ~released

\* When DetourImpl has returned, the pages of the game that can be written are
\* the ones that could be before, whatever Windows refused: none is left open
\* and none taken away.  That holds unless the jump lies on two pages of which
\* one could be written, since both then get the protection of the first
\* (hooks.cpp:181-185).
PagesRestored ==
  phase \in {"done", "failed"} =>
    \/ open = layout.open
    \/ JumpPages \cap layout.open # {} /\ ~(JumpPages \subseteq layout.open)

\* DetourImpl comes to an end (hooks.cpp:45-66, 137-151).
DetourEnds == <>(phase \in Ended)

\* "we therefore follow them and detour the final function" (hooks.cpp:128-131).
FollowsJumps ==
  phase \notin {"begin", "follow"} => src = layout.final
=============================================================================
