# FO4-Wrench in TLA+

A verification project for the code in `src/src`: TLA+ modules of its
components, TLC configurations that check them on small instances, and proofs
that TLAPS checks for instances of any size.

FO4-Wrench is a DLL that takes the place of `XInput1_3.dll` in Fallout 4. The
game loads it, calls the XInput functions it exports, and on the way gets its
Direct3D calls hooked and two of its virtual methods replaced. Everything runs
on threads of the game; the library has none of its own and takes no lock.
Nearly everything that can go wrong is an order of steps nobody chose: which
thread asks for the real XInput first, what a loader thread finds in a virtual
table while the render thread is replacing an entry, in which order devices,
swap chains and sizes come and go.

## Inventory

| Component | Source | State | Operations |
|---|---|---|---|
| XInput wrapper | `XInput1_3.cpp` | `s_loaded`, `s_xinput`, eleven function pointers | `LoadXInput`, `UnloadXInput`, the exported functions |
| Virtual table injection | `hooks.cpp:222-238` | the entry, the saved pointer | `VfTable::Inject` |
| Detour trampoline | `hooks.cpp:14-66, 120-220` | the patched code, the trampoline, `*prev` | `DetourImpl`, `VfTable::Detour`, `FollowJumps`, `AsmLength` |
| Direct3D hooks | `dx.cpp` | callback lists, `s_swapChain`, two static tables, the saved pointers | `Register`, `Init`, `CreateDeviceAndSwapChain`, `SwapChainResizeBuffers`, hooks of `Map`, `Unmap`, `VSSetConstantBuffers` |
| UI scale feature | `dllmain.cpp:16-164` | `s_movieSetViewScaleMode` | `MovieSetViewScaleMode`, `OnDeviceCreate`, `Init` |
| Backdrop fix | `dllmain.cpp:171-312` | `s_origTriShapeParse`, `s_scale` | `BSTriShapeParse`, `OnViewportResize`, `OnDeviceCreate`, `Init` |
| Configuration | `config.cpp`, `dllmain.cpp:333-382` | `s_options`, the path of a visit | `Set`, `Load` and the `Parser`, `Get`, `GetBool`, `Enumerate` |
| Library start and stop | `dllmain.cpp:384-424` | none | `DllMain` |
| Logging | `util.cpp:11-52` | `s_handle` | `Open`, `Write`, `Close` |
| Half floats | `util.h:150-216` | none | `float32`, `float16` |
| Code scanning | `hooks.cpp:68-78, 249-288` | none | `FindPattern`, `FindSection` |
| Utilities | `util.cpp:59-137`, `util.h` | none | timers, disassembly listings, `strlcpy`, `UnsafePtr` |

How they interact. `DllMain` stores the defaults, loads `Wrench.toml`, lets both
features register callbacks with the Direct3D hooks, and last detours
`D3D11CreateDeviceAndSwapChain`. When the game creates a device, the hook
detours methods of the device context and the swap chain, calls the device
callbacks, in which the features inject their replacements into virtual tables
of the game (only now is the game's code decrypted), and calls the viewport
callbacks. `ResizeBuffers` calls the viewport callbacks again. Loader threads
run the injected `BSTriShapeParse`, which reads the scale that a viewport
callback stored. The XInput wrapper meets the rest only through the option
`XInput.Path`.

What makes each component correct, and what is hard about it:

* **XInput wrapper.** Every answer has its reason although threads race through
  an unlocked lazy initialisation; the library is held while it is used; it is
  not asked for again and again. Hard: stale reads of the flag, of the handle
  and of the pointers; exit at any point.
* **Injection.** A caller finds either the old method or a replacement that can
  reach the old method. Hard: callers between the two exchanges; a second
  injection.
* **Direct3D hooks.** Methods are detoured once, before the game has the
  object; features hear of a device before a viewport; the size told last is the
  size of the chain; a hook finds the original. Hard: chains whose address is
  reused, zero sizes, a resize on another thread, calls between the steps of a
  detour, detours that fail.
* **Features.** The mode is the configured one; the vertices of a glass get the
  scale of the viewport. Hard: loaders read the scale while the render thread
  stores it.
* **Configuration.** The options are the defaults overridden by the file, for
  every shape of document; fixed arrays are never overrun.
* **Detour.** Threads that execute the function while it is patched go on with
  the instruction that is due; afterwards every call is hooked, and either
  everything was done or nothing. Hard: whole instructions, addresses that wrap,
  the moment before `*prev` is set, giving pages the protection they had.
* **Start and stop, logging.** The features are those the file asks for; no line
  goes through a closed handle; attaching ends, for any file. Hard: a thread
  between its test of the handle and its use.
* **Half floats and scanning.** A vertex keeps its sign, its order and a finite
  value under any scale; the table that is patched is that of the class.

`PROJECT.json` lists the hazards line by line with the properties that cover
each of them.

## Modules

| Module | Models | Composes |
|---|---|---|
| `XInputService` | what the game may rely on when it calls XInput | |
| `XInputWrapper` | `XInput1_3.cpp`; implements `XInputService` | |
| `VfTable` | `VfTable::Inject` and callers of the method | |
| `Detour` | `DetourImpl` with `FollowJumps`, `AsmLength` and `DetourBuffer`, against threads in the function | |
| `Dx` | `dx.cpp` | |
| `CodeScan` | `FindSection`, `FindPattern`, `DataCompare` and the search for Movie's table | |
| `UiScale` | UI scale feature; implements `VfTable` | extends `VfTable`, `CodeScan` |
| `Backdrop` | backdrop fix, with symbolic scales | extends `VfTable` |
| `Float16` | the numbers of the backdrop fix: `float32`, the product, `float16` | |
| `Wrench` | the library at work; implements `Dx` | extends `Dx`, instance of `Backdrop` |
| `Config` | `config.cpp` with `InitConfig` and `LogConfig` | |
| `Library` | `DllMain`, the features' switches, the log | extends `Config`, implements it |
| `*_proofs` | theorems | extend the module they are named after; `Library_proofs` extends `Config_proofs` too, and `Wrench_proofs` `Dx_proofs` |
| `MC*` | model values for TLC | extend the module they are named after |

Definitions keep the names of the source where that is possible; the map in
`PROJECT.json` gives the lines of each. Operators whose comment begins with
"Mutant:" are plausible bugs. No specification uses them; each shows that a
property fails if the code is changed in that way.

### XInputWrapper

A thread is at a label `pc[t]`; one action is one access to a global, in the
order of the source: `TestLoaded` (line 62), `Load` (88), `Register` and
`NoLibrary` (90-91), `Resolve` and `Store` (one pointer of 93-105),
`Mark` (111), then `Select`, `NotConnected`, `Forward` of the exported function.
The eleven functions are `1 .. NumFns`; they differ in nothing that the model
tells apart (`XInputEnable` returns no value, so its "not connected" is a call
that does nothing). `NullCall` is the second read of the pointer in a build
that does not keep it in a register. `Exit` ends every thread, as
`ExitProcess` does before a library is detached, and `UnloadXInput` is then run
once for every registration. Stores become visible in program order, as on the
x64 processors the code is built for, and `atexit` is assumed to succeed.

### Detour

Memory is a layout: the instructions that can be reached, as a function of their
addresses, the blocks of pages that `VirtualQuery` would report, and the pages
that can be written. `phase` is
the statement `DetourImpl` has reached: `FollowJump` is one round of the loop of
`FollowJumps`, `SkipBlock` one round of the search for memory, and patching is
`Protect` (line 182), `WriteJump` (183), `Fill` (184) and `Publish` (188).
`VirtualQuery` may report a page or its whole block, and `VirtualAlloc` may
refuse a free block. `Protect` and `WriteJump` are two steps because six bytes
are not one store: in between, the first bytes of the function are "torn".
`open` are the pages that can be written, `protection` what `VirtualProtect` said
of the first one: it may refuse, which the code does not look at, and the bytes
behind the jump may lie on a page it was not asked for; a write to a page that is
not open ends the game (`Patch`, `Fill`). `Fill` includes the second
`VirtualProtect`, which gives all pages of the jump what the first one had, and is
assumed not to be refused if the first was not. `Keep`
and `Drop` are the move of the `DetourBuffer` into `m_detours` and the destructor
of the temporary.

The threads of the game execute instructions. `at[t]` is the address a thread
runs, `due[t]` the instruction of the game it should run: in the trampoline the
two differ, but `Origin(at[t]) = due[t]`. A thread that meets a torn or moved
instruction, a null `*prev`, a jump out of reach or freed memory is `Lost`. A
relative operand or a branch that is executed in the trampoline leads elsewhere
than it should, as `AsmLength` copies bytes and adjusts nothing.

`exposed[t]` is history: the thread was in the bytes that move at a moment
between the first store and `*prev`. The code takes no precaution for such a
thread, and the properties excuse it; they excuse no other. `Movable` says what
the comments of `AsmLength` and `DetourImpl` leave to the caller. `AsmLength`
always returns at least sixteen, so the branch `length < 16` (line 164) is never
taken and has no action. A cycle of jumps would keep `FollowJumps` going for
ever; no function of the game is one, and the layouts hold none. Nor does their
code go back to its own start: such a round would pass the jump again and count
as a second run of the replacement, which is why `CallsHooked` is stated for
functions of this kind. The highest address of a layout belongs to the system,
as that of a process does: the search for memory, which passes it when it wraps,
finds nothing there.

### VfTable, Backdrop, UiScale, CodeScan

`Unprotect`, `SavePrev` and `Publish` are the steps of `Inject`;
`Unprotect` also stands for an injection that does not take place, because the
protection cannot be changed. A caller reads the entry (`Call`), the replacement
reads the saved pointer (`CallPrev`), the original runs, the call returns.
`depth[t]` counts frames of the replacement, so that the second injection, which
makes the replacement its own original, shows as a full stack. `Backdrop` adds
the vertices, each scaled by the `s_scale` of that moment. A scale is the
viewport it was computed from: two viewports with the same ratio have the same
scale, and the model keeps them apart, which only makes the properties stronger. `s_scale` has no lock: a resize between
two vertices gives them two scales, here as in the code, and no property denies
it; `quiet[t]` marks the parse during which no hook ran, of which
`GlassFitsViewport` speaks.
`UiScale` adds the mode that is passed on and, from `CodeScan`, the search for
the table: an image of a few hundred bytes, each named by the instruction it
belongs to, with the pattern of `dllmain.cpp:120-129` as it is, masked bytes
included. `ImagesAssumption` says what an executable must be for the search to
make sense, in terms of its instructions and not of the search: the first code in
`.text` that has the instructions of the constructor, with any operands, is the
constructor of Movie, and its displacement leads to `movie`.

### Dx

One action is one access to the statics, one callback or one call of
Direct3D. `Chains` are addresses: an address is reused once its chain was
released. A creation, a resize or a `Map` that fails returns at once and is a
step that changes nothing. A size stands for width and height, 0 for a pair with
a zero in it. The hooks of the context run their callbacks one by one
(`ContextCallback`); `context` is what the context does, `knows[c]` what feature
`c` was told of it. The game has a context once a creation has returned, with a
chain or without (`given`), and uses it from one thread at a time, as Direct3D
demands. No feature of this version registers for the context; `MCDx`
lets one do so to exercise those hooks.

A detour is two steps, `Patch` and `Save`, with other threads in between; the
instructions in them are the matter of `Detour`. `saved[m]` is where the pointer
of method `m` leads. `DetourImpl` clears it first, so that a detour that fails
(`Fail`) leaves null, and a second detour of a method first takes the pointer from
the hook that is already there, and may then give it a copy of that hook's own
jump ("astray"). A hook that meets such a pointer ends the game (`CallLost`). A
detour that failed leaves the table marked valid. Chains created by other functions of Direct3D are not modelled.

History: `detours` and `failed` say which methods were detoured or could not be,
`overlap` that two threads were inside hooks, or inside creations, at the same
time (`Enter`), `missed` a size that no feature could be told truly. What the
properties excuse, because the code has no lock and says nothing about it:

* two creations that overlap may detour a method twice (`dx.cpp:163`) and hand
  out an object before another thread has detoured it;
* two hooks that overlap may tell the features of two sizes in either order
  (`dx.cpp:92`);
* a creation tells the features a zero size if the description has one
  (`dx.cpp:201`), until the next resize;

A creation without description and without a place for the chain releases a null
pointer (`dx.cpp:211`), which ends the game in the model as well (`ReleaseNull`).

### Wrench

`WrenchSpec` extends `Dx` with the variables of `Backdrop`, so that `Dx` is
refined by the identity and what is proved of it can be cited. The render thread
takes the steps of `Dx`. A device callback of the backdrop fix
starts an injection in `Backdrop`, and the render thread goes on when that is
done; a viewport callback stores `s_scale`. The loaders take the steps of
`Backdrop`. `WrenchAssumption` says that one thread renders, which is how the
game calls Direct3D, and that no other feature listens for viewports.

### Float16

A number is its bits, masks and shifts are quotients and remainders. One round of
the loop of `BSTriShapeParse` is `Widen`, `Scale`, `Store`; the multiplication in
between is that of the processor, rounded to the nearest even. `Product` flushes
what is below the smallest normal float to zero: `float16` makes zero of it
anyway. A scale is the bits of a float that is not negative, infinity and the
quotient 0/0 included.

### Config, Library

A document is the tree cpptoml returns, its nodes numbered from the root down,
each subtree in one piece (`IsTree`): a convention that costs no document, and by
which the later of two elements of an array is the one with the greater number.
`Below(d, n)` are the nodes of the subtree at `n`. The recursion of the visitor is a stack
of frames, each a node and the children not yet visited: entries of a table in
any order (it is a hash map), elements of an array in theirs. The index that
names array elements is never incremented, so all are called "0". `KeyWidth`
abstracts text to the bytes it takes. `PathTo`, `Kept` and `Written` are the
reference: what the options should be, read off the whole tree. `PathTo` is a
recursive function over the nodes, `Kept` the values whose path is short enough,
`Written` gives each path the last of its values, and `Over` puts them over the
defaults. The documents and the defaults are constants, of which
`ConfigAssumption` says what cpptoml and `InitConfig` guarantee.

`Library` runs those steps as the part `InitConfig` of `DLL_PROCESS_ATTACH`,
between the opening of the log and the `Init` of each feature. The loader lock
keeps other threads out until that is over. After it, threads start, log and end;
`BeginWrite` is the test of `s_handle` and the formatting, `EndWrite` the second
read of the handle in `WriteFile`. `Exit` ends the other threads wherever they
are, as `ExitProcess` does; the library is never unloaded earlier, because the
game imports it. The handler of the XInput wrapper, which also runs then, logs
nothing. A line is known by the bytes its text takes.

## Runs

| Run | Instance | States | Shows |
|---|---|---|---|
| `XInputRaces` | 3 threads, 2 functions, one of them provided, loading fails or not at each attempt | 40,780 | `ReplyJustified`, `AttemptsOnce`, `HandleHeld`, `CrashNeedsMixedLoads` |
| `XInputRefines` | 2 threads, 3 functions, first and last provided, loading works | 4,226 | `ImplementsService`, with liveness |
| `DetourCalls` | 2 threads, 13 layouts | 253,838 | `CallsUnharmed`, `CallsHooked`, `JumpReaches`, `AllOrNothing`, `PagesRestored`, `DetourEnds` |
| `DxHooks` | 2 creating threads, one of which uses the context, 2 devices, 2 addresses of chains, 2 sizes, 2 features | 1,085,707 | `DeviceBeforeViewport`, `DetouredOnce`, `HeldChainsHooked`, `ViewportIsCurrent`, `OriginalsIntact`, `ContextAsTold` |
| `WrenchScale` | 1 loader, 2 devices, 1 chain, 2 sizes | 557,938 | `GlassFitsViewport` |
| `UiScaleModes` | 2 threads, 3 clips, 5 executables | 31,648 | `ModeAsConfigured`, `InjectsMovie`, `HookReachesOriginal`, `OriginalOnce`, `CallsReturn`, `ImplementsVfTable` |
| `Library` | 2 threads, 5 documents and none, 4 segments, keys of 5 bytes | 1,466 | `OptionsAsWritten`, `PathNamesTop`, `KeysFitLog`, `CrashNeedsWrongType`, `FeaturesAsConfigured`, `LogOpenWhenWritten`, `AttachEnds` |
| `Float16Glass` | all 65536 halves, 10 scales | 2,621,440 | `NeverInfinite`, `SameAspectKeeps`, `ProductCutOff`, `OrderKept` |

Four runs end in a violation; each states what the source says of itself and
finds the code do otherwise:

| Run | Violates | Because |
|---|---|---|
| `WrenchTwoDevices` | `LoadersAlive` | the second device injects the method behind itself (`dllmain.cpp:290`) |
| `UiScaleTypo` | `UnknownNameKeepsMode` | the number of modes is passed on (`dllmain.cpp:98, 107`) |
| `DetourShortJump` | `FollowsJumps` | one byte of displacement is read as four (`hooks.cpp:64`) |
| `LibraryLongLine` | `LinesInBuffer` | the length of the text, not of the buffer, is written (`util.cpp:45-48`) |

### Bounds

`Threads`: the races in the wrapper need two threads and a third that profits
from what one of them has finished; in `VfTable`, `Dx` and `Library` the theorems
cover every number. `NumFns = 2` has one function with and one without an
address; `NumFns = 3` has a gap in the middle, so that `next` passes over it.

`Detour` scales addresses down: a page has 64 of them, a jump reaches 512, there
are 4096. The layouts of `MCDetour` are a function in the middle of memory with
free memory near it, with a free block that begins out of reach and with none in
reach; one in the lowest 512 addresses, where the search wraps; one that is
reached through a long jump or through a short and a long one; one whose last
moved instruction is fifteen bytes and lies across a page, with the second page
open or not; one whose jump lies across a page, with neither page open or one of
them; and three whose code cannot be moved. Threads do not read what other threads
of the game write, so two are enough for any interplay with the one that detours.

`Devices = 2` lets a second creation find the tables valid and overlap the first;
with `Chains = {c1, c2}` one chain can be remembered while the other is resized,
and an address be used again. `Sizes = {1, 2}` tells the right size from a wrong
one; a creation with a size of zero is left to `WrenchScale`, whose `DescSizes`
holds 0, a resize with zero is in both. A device may be created while the other
thread uses the context of the first, which is when a method that is detoured
again would show. `MayFail` is the method of the chain; that those of the context
may fail as well is in the theorems. `SYMMETRY`
exchanges the two addresses of chains, which nothing in the model orders.
`WrenchScale` has one loader because loaders share nothing that one of them
writes; `StackDepth = 2` bounds the recursion after a second injection, after
which `GlassFitsViewport` asks no more of the loader that crashed.

The documents of `MCConfig` have every kind of container in every other, keys
that fill the buffer exactly, and values one and two levels too deep for
`MAX_SEGMENTS = 4`. `Lookups` are those of the features. `LINE = 8` stands for
the 0x100 bytes of a line: the lines of `Library` reach it and those of
`LibraryLongLine` pass it. The executables of `MCUiScale` hold the constructor of
Movie behind a look-alike that differs in its last instruction, at the very end
of the section, not at all, or in another section, and headers that are wrong.
`Windows` of `MCFloat16` are scales below, at and above one, infinity, zero and
no number.

TLC stops in `Dx` and `Wrench` where nothing was hooked or the game crashed, in
`Library` after the process is gone, in `Detour` after a crash or when all
threads are lost, in `Float16` after the vertex is stored: those runs do not
check for deadlock.

### Fairness

`XInputWrapper` and `UiScale` assume weak fairness of the steps of a thread
inside a call: the system schedules every runnable thread, and no code waits for
another thread. `Detour` assumes it of the thread that runs `DetourImpl`, and
`Library` of the thread in `DllMain`, which the loader waits for. No fairness is
assumed of the game's calls, of injections, of devices or of exit. `Dx`, `Wrench`
and `Float16` state safety only and assume none.

## Proofs

TLAPS checks every theorem of the proof modules.

* **`XInputWrapper_proofs`**, for any set of threads, any number of functions
  and any outcomes of loading, from `WrapperAssumption`. The properties are not
  inductive: `ReplyJustified` says nothing about a thread that is still storing
  pointers. `IInv` adds where every non-null value came from (`Origin`), that a
  thread that asked for the library does not come back (`LoadOnce`), that
  threads run only while the process does, and `Complete`: as long as no load
  has failed, each thread between `resolve` and `store` has filled every pointer
  below `next[t]` and none is ever taken back, so that the flag, once set by any
  of them, means that all pointers are there. `Refinement` proves that every
  step is a step of `XInputService` or invisible to the game, provided loading
  always gives the same result; without that proviso it is false. `AnswersInTime`
  counts the steps from the call to the answer (`ToAnswer`): each step of a thread
  lowers the number and no other thread raises it, so that no call waits for
  another.
* **`UiScale_proofs`**, first about the table entry, for any number of threads
  and at most one injection: `Protocol` ties both pointers to the place where
  `Inject` stands, from which `Reaches`, `Once` and `Survives`. With two
  injections these are false, as `WrenchTwoDevices` shows. `Protects` proves, for
  any number of injections, that every step of the feature is a step of `VfTable`
  or none; with `FeatureStep` the invariant of the entry carries over
  (`MovieReaches`, `MovieOnce`). `Ends` and `MovieEnds`
  count the steps to the end of a call (`ToReturn`), for any number of injections:
  a replacement that calls itself uses up the stack. `Configured` needs `ModeInv`, which follows the
  mode from the call to the original: inside the replacement it may have been
  replaced once already, and replacing it again changes nothing (`NewModeTwice`),
  so the theorem holds even with more than one injection. It assumes that every
  option names a mode (`NamesKnown`); `UiScaleTypo` shows what happens otherwise.
  `Injects` is about the bytes of an executable of any size and with any operands.
  The masked comparison holds at exactly the addresses where the instructions of the
  constructor are (`ComparesConstructor`): pattern and code are put together of the
  same parts, an instruction agrees with itself and an operand is not compared
  (`AlignedCode`, `AlignedOperand`, `AlignedParts`). `FindPattern` stops at the first
  (`FindsFirst`), in the section that `FindSection` gives (`FindsText`), and the
  displacement there leads to the table (`TableAt`). It assumes, as
  `ImagesAssumption`, that the first constructor of this form in the executable is
  that of Movie, or that there is none.
* **`Config_proofs`**, for documents of any size and depth and tables visited in
  any order, from `ConfigAssumption`: `m_index` stays inside `m_path` (`Typing`),
  because it follows the depth of the recursion and a container at the limit is
  not entered, and every stored key fits the buffer of `LogConfig` (`KeysFit`),
  from `LOG_LEN >= MAX_PATH_LEN` (both are 256 in the code). `AsWritten` compares
  the visit, a stack of frames, with `Written`, a reading of the whole tree.
  `OptionInv` relates them at every step: `m_path` spells the path of every node
  on the stack, not only of the top (`Named`); the options are the defaults under
  what is stored for the nodes that are no longer ahead of the visit (`Storing`);
  and of two nodes with the same path the one visited later has the greater
  number (`InOrder`). The last is what makes overwriting in the order of the visit
  the same as taking the last value: it holds because two nodes with one path part
  at an array (`Siblings`), and arrays are visited in order. `PathNames`
  and `Crashes` follow. That `PathTo` is well defined is proved as well
  (`Paths`), by induction over the numbers of nodes, for which `LeastNat` gives
  the least counterexample. `Shrinks` is what the end of the recursion rests on:
  `Work` counts the nodes ahead twice, once for entering and once for leaving
  them, and the frames of the stack; a step uses up one of these (`DescentShrinks`,
  `LeaveShrinks`), whatever the order of the table.
* **`Library_proofs`**: `Options` proves that `LibrarySpec` implements the `Spec`
  of `Config` (every step of `DllMain` is a step of `Config` or leaves its
  variables alone; a feature that meets an option of the wrong type is `Read`),
  so the theorems of `Config` hold of the library (`LibraryTyping`,
  `LibraryKeysFit`, `LibraryAsWritten`, `LibraryCrashes`). `LogSafe` needs that the
  log is closed only in the stage "detached" and that no thread is in `Write`
  outside of "attached". `FeaturesRun` adds `FeatureInv`, the features that were
  asked so far and what their options said, and takes the options from
  `LibraryAsWritten`. `Advances` is the part of `AttachEnds` that needs no fairness:
  every step of `DllMain` while it attaches raises `Phase` or lowers `Left`, the
  defaults, the work of the visit or the features that remain.
* **`Dx_proofs`**, for any number of threads, creators, features, chains and
  devices, from `DxAssumption`. `Typing` follows from `IInv`, which
  adds what each label says of a thread's locals (`LocalsOK`) and that before
  `DxInit` nothing happens (`Dormant`): a callback list changes only while no
  thread is in a hook, so the index `k[t]` counts through a list that stands
  still. `DeviceFirst` adds `ToldInv`: a chain is held, a size was told or a
  thread is past the first loop of a creation or in a resize only after all
  device callbacks ran, and a thread inside that loop has run those below
  `k[t]`. `Once` and
  `Hooks` add `Detouring`, which holds while no two creations overlap: at most
  one thread is inside a creation, an invalid table means that none of its
  methods is detoured, and each label of the detouring thread says which methods
  still are not. `Viewports` needs `ViewInv`, which holds while no two hooks
  overlap: one thread at most announces a chain or resizes one, the callbacks below
  `k[t]` were told the size it has, and while no thread is there every feature knows
  the size of the remembered chain (`Current`). The difficulty is an address that is
  released and used again for another chain, after which the remembered size must
  be that of the new one. `Originals` needs `ShieldInv`, which holds while no two creations
  overlap: the game has no context while its methods are being detoured and holds
  no chain while `ResizeBuffers` is (`Shields`), an intact method stays so, and a
  table that is valid is in the hands of the one creation that detours, or its
  methods are intact. `ContextTold` rests on that and three more: `ReachInv` (a
  context of the game means that its methods are detoured or could not be),
  `UseInv` (one thread uses the context, and which callbacks were run) and
  `KnowInv` (what a feature knows differs from what the context does only between
  the call of the original and the callbacks).
* **`Wrench_proofs`**: `Direct3D` proves that `WrenchSpec` implements `Spec` of
  `Dx`, so that every theorem of `Dx` holds of the library at work, with any number
  of loaders. `Glass` needs `ScaleInv`: if a glass was met outside the hooks and none has run
  since, each vertex scaled so far was scaled by the present value. It adds `GlassInv`: one thread never overlaps itself, and `s_scale` is what the backdrop
  fix was told last; `Viewports` says that this is the size of the chain. `LoadersSurvive` and
  `ParsedOnce` are about the loaders while one device is created, from `EntryInv`,
  the invariant of `VfTable` in the variables of the library; with a second device
  they are false, as `WrenchTwoDevices` shows. (Theorems
  of a module that is an instance cannot be cited by tlapm, which is why `Wrench`
  extends `Dx`.)
* **`Detour_proofs`**, for any memory and any number of threads, from
  `LayoutAssumption`: instructions do not overlap, free memory holds none, and
  the code that moves takes no more than a page. `Whole` follows
  from `StageInv`, what each phase has done; `Restores` adds `PagesInv`, what was
  done to the pages, of which the case that matters is a first page that could not
  be written: what is taken from the pages of the jump then is what was given
  (`FirstPage`). `StageInv` also says that the trampoline has
  a page of a free block to itself (`Placed`). `Unharmed` adds `TrackInv`, which
  follows a thread from instruction to instruction (`OnTrack`): it is where it
  should be, or in the replacement, or in the trampoline at the copy of the
  instruction that is due. `CallsUnharmed` alone says nothing of a thread that is
  not lost yet. The argument rests on `Moved` (whole instructions move) and on
  `Apart` (no address of the trampoline is one of the code). `Unharmed`, `Reaches`,
  `Types` and `HookedOnce` assume that `FollowJumps` ends where the jumps lead.
  `Follow` proves that it does if the memory fulfils `JumpsLead`: the jumps lead to
  the final function, and each jump of one byte finds in the operand that udis86
  keeps the upper bytes its own displacement has (`Carried` says which jump left
  them there). All layouts of `DetourCalls` fulfil it; the one of `DetourShortJump`
  does not. With it the other theorems hold outright (`Detours`, `Hooks`).
  `Forward` is the part of `DetourEnds` that needs no fairness: but for a jump that
  is followed, every step of `DetourImpl` leads to a later stage or searches further
  down (`SearchGoesDown`, with the wrap at the bottom). Jumps that lead in a circle
  are followed for ever, by the code as well. `HookedOnce` counts the runs of the
  replacement. It assumes `OncePerCall`: the code of the function can be parted into
  what a call runs before it comes to the first instruction and what it runs after,
  and the latter does not lead back. Every movable layout of `MCDetour` can; without
  it a loop back to the first instruction is hooked in every round. `Reaches` adds
  `SearchInv`: memory is searched from the function down, and what was found
  has an address below the function within reach, so that only the rest of the
  block can be out of reach. `Types` bounds the addresses and the copy by the
  same two invariants.
* **`Float16_proofs`**: for every half and every scale that is not negative, a
  stored coordinate is finite (`Numbers`) and a scale of one changes nothing
  (`SameAspect`), by the arithmetic of `Narrow` on the ranges of its argument. For
  every finite scale, of which TLC tries seven, `CutsOff` compares the stored half
  with the exact product: `Parts` shows that `High` and `Low` are the product of
  the significands, `RoundedIs` that a float keeps its leading bits or one more,
  `NarrowProduct` that cutting these off gives the exact half unless all the bits
  behind it are ones. `Ordered` is the order of neighbours: within one binade the
  product grows and rounding keeps the order (`RoundToMonotone`); from the last
  half of a binade to the first of the next the exponents decide (`NextProduct`).
  `AllOrdered` goes from neighbours to any two numbers, of either sign and denormal
  or not: the least half whose product is below that of a smaller one would follow
  another such half (`ProductGrows`), `Narrow` keeps the order of floats, and the
  sign is kept (`PlacedInOrder`).

Only model-checked is liveness, which needs `ENABLED`: `CallsReturn`,
`DetourEnds`, `AttachEnds` and the liveness part of `ImplementsService` and
`ImplementsVfTable`. What these need beside fairness is proved: `AnswersInTime`,
`Ends`, `Forward` (but for jumps that are followed) and `Advances` give the measure
that every step lowers. Every safety property of a passing run is a theorem.

## Not modelled

* The scan of the backdrop fix for the table of `BSTriShape`
  (`dllmain.cpp:257-288`): it has the form of the one in `UiScale` with another
  pattern, and in `Backdrop` finding nothing is a choice.
* Loader threads other than through the table: they read meshes with code of the
  game.
* `ScopedTimer` but for its line in the log, `LogAsm` and `LogCallstack`, which
  nothing calls, `UnsafePtr`, a pointer that is only compared.
* The text of lines, keys and numbers, beyond its length.
* cpptoml, udis86, the DirectX headers: third-party code. The game, Direct3D and
  Windows appear as the actions of an environment.
* `src/test/main.cpp`, which loads the library and calls one function.

## Plan

1. Done: all the modules above, and the theorems listed in `PROJECT.json`.
2. Done: a theorem for every safety property of the passing runs, and for any
   executable, any memory and any two coordinates where a run tries a few.
3. Left: the scan of the backdrop fix, with the lemmas about `FindPattern` that are
   there now, and orders of steps that a second device makes possible.
