# RISC-V_OS: models, checks and proofs

TLA+ modules for the kernel of this repository: what it does between the
firmware's jump to `_start` and its final `wfi`, which is finding out from the
device tree what the board has, setting up a console, and building the map of
physical memory that a frame allocator will live on. TLC checks the modules on
small instances; TLAPS proves the safety properties that the runs check, of the
merge, the map, the device tree calls, the board, the boot, the console and the
kernel on its board, for every value of the constants.

## 1. The system

The kernel runs on one hart, in S-mode under OpenSBI, with interrupts off.
Nothing runs beside it but the UART chip and, in principle, other harts.

| part | source | state | operations |
|---|---|---|---|
| Entry | `kernel/entry.S`, `kernel/linker.ld` | stack pointer, section symbols | `_start` |
| Boot sequence | `kernel/kernel.c` | `g_hw`, the `.bss` | `clear_bss`, `kmain`, `idle_forever` |
| Platform init | `kernel/platform_init.c` | `hw_state_t` | `init_dtb`, `validate_and_dump_dtb_state`, `init_sbi`, `init_timer` |
| Panic | `kernel/panic.c` | none | message, IPI to other harts, SRST, sleep |
| Device tree queries | `libs/dtb/dtb.c` | `g_fdt` | decoding `reg`, memory, reservations, CPUs, controllers, interrupts, clocks, buses, device walk, `stdout` |
| Memory map | `kernel/memory_map.c` | `g_mm_ram`, `g_mm_reserved`, `g_mm_free`, `g_mm_state` | `mm_stage2_build`, `mm_stage2_dump` |
| UART driver | `drivers/uart/ns16550a.c` | `g_uart`; the chip's registers | init, putc/puts/write, try_getc |
| Console | `drivers/uart/uart_console.c` | info, ready flag, backend | probe, set_backend, init, output, input |
| SBI wrappers | `libs/sbi/*.h` | none | one ecall each |
| libfdt, OpenSBI | fetched by `makefile` | the blob; the firmware | external |

`kmain` calls in this order: `init_dtb` (queries), the console (queries, driver,
chip), the validation, `init_sbi` (probes), `mm_stage2_build` (queries, then pure
list work), the dump, the hart's status, the timer. Any failing step calls
`panic`, which uses the console if it is ready and the firmware. Parts share
state only through `g_fdt`, `g_hw`, the console's ready flag and backend, and
`g_mm_state`, which nobody reads yet but the dump.

### What is hard

* **In-place list algorithms.** `mm_merge_regions` sorts and merges in the array
  it reads; the sweep that subtracts reserved regions from RAM depends on the
  order and disjointness that merge leaves, and merge leaves less than its
  comment says.
* **Numeric edges.** Rounding and adding wrap at 2^64; one sum saturates, the
  others do not. A tree's entry has one to four cells.
* **Fixed buffers.** Seven of them (`DTB_MAX_REGS`, `DTB_MAX_IRQS`, `DTB_MAX_REFS`,
  `DTB_MAX_MEM_REGIONS`, `MM_MAX_RAM_REGIONS`, `MM_REGION_WORKSPACE_CAP`,
  `MM_MAX_RANGES`), with different ideas of what to do when one is full.
* **libfdt's depth counter**, which decides where a walk ends.
* **A chip at its own pace**, or one that never answers; an init that wipes its
  FIFOs; a divisor latch that hides the registers the driver writes.
* **Order and failure at boot.** Every step may fail, panic itself calls the
  firmware, and memory may hold an earlier kernel's flags.

### What makes each part correct

* Merge: no address appears, vanishes or changes flags; the result is sorted.
* Map: free = RAM minus reserved, each frame once; a failed build publishes
  nothing; the kernel's own checks pass on a right map; the first free frame is free,
  and no free memory lies below it.
* Queries: they end, store no more than fits, say when something did not fit,
  and see every node; an interrupt's cells stay together; a bus address is translated
  by a window it lies in.
* Composed: what the tree reserves is not free.
* UART: bytes leave in order, at most once, and only to a chip that is set up;
  every call returns. Seen from outside, the console is a stream of bytes.
* Boot: nothing is called that was not probed; panics are heard where they can
  be; sleeping means everything is set up. On a real board, the line spells what
  the kernel said.

`PROJECT.json` lists the hazards line by line with the properties that watch them.

## 2. The modules

```
PageMath ── RegionMerge ─┬─ RegionMergeAlone ── MCRegionMerge
                         └─ MemoryMap ── BoardMap ── MCBoardMap   FrameMap (abstract, INSTANCEd)
DeviceTree ── Dtb ─┬─ DtbDevice ─┬─ DtbScan ── MCDtbScan
                   │             └─ Kernel
                   ├─ BoardMap
                   └─ UartProbe ─┐
Ns16550a ────────────────────────┴─ UartConsole ─┬─ MCUartConsole   ByteStream (abstract, INSTANCEd)
                                                 └─ Kernel ── MCKernel
Boot ── MCBoot                                                      (Boot is INSTANCEd by Kernel)

SequenceProofs ─┬─ RegionMergeProofs ── MemoryMapProofs ── BoardProofs
                ├─ DtbScanProofs
                └─ UartProofs ── KernelProofs
Boot ── BootProofs
```

**PageMath** is the address arithmetic of `memory_map.c`. An address is a natural
below `AddrSpan`; sums are taken modulo it wherever the C code's `uint64_t` may
wrap. In the program `PageSize = 2^12`, `AddrSpan = 2^64`; the modules assume only
that the one divides the other.

**RegionMerge** is `mm_sort_regions` and `mm_merge_regions`, one action per
iteration of their loops (`SortStep`, `Absorb`, `Advance`) and one per entry and
return. `arr` is the caller's array, `i` the loop index, `out` the entries kept.
A region's two flag words are one value `kind`: no two call sites of
`mm_region_add` use one pair of flags for different purposes, except the RAM and
the free list. Indices count from 1. `RegionMergeAlone` runs one call on an
arbitrary array.

**MemoryMap** is `mm_stage2_build`. `phase` says which loop runs and `n` is its
index; `arr` is the list being filled, `ram`, `reserved`, `free` the lists once
merged (`KeepRam`, `KeepReserved`, `KeepFree` take them over); `Sweep` and
`SweepTail` are an iteration of the inner loop that subtracts, and what follows
it; `Clip` is one row of `mm_sum_pages_clipped_to_ram`, `Publish` the assignments
to `g_mm_state`. What the calls into `libs/dtb` answer is a `platform` record. The
scratch arrays of the totals check may be written past their end (the bound is
tested per row): then, as the compiler may have placed anything there, `Crash` is
possible and the count in `Publish` is arbitrary.

**FrameMap** is the promise: sets of addresses, no lists; free memory appears at
once and is RAM minus reserved; a build that gives up leaves nobody a map.
`MemoryMap` implements it under the mapping `Frames`.

**DeviceTree** is libfdt as `dtb.c` relies on it (external): a tree is the
sequence of its nodes with depth, name and properties, an offset is an index.
`fdt_next_node` keeps libfdt's treatment of the depth counter, end tag by end tag,
because `dtb_device_next` depends on it.

**Dtb** gives the queries about memory and `reg` as functions of the tree, and
**DtbDevice** those about one node: CPUs, controllers, timers, a device with its
interrupts, clocks and resets, buses and their windows. **DtbScan** has the calls
that loop, walking the tree node by node or a property entry by entry, with their
buffers, counters and depth, and is checked against those functions. `devices` is
the loop a client writes with `dtb_device_first` and `dtb_device_next`;
`interrupts` is `dtb_interrupt_map_device`, `translate` is `dtb_translate_ranges`.

**BoardMap** composes both: a board is a tree and the place of its blob,
`PlatformOf` what the build reads from it. Only trees that `init_dtb` accepts. All runs
of the map are runs of `BoardMap`: what its queries answer comes from a tree.

**UartProbe** is how the console finds its UART (`stdout-path`, alias, the first
compatible node, clock, speed, width). **Ns16550a** is the driver, one action per
access or group of accesses the chip cannot come between, and the chip, an
independent process that sends, receives, or is dead. A byte carries the
position in which the kernel wrote it. **UartConsole** is the console over both,
for any sequence of calls of a client, with a second, external backend.

**ByteStream** is what the console promises: a stream that is open or closed,
keeps the order of its bytes, and may give up single ones: the one whose turn it is,
while the one before is still on its way, and never one that was accepted. A close
costs at most the accepted byte. `UartConsole` implements it: `waiting` are the
positions of the bytes the driver still has, `accepted` that of the byte in the chip,
`open` says that the console is ready on the chip.

**Boot** is `kmain`, the init functions and `panic`. `step` is what `kmain` does
next in `Steps`; a board says which steps fail and which SBI extensions exist.
Initially the console's ready flag is arbitrary: `clear_bss` has not run yet.

**Kernel** puts the boot on a board: the tree decides which queries fail
(`BoardOf`), `uart_console_init_from_dtb` is the driver's own sequence of steps
(`BeginUart` to `UartReturns`), and a message is strings that are written call by
call (`Speak`) while the chip sends. Steps of `Boot` without output are taken over
(`Silent`), those with output leave strings to write (`Telling`). `Boot`'s variable
`console` is computed: `uart_console_is_ready`. What each tree answers is the
constant `Facts`, which an assumption compares with the queries, so that TLC
evaluates them once. When the firmware switches the power off, the chip stops, too.
`ClearBss` clears the driver's flag, the console's flag and its backend, because
`clear_bss` does: in the symbol table of `kernel.elf` the three lie between `_bss_start`
and `_bss_end`, and the image has no `.sbss`. A build that put small variables there
(`linker.ld:35-41` gathers `.bss` and `COMMON` only) would leave the console's two as
they were; the console would not be ready all the same, because `g_uart` is cleared.

Loops that fold a list into a number or a list (`FlattenSeq` over the tree's nodes,
`mm_sum_pages`, the clipped ranges and their pages) are recursive functions, so that the
proofs can unfold them. The prover accepts no `INSTANCE` of a module that holds proofs,
so the theorems of `BootProofs` are not restated for `Kernel`: they speak of `BootSpec`,
whose steps the kernel's are.

Operators marked "Mistake to be noticed" are not part of the model. Each is a
changed form of the definition after it, kept to show that the properties
notice such a mistake.

## 3. The runs

| run | module | shows |
|---|---|---|
| `merge` | MCRegionMerge | every array of up to 3 regions of 2 kinds over 5 pages comes back sorted, with the same addresses under the same flags |
| `map` | MCBoardMap | from tree to free list: the build is exact, lists no frame twice, holds its own reservations, the tree's and the devices', publishes consistent totals that agree with the tree's, takes no free memory but the tree's, keeps it above the kernel's end when the first entry is the lowest, implements FrameMap, returns |
| `scan` | MCDtbScan | the walks end, respect their buffers and answer what the tree holds, with NOSPACE when it was cut; the device walk never goes back; interrupts are grouped by `#interrupt-cells`; an address goes through a window that holds it |
| `uart` | MCUartConsole | bytes in order and once, `\r` before `\n`, no byte given up before its own countdown, output only to an initialised backend and chip, calls return; implements ByteStream |
| `boot` | MCBoot | only probed extensions are called, panics are heard iff there is a console, sleep means complete, the boot ends |
| `kernel` | MCKernel | from the tree and the chip to the messages: implements Boot, its end included; the line spells what was said, also when a panic's reset switches the power off |
| `merge_overlap` | MCRegionMerge | finding 1 |
| `map_totals` | MCBoardMap | finding 2 |
| `map_first_frame` | MCBoardMap | finding 3 |
| `scan_devices` | MCDtbScan | finding 4 |
| `board_reserved` | MCBoardMap | finding 5 |
| `board_firmware` | MCBoardMap | finding 6 |

### Bounds, and why they are enough

* `merge`: three regions are the least for a region to lie between two others,
  which is where merging goes wrong; five page boundaries give every relation
  of three intervals that matters (apart, touching, overlapping, nested, equal).
  For longer arrays there is the proof.
* `map`: pages of 2 bytes, so that an address can be inside a page; 18 pages; the
  kernel in the middle with an end inside a page. Nine memory layouts in one or two
  nodes (holes, banks that touch, overlap or share a page, one that ends at the top,
  where the end wraps, empty ones, the kernel's bank first, last or only), seven sets
  of reservations (overlapping each other, the kernel and the holes; wrapping; more in
  a node or altogether than the buffers hold; cells that cannot be read), five device
  lists (in RAM, beside it, at the top and past it, empty). Cells of 6 values, so that base
  and size take two cells; 2 entries per node and 3 per query fit. A capacity of 6, so
  that the reserved list overflows at the tree's devices and the free list in the sweep (at
  the RAM list and at the tree's reservations the same check never fails here, as the
  query's buffer is no larger than the list has room; the proofs cover it);
  `MaxRanges = 4`, so that the scratch arrays are filled, and overflow, too. The four runs
  of the findings use the same boards and bounds.
* `scan`: for the device walk all trees of five nodes with every choice of
  enabled, disabled and other nodes; deeper differences of depth repeat these.
  For the interrupts, trees in which a node names its controller, none, a node that is
  not there, or two. For the other calls boards with more entries than fit, at two capacities, and
  with cell counts that are refused. Cells of 8 values, so that a bus window can end at
  the top of the address space; two interrupts and two references fit, devices have more.
* `uart`: four calls are the least for init, write, re-init, write; strings of one
  to three bytes; `TX_TIMEOUT = 1`, enough to tell a countdown per byte from one
  per string; a byte of 2 values, so that a divisor has two bytes and can be out
  of range, and words of 256, so that it can wrap; one received byte.
* `boot`: all 32 sets of extensions, failure of any one step and of the reset.
* `kernel`: seven trees (one on which everything works, and for each kind of query
  one on which it fails), fourteen firmwares, a chip that answers and one that does
  not. Messages are one to three strings of one or two characters, a panic's the
  longest, as in the code. No byte comes in, because the kernel never reads, and no
  client calls.

### Fairness

One hart runs the code and takes no interrupts, so code that can go on does:
weak fairness of the whole next-state relation where nothing else runs
(`MemoryMap`, `RegionMergeAlone`, `DtbScan`, `BoardMap`), of the kernel's steps in
`Boot`, of the driver's steps in `UartConsole`, and of both in `Kernel`. The chip and
the client get none: `CallsReturn` holds because of the countdowns, not because the chip answers.

### Findings

1. `merge_overlap`: a region is compared with the last one kept only
   (`memory_map.c:201`). Two overlapping regions with equal flags stay two when one
   with other flags starts between them, against the comment at line 182. Free
   memory is still right (that is why `FreeIsExact` must not assume a disjoint
   reserved list), the listing and `reserved_pages` are not.
2. `map_totals`: the bound of the scratch arrays (`memory_map.c:256`) makes the
   published check `R == Z + F` fail on a right map, and a row may write past them.
3. `map_first_frame`: `first_free_frame` is the end of the kernel image, rounded up
   (`memory_map.c:590`). The plan requires it to lie in a `FREE` range
   (`Etap2_MapaFizyczna_Reserved.md:58`); it does not when the tree reserves that page
   or the bank ends with the kernel. The check at line 679 is only printed. What does hold
   is `NothingFreeBelow`: where the tree's first memory entry is the lowest, a client that
   starts there misses nothing.
4. `scan_devices`: `dtb_device_next` (`dtb.c:594`) starts libfdt's depth counter at 0
   at a node that is deeper; the walk ends with that node's subtree, and later
   devices are not seen.
5. `board_reserved`: of a `/reserved-memory` node with more than `DTB_MAX_REGS`
   entries the rest is dropped and the error swallowed (`dtb.c:1308`); that memory
   becomes free, and the call answers 0 against `dtb.h:8-12`.
6. `board_firmware`: the boot area is reserved from the first memory entry's base
   (`memory_map.c:600`); when the kernel lies in another bank, the memory below it,
   the firmware's, is free.

Other places where the code and its comments part. No run refutes the comment here; the
properties that pass leave these cases out and say so:

* `dtb.h:8-12` and `dtb.c:803` promise `-FDT_ERR_NOSPACE` for a device with more than
  `DTB_MAX_IRQS` interrupts. `dtb_device_read` stops at the bound without a word
  (`dtb.c:656`), and `dtb_interrupt_map_device` then answers 0 with what was kept
  (`dtb.c:829`). `InterruptsGrouped` makes its claim about the result for devices whose
  interrupts fit.
* `dtb.c:468-469` says that the range containing the address is found.
  `dtb_translate_ranges` compares with base + size (`dtb.c:544`), which is 0 for a window
  that ends at the top of the address space, and passes it over. `TranslationRight` says
  which window is taken when none of those that hold the address reaches the top.
* `dtb.c:370` names `/reserved-memory` and `/cpus` among the walks that pass disabled nodes
  over. `dtb_reserved_memory_regions` and `dtb_cpu_find_hart` take them. `ScansAnswer` is
  about trees without such nodes there.
* `dtb.h:8-12` asks for NOSPACE whenever entries are left out; a node with too many of its
  own does not count (`dtb.c:1261`, `dtb.c:1308`). `ScansAnswer` is about
  trees in which no node has; finding 5 shows what follows for the map.
* A missing `#interrupt-cells` means one cell in `dtb.c:223`, none in `dtb.c:757`.

## 4. What is proved

Assumptions of the memory map: `PageAssumption` (the page size divides the address space),
`KernelAssumption` (the image does not end in the last page of the address space;
the linker script puts it at `0x80200000`), `CapAssumption`, `PlatformAssumption` (a
build is entered with at least one and at most `MaxRam` memory entries, as
`init_dtb` and the query's buffer ensure), `ListsAssumption`. Of the console: `UartAssumption` (a byte has at
least two values; word size, timeout and bounds are numbers), `ConsoleAssumption`
(strings are sequences of characters of bounded length), `TreeCellsAssumption` (a clock
and a speed in the tree are cells, as 32-bit values are), `BaudAssumption` (the default
speed is not 0), `DtbAssumption`. Of the device tree calls: `DeviceAssumption` (a cell has
an even number of values, more than two, as 2^32 is; half of them are negative as an
`int`, which is where a count of CPUs or the search of a hart goes wrong),
`InputAssumption` and `ScanCellsAssumption` (trees are trees, their cells and references are in
range). Of the kernel: `KernelTextAssumption` (a message is a sequence of strings),
`FirmwareAssumption` (whether the UART fails is up to tree and chip, not one of the firmware's
choices), `KernelFactsAssumption` (`Facts` is what the queries answer). Everything else is arbitrary: page and address size,
capacities, boards, trees of any size and shape, lengths, the length of the polling loop.

The prover's SMT encoding takes `DOMAIN s = 1 .. Len(s)` for granted of any `s`. The modules apply
`Len` to sequences only (TLC refuses anything else), where it holds.

* **Sequences** (`SequenceProofs`): `Least` and `Induction` come from the library's
  well-founded order on the naturals, stated for a set, which the provers can
  instantiate; the theorems of the library that take an operator they cannot. From
  these follow `Recursion` (a recursive function exists and meets its equation) and what
  the modules' recursive functions compute: concatenation of the nodes' entries, sums over
  a list, filters, sums over sets that a step enlarges.
* **Merge** (`RegionMergeProofs`): `MergeTypeCorrect`,
  `MergeSorts`, `MergeSeparates`, `MergeKeepsFlags`. The invariant `MergeInv` says of
  the sorting loop that the first `i - 1` entries ascend, and of the merging loop
  that entries kept ascend, that those to come start no lower, and that a kept
  entry ends below the start of the next one or has other flags (`Settled`). "Live"
  entries, kept or still to come, cover the same addresses before and after each
  step; without the word live the claim is false, since the array still holds
  entries the loop has passed. The rounding lemmas are here, too; `mm_align_up` of a
  value in the last page is 0 there as in the program.
* **Map** (`MemoryMapProofs`): `TypeCorrect`, `FreeIsExact`, `NoFrameIsListedTwice`,
  `SelfCheckNeverFires`, `BuildImplementsFrameMap`. The invariant `Inv` adds to the merge's invariant which phase
  may be merging, that RAM and free lists are of one kind, and for the sweep:
  everything below `j` ends at or below `cursor`, and the list being filled covers
  the RAM passed so far minus what is reserved (`SweepInv`). The inner loop stops
  early at a region that starts above the RAM region; that this misses nothing
  needs only that `reserved` ascends, which the merge guarantees although it does
  not make it disjoint. `FreeExact` is not inductive without `SweepInv`, and
  `SweepInv` not without `MergeInv`, because the lists are merged in between.
  `SelfCheckClean` follows because regions of whole pages that overlap share an
  address. The refinement has one lemma per action.
* **Reservations** (`MemoryMapProofs`): `DevicesStayOutsideRam`,
  `RequestsAreReserved`, `NothingBelowIsFree`. Rounding is the point of the first: the code compares a
  block's own ends with RAM, and stores the rounded ones. As RAM ends on page
  boundaries, rounding stops there (`RoundingStaysApart`). `MmioInv` says so of the
  addresses that carry the device flags, which no merge changes. `RequestInv` says of
  each loop that what it asked for so far is covered by the list being filled;
  covered addresses only grow until the list is kept. `NothingBelowIsFree` needs that
  no RAM region begins below the page some bank begins in (`FrameInv`), which rounding
  and merging keep; when the first memory entry is the lowest, what lies between its
  base and the end of the kernel is the boot area, which is reserved (`NothingBelow`).
* **Page counts** (`MemoryMapProofs`): `TotalsDoAgree`. The code adds up sizes of list
  entries; the proof shows that each sum is the number of pages that the entries cover.
  For RAM and the free list that is so because merging leaves gaps. For the reserved list,
  whose entries may overlap, the code sorts the clipped ranges and counts up to the
  furthest end so far: `RangesInv` says that the scratch arrays cover the RAM
  that the entries passed cover, and `UniquePages` of the sorted ranges is the size of their union by
  induction over its index. As free is RAM minus reserved, the sizes add up.
* **From tree to free list** (`BoardProofs`): `ReservationsAreHeld`,
  `DevicesAreReserved`, `FreeIsTreeMemory`, `TotalsAgreeWithTree`. A build on a board
  is one of `MemoryMap` on `PlatformOf` its tree, so the map's invariants hold; `BankInv` adds that
  the RAM list covers the memory entries gone through and nothing else, `BlockInv` that each
  device block gone through is covered or was skipped. The rest is the way of an entry from
  the tree to the platform: decoding, concatenation over the nodes, and what the buffers cut. `FreeIsTreeMemory` says
  "a byte of some memory entry, or an entry's base", because a build keeps an entry of size 0
  that does not begin at a page boundary: rounding makes a page of it.
* **Device tree calls** (`DtbScanProofs`): `TypesHold`, `DevicesGoForward`, `ScansFindAll`,
  `InterruptsAreGrouped`, `TranslatesRight`. `WalkInv` says where a
  loop may be: a walk over all nodes has libfdt's depth counter at its node's depth, a walk over
  subnodes is at a child of the node it looked up. `GatherInv`
  says that the buffer holds what the nodes before the offset contribute, cut to its size;
  that the nodes skipped by going from subnode to subnode contribute nothing is a fact about trees
  (a node's subtree is an interval). `FatalInv`, `CountInv` and `HartInv` do the same for
  errors that end a walk, counters and the search for a hart. `InterruptInv` says where the
  search for a device's controller is: at a node above the device (`Climbing`), with every node
  that names a controller further up, so the one found is the nearest.
* **Boot** (`BootProofs`): `BootTypeCorrect`, `CallsAreProbed`, `EveryPanicIsHeard`, `SleepIsComplete`, for
  any number of CPUs, any firmware and any set of steps that fail, where TLC takes
  one failure at a time. `ConsoleInv` ties the flag that guards output to the place in
  `kmain`, `ProvidedInv` what each step leaves to the steps after it; both start from
  `StepsAre`, the place of each step, so a changed order breaks the proof.
* **Console** (`UartProofs`): `UartTypeCorrect`, `CallsGoToInitialised`, `ReadyChipIsSet`,
  `OutputKeepsOrder`, `FeedsFollowReturns`, `BytesAreGivenUpLate`. `Inv1` has the types and, what the rest
  needs, where the driver may be: it works only for a console that is ready on it, or
  for an init while the console is not ready, and the divisor latch is open at one
  step only. `DivisorInv`: from the step that writes it the divisor is the
  configuration's, and the chip's interrupts are off; the driver does not change
  either afterwards. `OrderInv`: the positions of the bytes on the line, in the chip
  and with the driver ascend, across the three as well as in each, and with those that
  were lost they are all the bytes ever asked for, so no byte is sent twice or
  vanishes unnoticed. `FeedInv`: a line feed anywhere among those bytes has its
  return among them or among the lost; with the order that puts the return just before it.
  `PollInv`: what the countdown has lost since the byte was begun, the chip has left unanswered.
* **Console as a stream** (`UartProofs`): `ConsoleIsStream`, `UartSpec` implies the
  specification of `ByteStream`. Each action is mapped to one of the stream's:
  `ChipSends` to `Send`, `ChipReceives` to `Arrive`, the start of an init and
  `set_backend` to `Close`, `SetFormat`, which clears the FIFOs, to `Reset`, `WriteChar` to
  `Accept`, `DropChar` to `GiveUp`, the end of an init to `Open`, an output call to `Write`,
  `try_getc` to `Read`; the others, and those that change nothing, stutter. `GiveUp` is for a
  chip that still holds a byte: a console that is ready has a live chip (`ReadyInv`), which
  reports an empty transmitter at once.
* **Kernel on its board** (`KernelProofs`): `LineSpellsWhatWasSaid`, `KernelStepsAsBoot`. Here the
  kernel is the console's only client, so the driver's `Inv1` and `OrderInv` are shown to hold
  again; but not from the start, as until `clear_bss` the flags are whatever memory held, and
  only a byte may come in (`Starting`); from then on they do (`Going`). `PlaceInv` ties the console to
  the place in `kmain`: it is ready exactly after the UART's step, the driver's init runs at that
  step only, nothing is said before it. `FailsInv` ties the init's outcome to tree and chip: it
  succeeds iff the probe finds a UART of a known width and the chip answers. That is so for every length of
  the countdown because `SetFormat` empties the transmitter, which a live chip then reports at once.
  `TextInv`: what was said is what was asked for followed by the strings left to write, and a byte
  anywhere is the one at its position in that text; a new message lengthens both ends alike
  (`SpelledAppend`), a string that is begun goes from the one to the other (`CharsHead`). With
  the order of positions that gives the line. `KernelStepsAsBoot` is the refinement, step by step:
  `ClearBss`, `Silent` and `Telling` are Boot's own actions, the return of the driver's init, or
  a probe that finds nothing, is `InitUart`, and the driver, the chip and `Speak` stutter.

## 5. What is only model-checked, and what is not modelled

Only checked: liveness (the proof system has no liveness under fairness and no `ENABLED`), which is
`MergeReturns`, `BuildReturns`, `ScansReturn`, `CallsReturn`, `BootEnds` and the conjunct
`<>B!Ended` of `ImplementsBoot`. Every safety property of a run that passes is a theorem.

Not modelled:

* the text of dumps and `strerror`, which change nothing; the digits that the `put_`
  functions write (with `put_dec_i32` of `INT_MIN`, whose negation is undefined): what
  they write is a string like any other;
* `reg-shift` and the access width of the UART beyond the check of the width, because a
  register is one variable in the model; the depth of the receive FIFO;
* checks for null pointers, and of a query before `dtb_init` but for the console's;
* other harts: the firmware starts one, and no code starts another, so `kmain` on a
  second hart while the first runs is left out;
* SBI wrappers nobody calls (performance monitoring, `sbi_reference_extension.h`);
* the second stage of the plans under `PlanWdrażania`, which has no code;
* libfdt and OpenSBI, which are external; `entry.S` and the linker script, which have
  no state beyond the symbols that `MemoryMap` takes as constants.

Hazards without a property, each with its reason in `PROJECT.json`. Where nothing in the
repository says what should hold: a region, a bank or a reservation that ends in the
last page of the address space and is dropped (`memory_map.c:86`, `memory_map.c:580`), the
divisor of a clock beyond 32 bits (`ns16550a.c:95`), the speed of another node used
for the UART (`uart_console.c:134`), the boot that goes on after a failed check
(`platform_init.c:76`). Where the passing properties leave the case out, as listed above:
disabled nodes (`dtb.c:370`) and interrupts cut at `DTB_MAX_IRQS` (`dtb.c:829`). And two
that are not modelled: a backend without `put_dec_u64`, which `set_backend` does not ask
for (`uart_console.c:148`; no such backend exists), and `INT_MIN` above.

## 6. Plan

Done, in this order: merge, map, abstraction and refinement, queries and walks,
their composition, UART and console, boot; proofs of merge, map, reservations
and boot; the queries about single nodes; the console as a stream; the kernel on its
board; proofs of the console, of that refinement, of what lies below the first free frame, of the
page counts, of the device tree calls, of what is found from tree to free list, of
the carriage returns, and of the kernel on its board.

Left: a frame allocator and further harts, once the code has them.
