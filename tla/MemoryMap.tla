----------------------------- MODULE MemoryMap -----------------------------
(***************************************************************************)
(* mm_stage2_build (src/kernel/memory_map.c:549-697): the RAM map of the   *)
(* device tree, the list of what must not be allocated, and free memory as *)
(* the first minus the second.  One action per loop iteration, so that     *)
(* every partial map the function holds is a state.                        *)
(*                                                                         *)
(* A platform record is what the calls into libs/dtb answer on one board:  *)
(*   memory       the [base, size] entries of dtb_memory_regions           *)
(*   reserved_err the result of dtb_reserved_memory_regions                *)
(*   reserved     the entries it stored                                    *)
(*   mmio         the [base, size] that dtb_decode_reg yields for the      *)
(*                nodes with a compatible string, in scan order            *)
(*   fdt          [base, size] of the blob itself                          *)
(* init_dtb panics before this code when dtb_memory_regions fails, and     *)
(* leaves the first entry's base in hw->mem_base.                          *)
(***************************************************************************)
EXTENDS RegionMerge, SequencesExt

CONSTANTS
    Platforms,
    KernelStart,      \* _kernel_start
    KernelImageEnd,   \* _kernel_image_end
    MaxRam,           \* MM_MAX_RAM_REGIONS
    WorkspaceCap,     \* MM_REGION_WORKSPACE_CAP
    MaxRanges         \* MM_MAX_RANGES

Extent == [base : Addr, size : Addr]

Platform == [memory : Seq(Extent), reserved_err : {"ok", "nospace", "notfound", "other"},
             reserved : Seq(Extent), mmio : Seq(Extent), fdt : Extent]

ASSUME KernelAssumption ==
    /\ KernelStart \in Addr
    /\ KernelImageEnd \in Addr
    /\ KernelStart < KernelImageEnd
    /\ KernelImageEnd + PageSize <= AddrSpan

ASSUME CapAssumption ==
    /\ MaxRam \in Nat \ {0}
    /\ WorkspaceCap \in Nat \ {0}
    /\ MaxRanges \in Nat \ {0}

ASSUME PlatformAssumption ==
    \A p \in Platforms : p \in Platform /\ Len(p.memory) \in 1 .. MaxRam

VARIABLES
    platform,   \* the board; never changes
    phase,      \* the part of mm_stage2_build that is running
    n,          \* index of its loop, from 1
    ram, reserved, free,  \* the three lists, once merged
    j, cursor,  \* the sweep over reserved regions of one RAM region
    ranges,     \* starts[] and ends[] of mm_sum_pages_clipped_to_ram
    mm_state    \* the results in g_mm_state

mapVars == <<platform, phase, n, ram, reserved, free, j, cursor, ranges, mm_state>>
vars == <<arr, i, out, stage, platform, phase, n, ram, reserved, free, j, cursor,
          ranges, mm_state>>

Phases == {"ram", "own", "dtb", "mmio", "sweep", "clip", "done", "failed", "crashed"}

-----------------------------------------------------------------------------
(* Helpers of the code.                                                     *)

\* Mistake to be noticed: the end is not rounded to a page.
NewRegion_rawEnd(start, end, kind) ==
    [start |-> mm_align_down(start), end |-> end, kind |-> kind]

\* The region mm_region_add makes of its arguments.
NewRegion(start, end, kind) ==
    [start |-> mm_align_down(start), end |-> mm_align_up(end), kind |-> kind]

\* mm_region_add: an empty region is dropped and is no error; a full array is one.
Dropped(r) == r.end <= r.start
AddFails(s, cap, r) == ~Dropped(r) /\ Len(s) >= cap
mm_region_add(s, cap, r) == IF Dropped(r) \/ Len(s) >= cap THEN s ELSE Append(s, r)

\* dtb[k].base + dtb[k].size, which may wrap.
ExtentRegion(e, kind) == NewRegion(e.base, WrapAdd(e.base, e.size), kind)

\* The end of an MMIO block saturates (memory_map.c:357, 403).
MmioEnd(e) == IF e.size > UINT64_MAX - e.base THEN UINT64_MAX ELSE e.base + e.size

mm_region_overlaps_any(start, end, s) ==
    \E q \in DOMAIN s : mm_ranges_overlap(start, end, s[q].start, s[q].end)

mm_addr_in_regions(a, s) == \E q \in DOMAIN s : Inside(a, s[q])

mm_free_overlaps_reserved(fs, rs) ==
    \E p \in DOMAIN fs : mm_region_overlaps_any(fs[p].start, fs[p].end, rs)

\* sum[k] is the sum of the loop after k regions.
mm_sum_pages(s) ==
    LET sum[k \in 0 .. Len(s)] ==
            IF k = 0 THEN 0 ELSE sum[k - 1] + mm_pages_u64(s[k].start, s[k].end)
    IN  sum[Len(s)]

\* The parts of r inside RAM, in the order of the RAM list: row[k] is what the
\* first k RAM regions contribute.
ClippedRow(r, ramList) ==
    LET clip(m) == [start |-> mm_max_u64(r.start, m.start), end |-> mm_min_u64(r.end, m.end)]
        row[k \in 0 .. Len(ramList)] ==
            CASE k = 0 -> <<>>
              [] k > 0 /\ Dropped(clip(ramList[k])) -> row[k - 1]
              [] OTHER -> Append(row[k - 1], clip(ramList[k]))
    IN  row[Len(ramList)]

\* Mistake to be noticed: pages two reserved regions share count twice.
UniquePages_everyRange(rs) ==
    FoldLeft(LAMBDA sum, r : sum + mm_pages_u64(r.start, r.end), 0, rs)

\* The sort of the ranges: each pass of its outer loop brings the lowest start of
\* those left to the front.  left[k] is what k passes leave.
SortedRanges(rs) ==
    LET lowest(S) == CHOOSE q \in S : \A p \in S : rs[q].start <= rs[p].start
        left[k \in 0 .. Len(rs)] ==
            IF k = 0 THEN DOMAIN rs
            ELSE LET S == left[k - 1] IN S \ {lowest(S)}
    IN  [k \in DOMAIN rs |-> rs[lowest(left[k - 1])]]

\* The pages of the collected ranges: sorted by start, joined where they touch
\* or overlap, and added up.  scan[k] is current_start, current_end and sum after
\* k ranges.
UniquePages(rs) ==
    LET sorted == SortedRanges(rs)
        join(acc, r) ==
            IF r.start <= acc.end
            THEN [acc EXCEPT !.end = mm_max_u64(@, r.end)]
            ELSE [start |-> r.start, end |-> r.end,
                  sum |-> acc.sum + mm_pages_u64(acc.start, acc.end)]
        scan[k \in DOMAIN rs] ==
            IF k = 1 THEN [start |-> sorted[1].start, end |-> sorted[1].end, sum |-> 0]
            ELSE join(scan[k - 1], sorted[k])
        last == scan[Len(rs)]
    IN  IF rs = <<>> THEN 0 ELSE last.sum + mm_pages_u64(last.start, last.end)

first_free_frame == mm_align_up(KernelImageEnd)

-----------------------------------------------------------------------------
\* mm_stage2_build is entered on the board p.
InitOn(p) ==
    /\ platform = p
    /\ phase = "ram"
    /\ n = 1
    /\ ram = <<>> /\ reserved = <<>> /\ free = <<>>
    /\ j = 1 /\ cursor = 0
    /\ ranges = <<>>
    /\ mm_state = [ram_pages |-> 0, reserved_pages |-> 0, reserved_pages_in_ram |-> 0,
                   free_pages |-> 0, totals_ok |-> FALSE, first_free_ok |-> FALSE,
                   overlap_free_reserved |-> FALSE]
    /\ arr = <<>> /\ i = 0 /\ out = 0 /\ stage = "idle"

Init == \E p \in Platforms : InitOn(p)

\* mm_region_add(arr, cap, r), and the return of its error by mm_stage2_build.
AddRegion(cap, r) ==
    /\ arr' = mm_region_add(arr, cap, r)
    /\ phase' = IF AddFails(arr, cap, r) THEN "failed" ELSE phase

\* Mistake to be noticed: the array of the next list starts with the last one's entries.
NextList_notEmptied(nextPhase) ==
    /\ stage = "merged"
    /\ stage' = "idle"
    /\ n' = 1
    /\ phase' = nextPhase
    /\ UNCHANGED <<arr, i, out>>

\* The merged list is taken over and the array of the next list starts empty.
NextList(nextPhase) ==
    /\ stage = "merged"
    /\ stage' = "idle"
    /\ arr' = <<>>
    /\ n' = 1
    /\ phase' = nextPhase
    /\ UNCHANGED <<i, out>>

\* for (i < dtb_ram_count) mm_region_add(ram, ...)
AddRam ==
    /\ phase = "ram" /\ stage = "idle" /\ n <= Len(platform.memory)
    /\ AddRegion(MaxRam, ExtentRegion(platform.memory[n], "allocatable"))
    /\ n' = n + 1
    /\ UNCHANGED <<i, out, stage, platform, ram, reserved, free, j, cursor, ranges, mm_state>>

KeepRam ==
    /\ phase = "ram"
    /\ NextList("own")
    /\ ram' = Merged
    /\ UNCHANGED <<platform, reserved, free, j, cursor, ranges, mm_state>>

\* Mistake to be noticed: the last bank is taken for the one the kernel lies in.
OwnRequests_lastBank(p) ==
    <<NewRegion(KernelStart, KernelImageEnd, "kernel"),
      NewRegion(p.memory[Len(p.memory)].base, KernelStart, "boot"),
      ExtentRegion(p.fdt, "dtb")>>

\* What the kernel reserves for itself: its image, what lies below it in the
\* bank that init_dtb took for the main one, and the device tree blob.
OwnRequests(p) ==
    <<NewRegion(KernelStart, KernelImageEnd, "kernel"),
      NewRegion(p.memory[1].base, KernelStart, "boot"),
      ExtentRegion(p.fdt, "dtb")>>

ReserveOwn ==
    /\ phase = "own" /\ n <= 3
    /\ AddRegion(WorkspaceCap, OwnRequests(platform)[n])
    /\ n' = n + 1
    /\ UNCHANGED <<i, out, stage, platform, ram, reserved, free, j, cursor, ranges, mm_state>>

\* dtb_reserved_memory_regions: a device tree without such regions and one with
\* more than fit are both accepted.
ReadReserved ==
    /\ phase = "own" /\ n > 3
    /\ phase' = IF platform.reserved_err = "other" THEN "failed" ELSE "dtb"
    /\ n' = 1
    /\ UNCHANGED <<arr, i, out, stage, platform, ram, reserved, free, j, cursor, ranges, mm_state>>

\* Mistake to be noticed: NOSPACE is treated like an empty list.
DtbReserved_okOnly(p) == IF p.reserved_err = "ok" THEN p.reserved ELSE <<>>

\* The entries stored count only when the call answered 0 or NOSPACE.
DtbReserved(p) == IF p.reserved_err = "notfound" THEN <<>> ELSE p.reserved

ReserveDtb ==
    /\ phase = "dtb"
    /\ IF n <= Len(DtbReserved(platform))
       THEN /\ AddRegion(WorkspaceCap, ExtentRegion(platform.reserved[n], "dtb_reserved"))
            /\ n' = n + 1
       ELSE phase' = "mmio" /\ n' = 1 /\ UNCHANGED arr
    /\ UNCHANGED <<i, out, stage, platform, ram, reserved, free, j, cursor, ranges, mm_state>>

\* Mistake to be noticed: blocks inside RAM are taken for devices.
Skipped_emptyOnly(e) == e.size = 0

\* One register block of mm_collect_dtb_mmio_regions: blocks that touch RAM and
\* blocks of size 0 are skipped.
Skipped(e) == e.size = 0 \/ mm_region_overlaps_any(e.base, MmioEnd(e), ram)

ReserveMmio ==
    /\ phase = "mmio" /\ stage = "idle" /\ n <= Len(platform.mmio)
    /\ LET e == platform.mmio[n]
       IN  IF Skipped(e) THEN UNCHANGED <<arr, phase>>
           ELSE AddRegion(WorkspaceCap, NewRegion(e.base, MmioEnd(e), "mmio"))
    /\ n' = n + 1
    /\ UNCHANGED <<i, out, stage, platform, ram, reserved, free, j, cursor, ranges, mm_state>>

CursorAt(k) == IF k <= Len(ram) THEN ram[k].start ELSE 0

KeepReserved ==
    /\ phase = "mmio"
    /\ NextList("sweep")
    /\ reserved' = Merged
    /\ j' = 1 /\ cursor' = CursorAt(1)
    /\ UNCHANGED <<platform, ram, free, ranges, mm_state>>

-----------------------------------------------------------------------------
(* Free memory: for each RAM region the reserved list is swept once.        *)

\* The inner loop goes on: neither of its breaks and not its end.
SweepGoesOn ==
    /\ j <= Len(reserved)
    /\ cursor < ram[n].end
    /\ reserved[j].end <= cursor \/ reserved[j].start < ram[n].end

\* Mistake to be noticed: the gap runs on to the end of RAM.
Gap_toRamEnd == NewRegion(cursor, ram[n].end, "allocatable")

Gap == NewRegion(cursor, mm_min_u64(reserved[j].start, ram[n].end), "allocatable")

\* Mistakes to be noticed: the cursor follows every region, also backwards; the
\* loop index stays.
Sweep_cursorBack ==
    /\ phase = "sweep" /\ stage = "idle" /\ n <= Len(ram) /\ SweepGoesOn
    /\ IF reserved[j].end > cursor /\ reserved[j].start > cursor
       THEN AddRegion(WorkspaceCap, Gap)
       ELSE UNCHANGED <<arr, phase>>
    /\ cursor' = reserved[j].end
    /\ j' = j + 1
    /\ UNCHANGED <<i, out, stage, platform, n, ram, reserved, free, ranges, mm_state>>
Sweep_keepsIndex ==
    /\ phase = "sweep" /\ stage = "idle" /\ n <= Len(ram) /\ SweepGoesOn
    /\ IF reserved[j].end > cursor /\ reserved[j].start > cursor
       THEN AddRegion(WorkspaceCap, Gap)
       ELSE UNCHANGED <<arr, phase>>
    /\ cursor' = mm_max_u64(cursor, reserved[j].end)
    /\ UNCHANGED <<i, j, out, stage, platform, n, ram, reserved, free, ranges, mm_state>>

\* One iteration: a region that ends at or below the cursor is skipped, another
\* one closes the gap below it and moves the cursor to its end.
Sweep ==
    /\ phase = "sweep" /\ stage = "idle" /\ n <= Len(ram) /\ SweepGoesOn
    /\ IF reserved[j].end > cursor /\ reserved[j].start > cursor
       THEN AddRegion(WorkspaceCap, Gap)
       ELSE UNCHANGED <<arr, phase>>
    /\ cursor' = mm_max_u64(cursor, reserved[j].end)
    /\ j' = j + 1
    /\ UNCHANGED <<i, out, stage, platform, n, ram, reserved, free, ranges, mm_state>>

\* After the loop: what is left above the cursor, and on to the next RAM region.
SweepTail ==
    /\ phase = "sweep" /\ stage = "idle" /\ n <= Len(ram) /\ ~SweepGoesOn
    /\ IF cursor < ram[n].end
       THEN AddRegion(WorkspaceCap, NewRegion(cursor, ram[n].end, "allocatable"))
       ELSE UNCHANGED <<arr, phase>>
    /\ n' = n + 1
    /\ j' = 1 /\ cursor' = CursorAt(n + 1)
    /\ UNCHANGED <<i, out, stage, platform, ram, reserved, free, ranges, mm_state>>

KeepFree ==
    /\ phase = "sweep"
    /\ NextList("clip")
    /\ free' = Merged
    /\ UNCHANGED <<platform, ram, reserved, j, cursor, ranges, mm_state>>

-----------------------------------------------------------------------------
\* The three calls of mm_merge_regions, each after the loop that fills its list.
CallMerge ==
    /\ \/ phase = "ram" /\ n > Len(platform.memory)
       \/ phase = "mmio" /\ n > Len(platform.mmio)
       \/ phase = "sweep" /\ n > Len(ram)
    /\ StartMerge
    /\ UNCHANGED mapVars

RunMerge == MergeStep /\ UNCHANGED mapVars

-----------------------------------------------------------------------------
\* One row of mm_sum_pages_clipped_to_ram.  The bound is tested per row, not per
\* range, so a row may write past starts[] and ends[].
Clip ==
    /\ phase = "clip" /\ n <= Len(reserved) /\ Len(ranges) < MaxRanges
    /\ ranges' = ranges \o ClippedRow(reserved[n], ram)
    /\ n' = n + 1
    /\ UNCHANGED <<arr, i, out, stage, platform, phase, ram, reserved, free, j, cursor, mm_state>>

ClipEnds == n > Len(reserved) \/ Len(ranges) >= MaxRanges

Overrun == Len(ranges) > MaxRanges

\* A write past the arrays on the stack may hit the return address.
Crash ==
    /\ phase = "clip" /\ Overrun
    /\ phase' = "crashed"
    /\ UNCHANGED <<arr, i, out, stage, platform, n, ram, reserved, free, j, cursor, ranges, mm_state>>

\* The page counts, the three checks, and their publication in g_mm_state.
Publish ==
    /\ phase = "clip" /\ ClipEnds
    /\ phase' = "done"
    /\ \E in_ram \in IF Overrun THEN 0 .. AddrSpan \div PageSize ELSE {UniquePages(ranges)} :
         mm_state' =
            [ram_pages |-> mm_sum_pages(ram),
             reserved_pages |-> mm_sum_pages(reserved),
             reserved_pages_in_ram |-> in_ram,
             free_pages |-> mm_sum_pages(free),
             totals_ok |-> mm_sum_pages(ram) = in_ram + mm_sum_pages(free),
             first_free_ok |-> mm_addr_in_regions(first_free_frame, free),
             overlap_free_reserved |-> mm_free_overlaps_reserved(free, reserved)]
    /\ UNCHANGED <<arr, i, out, stage, platform, n, ram, reserved, free, j, cursor, ranges>>

\* mm_stage2_build has returned (or the machine is lost).
Returned == phase \in {"done", "failed", "crashed"} /\ UNCHANGED vars

Next ==
    \/ AddRam \/ KeepRam
    \/ ReserveOwn \/ ReadReserved \/ ReserveDtb \/ ReserveMmio \/ KeepReserved
    \/ Sweep \/ SweepTail \/ KeepFree
    \/ CallMerge \/ RunMerge
    \/ Clip \/ Crash \/ Publish
    \/ Returned

Spec == Init /\ [][Next]_vars /\ WF_vars(Next)
-----------------------------------------------------------------------------
(* Properties.                                                              *)

\* Every variable has its type, and every region in a list is whole pages.
TypeOK ==
    /\ MergeTypeOK
    /\ platform \in Platform /\ Len(platform.memory) \in 1 .. MaxRam
    /\ phase \in Phases
    /\ n \in Nat \ {0}
    /\ ram \in Seq(Region) /\ reserved \in Seq(Region) /\ free \in Seq(Region)
    /\ j \in Nat \ {0}
    /\ cursor \in Addr
    /\ WholePages(arr) /\ WholePages(ram) /\ WholePages(reserved) /\ WholePages(free)

\* The free list covers exactly the RAM that no reserved region covers: no
\* reserved page is handed out and no usable page is lost, although the sweep
\* looks at each reserved region once and trusts the list's order.
FreeExact ==
    phase \in {"clip", "done"} => Cover(free) = Cover(ram) \ Cover(reserved)

\* The same as a whole: the build implements FrameMap.  A list counts from the
\* moment it is being filled; free memory when it is published.
FrameRam == CASE phase = "ram" -> LiveCover
              [] phase \in {"failed", "crashed"} -> {}
              [] OTHER -> Cover(ram)

FrameReserved == CASE phase \in {"own", "dtb", "mmio"} -> LiveCover
                   [] phase \in {"failed", "crashed"} -> {}
                   [] OTHER -> Cover(reserved)

FrameFree == IF phase = "done" THEN Cover(free) ELSE {}

FrameStatus == CASE phase = "ram" -> "collecting"
                 [] phase = "done" -> "published"
                 [] phase \in {"failed", "crashed"} -> "gave_up"
                 [] OTHER -> "reserving"

Frames == INSTANCE FrameMap WITH
    inRam <- FrameRam, inReserved <- FrameReserved, inFree <- FrameFree, status <- FrameStatus

ImplementsFrameMap == Frames!FrameSpec

\* RAM regions, and free regions, are in ascending order with a gap between any
\* two of them: no frame is listed twice.
NoFrameTwice == Separated(ram) /\ Separated(free)

\* Unless the address wraps, the pages of the kernel image, of the blob, of the
\* boot area and of every /reserved-memory entry the call stored are in the
\* reserved list when the sweep starts, whatever was merged with what.
NoWrap(e) == e.base + e.size + PageSize <= AddrSpan

StoredEntries(p) == IF p.reserved_err \in {"ok", "nospace"} THEN Range(p.reserved) ELSE {}

RequestsReserved ==
    phase \in {"sweep", "clip", "done"} =>
        /\ KernelStart .. KernelImageEnd - 1 \subseteq Cover(reserved)
        /\ platform.memory[1].base .. KernelStart - 1 \subseteq Cover(reserved)
        /\ \A e \in {platform.fdt} \cup StoredEntries(platform) :
             NoWrap(e) => e.base .. e.base + e.size - 1 \subseteq Cover(reserved)

\* Rounding an MMIO block to pages never reaches into RAM, although the overlap
\* test compares unrounded ends (memory_map.c:405) with rounded RAM.
MmioOutsideRam ==
    \A q \in DOMAIN reserved :
        reserved[q].kind = "mmio" =>
            ~mm_region_overlaps_any(reserved[q].start, reserved[q].end, ram)

\* Free memory begins behind the kernel, as the memory contract says
\* (MemoryContract_v0.md:44-45), on a board whose main bank is its lowest: whoever
\* starts at first_free_frame misses nothing, however RAM and reservations are rounded,
\* merged and swept.
MainBankLowest == \A q \in DOMAIN platform.memory : platform.memory[1].base <= platform.memory[q].base

NothingFreeBelow ==
    phase = "done" /\ MainBankLowest => \A a \in Cover(free) : KernelImageEnd <= a

\* When every range fitted the scratch arrays, the totals check passes: pages
\* reserved twice, and pages reserved outside RAM, are not counted against RAM.
AllClipped == n > Len(reserved) /\ Len(ranges) <= MaxRanges

TotalsAgree == phase = "done" /\ AllClipped => mm_state.totals_ok

\* The kernel's own check for free memory inside reserved memory never fires,
\* even on device trees whose reservations overlap.
SelfCheckClean == phase = "done" => ~mm_state.overlap_free_reserved

\* mm_stage2_build returns: every loop ends.
BuildReturns == <>(phase \in {"done", "failed", "crashed"})

-----------------------------------------------------------------------------
(* Statements of the repository that the code does not keep.                *)

\* The totals check R == Z + F passes on every map built
\* (Etap2_MapaFizyczna_Reserved.md:59-60).
TotalsAlwaysAgree == phase = "done" => mm_state.totals_ok

\* first_free_frame lies in a free range of every map built
\* (Etap2_MapaFizyczna_Reserved.md:58).
FirstFrameIsFree == phase = "done" => first_free_frame \in Cover(free)
=============================================================================
