-------------------------- MODULE MemoryMapProofs --------------------------
(***************************************************************************)
(* mm_stage2_build, for every board, page size, address space and table    *)
(* size: it computes free memory exactly; reservations survive rounding    *)
(* and merging, and no device block reaches RAM; and the three loops that  *)
(* add up pages count the pages of the addresses their lists cover.        *)
(***************************************************************************)
EXTENDS MemoryMap, RegionMergeProofs

\* What relates the phase to the lists: where a merge may run, that the RAM and
\* free lists hold one kind only, and the order the sweep relies on.
PhaseInv ==
    /\ stage # "idle" =>
         \/ phase = "ram" /\ n > Len(platform.memory)
         \/ phase = "mmio" /\ n > Len(platform.mmio)
         \/ phase = "sweep" /\ n > Len(ram)
    /\ phase \in {"ram", "sweep"} => \A q \in Live : arr[q].kind = "allocatable"
    /\ phase \in {"ram", "own", "dtb", "mmio"} => reserved = <<>>
    /\ phase \in {"sweep", "clip", "done"} => Ascending(reserved, DOMAIN reserved)
    /\ phase = "clip" => stage = "idle"

\* The RAM the sweep has been over, minus what is reserved.
Swept(a) ==
    /\ a \notin Cover(reserved)
    /\ \/ \E p \in 1 .. n - 1 : Inside(a, ram[p])
       \/ n <= Len(ram) /\ ram[n].start <= a /\ a < cursor /\ a < ram[n].end

\* The sweep: everything below j ends at or below the cursor, and the free list
\* covers what was swept.
SweepInv ==
    phase = "sweep" =>
        /\ n <= Len(ram) + 1
        /\ n <= Len(ram) =>
             /\ ram[n].start <= cursor
             /\ IsAligned(cursor)
             /\ j <= Len(reserved) + 1
             /\ \A q \in 1 .. j - 1 : reserved[q].end <= cursor
        /\ LiveCover = {a \in Addr : Swept(a)}

Inv == TypeOK /\ MergeInv /\ PhaseInv /\ SweepInv /\ FreeExact /\ NoFrameTwice

-----------------------------------------------------------------------------
(* mm_region_add.                                                           *)

\* mm_region_add makes a region of whole pages from any two ends, unless it drops it.
LEMMA NewRegionType ==
    ASSUME NEW start \in Addr, NEW end \in Addr, NEW kind \in Kinds
    PROVE  /\ NewRegion(start, end, kind) \in Region
           /\ ~Dropped(NewRegion(start, end, kind)) => WellFormed(NewRegion(start, end, kind))
           /\ NewRegion(start, end, kind).kind = kind
  <1>1. start \in Nat /\ end \in Nat
    BY PageAssumption DEF Addr
  <1>2. mm_align_down(start) \in Addr /\ IsAligned(mm_align_down(start))
    BY <1>1, AlignDown, PageAssumption DEF Addr
  <1>3. mm_align_up(end) \in Addr /\ IsAligned(mm_align_up(end))
    BY <1>1, AlignUpType
  <1> QED
    BY <1>2, <1>3, PageAssumption DEF NewRegion, Region, Dropped, WellFormed, Addr

\* A region that is whole pages already is stored as it is.
LEMMA NewRegionExact ==
    ASSUME NEW start \in Addr, NEW end \in Addr, NEW kind \in Kinds,
           IsAligned(start), IsAligned(end)
    PROVE  NewRegion(start, end, kind) = [start |-> start, end |-> end, kind |-> kind]
  BY AlignedIdentity DEF NewRegion

\* Adding a region without an error covers its addresses besides what was covered,
\* and brings in no other flags.
LEMMA RegionAddFacts ==
    ASSUME NEW s \in Seq(Region), WholePages(s), NEW cap \in Nat, NEW r \in Region,
           ~Dropped(r) => WellFormed(r), ~AddFails(s, cap, r)
    PROVE  /\ Cover(mm_region_add(s, cap, r)) = Cover(s) \cup {a \in Addr : Inside(a, r)}
           /\ \A k \in Kinds : (\A q \in DOMAIN s : s[q].kind = k) /\ r.kind = k =>
                \A q \in DOMAIN mm_region_add(s, cap, r) : mm_region_add(s, cap, r)[q].kind = k
  <1>1. Len(s) \in Nat /\ DOMAIN s = 1 .. Len(s)
    BY SeqDomain
  <1>2. CASE Dropped(r)
    <2>1. {a \in Addr : Inside(a, r)} = {}
      BY <1>2, PageAssumption DEF Dropped, Inside, Region, Addr
    <2> QED
      BY <1>2, <2>1 DEF mm_region_add
  <1>3. CASE ~Dropped(r)
    <2> DEFINE t == Append(s, r)
    <2>1. mm_region_add(s, cap, r) = t
      BY <1>1, <1>3 DEF mm_region_add, AddFails
    <2>2. /\ DOMAIN t = 1 .. Len(s) + 1 /\ t[Len(s) + 1] = r
          /\ \A q \in 1 .. Len(s) : t[q] = s[q]
      BY <1>1
    <2> HIDE DEF t
    <2>3. Cover(t) = Cover(s) \cup {a \in Addr : Inside(a, r)}
      <3>1. ASSUME NEW a \in Addr
            PROVE  (\E q \in 1 .. Len(s) + 1 : Inside(a, t[q])) <=>
                   (\E q \in 1 .. Len(s) : Inside(a, s[q])) \/ Inside(a, r)
        <4>1. \A q \in 1 .. Len(s) + 1 : q \in 1 .. Len(s) \/ q = Len(s) + 1
          BY <1>1
        <4>2. Len(s) + 1 \in 1 .. Len(s) + 1 /\ 1 .. Len(s) \subseteq 1 .. Len(s) + 1
          BY <1>1
        <4> QED
          BY <2>2, <4>1, <4>2
      <3> QED
        BY <1>1, <2>2, <3>1 DEF Cover, CoverOf
    <2>4. ASSUME NEW k \in Kinds, \A q \in DOMAIN s : s[q].kind = k, r.kind = k
          PROVE  \A q \in DOMAIN t : t[q].kind = k
      BY <1>1, <2>2, <2>4
    <2> QED
      BY <2>1, <2>3, <2>4
  <1> QED
    BY <1>2, <1>3

\* Whether it fails or not, mm_region_add leaves a list of whole pages.
LEMMA RegionAddType ==
    ASSUME NEW s \in Seq(Region), WholePages(s), NEW cap \in Nat, NEW r \in Region,
           ~Dropped(r) => WellFormed(r)
    PROVE  mm_region_add(s, cap, r) \in Seq(Region) /\ WholePages(mm_region_add(s, cap, r))
  <1>1. Len(s) \in Nat /\ DOMAIN s = 1 .. Len(s)
    BY SeqDomain
  <1>2. CASE Dropped(r) \/ Len(s) >= cap
    BY <1>2 DEF mm_region_add
  <1>3. CASE ~(Dropped(r) \/ Len(s) >= cap)
    <2>1. mm_region_add(s, cap, r) = Append(s, r) /\ WellFormed(r)
      BY <1>3 DEF mm_region_add
    <2>2. /\ Append(s, r) \in Seq(Region) /\ DOMAIN Append(s, r) = 1 .. Len(s) + 1
          /\ Append(s, r)[Len(s) + 1] = r /\ \A q \in 1 .. Len(s) : Append(s, r)[q] = s[q]
      BY <1>1
    <2>3. WholePages(Append(s, r))
      BY <1>1, <2>1, <2>2 DEF WholePages
    <2> QED
      BY <2>1, <2>2, <2>3
  <1> QED
    BY <1>2, <1>3

\* The region of a base and a size has a type also where their sum wraps.
LEMMA ExtentRegionType ==
    ASSUME NEW e \in Extent, NEW kind \in Kinds
    PROVE  /\ ExtentRegion(e, kind) \in Region
           /\ ~Dropped(ExtentRegion(e, kind)) => WellFormed(ExtentRegion(e, kind))
           /\ ExtentRegion(e, kind).kind = kind
  <1>1. e.base \in Addr /\ e.size \in Addr /\ e.base \in Nat /\ e.size \in Nat
    BY PageAssumption DEF Extent, Addr
  <1>2. WrapAdd(e.base, e.size) \in Addr
    BY <1>1, WrapAddType
  <1> QED
    BY <1>1, <1>2, NewRegionType DEF ExtentRegion

\* An action that adds one region and does nothing else to the array.
LEMMA AddRegionFacts ==
    ASSUME MergeTypeOK, WholePages(arr), stage = "idle",
           NEW cap \in Nat, NEW r \in Region, ~Dropped(r) => WellFormed(r),
           AddRegion(cap, r), UNCHANGED <<i, out, stage>>
    PROVE  /\ MergeTypeOK' /\ MergeInv' /\ WholePages(arr)'
           /\ phase' \in {phase, "failed"}
           /\ phase' # "failed" =>
                /\ LiveCover' = LiveCover \cup {a \in Addr : Inside(a, r)}
                /\ \A k \in Kinds : (\A q \in Live : arr[q].kind = k) /\ r.kind = k =>
                                     (\A q \in Live' : arr'[q].kind = k)
  <1>1. arr \in Seq(Region) /\ arr' = mm_region_add(arr, cap, r)
    BY DEF MergeTypeOK, AddRegion
  <1>2. arr' \in Seq(Region) /\ WholePages(arr')
    BY <1>1, RegionAddType
  <1>3. MergeTypeOK' /\ MergeInv' /\ WholePages(arr)'
    BY <1>2 DEF MergeTypeOK, MergeInv
  <1>4. Live = DOMAIN arr /\ Live' = DOMAIN arr'
    BY <1>1, <1>2, SeqDomain DEF Live
  <1>5. LiveCover = Cover(arr) /\ LiveCover' = Cover(arr')
    BY <1>4 DEF LiveCover, Cover
  <1>6. phase' = IF AddFails(arr, cap, r) THEN "failed" ELSE phase
    BY DEF AddRegion
  <1>7. CASE AddFails(arr, cap, r)
    BY <1>3, <1>6, <1>7
  <1>8. CASE ~AddFails(arr, cap, r)
    <2>1. /\ Cover(arr') = Cover(arr) \cup {a \in Addr : Inside(a, r)}
          /\ \A k \in Kinds : (\A q \in DOMAIN arr : arr[q].kind = k) /\ r.kind = k =>
                \A q \in DOMAIN arr' : arr'[q].kind = k
      BY <1>1, <1>8, RegionAddFacts
    <2> QED
      BY <1>3, <1>4, <1>5, <1>6, <1>8, <2>1
  <1> QED
    BY <1>7, <1>8

-----------------------------------------------------------------------------
(* The invariant holds at the start and every action keeps it.              *)

\* The invariant holds when mm_stage2_build is entered.
LEMMA InitInv ==
    ASSUME Init
    PROVE  Inv
  <1>1. TypeOK
    BY PageAssumption, PlatformAssumption DEF Init, InitOn, TypeOK, MergeTypeOK, Phases, Stages,
       WholePages, Addr
  <1>2. Live = {}
    BY DEF Init, InitOn, Live
  <1> QED
    BY <1>1, <1>2 DEF Init, InitOn, Inv, MergeInv, PhaseInv, SweepInv, FreeExact, NoFrameTwice, Separated

\* The loop over the memory entries of the device tree.
LEMMA AddRamInv ==
    ASSUME Inv, AddRam
    PROVE  Inv' /\ (phase' # "failed" => LiveCover \subseteq LiveCover')
  <1> DEFINE r == ExtentRegion(platform.memory[n], "allocatable")
  <1>1. platform.memory[n] \in Extent
    <2>1. platform \in Platform /\ n \in Nat \ {0}
      BY DEF Inv, TypeOK
    <2> QED
      BY <2>1 DEF AddRam, Platform
  <1>2. r \in Region /\ (~Dropped(r) => WellFormed(r)) /\ r.kind = "allocatable"
    BY <1>1, ExtentRegionType DEF Kinds
  <1>3. MaxRam \in Nat
    BY CapAssumption
  <1>4. AddRegion(MaxRam, r) /\ UNCHANGED <<i, out, stage>> /\ stage = "idle"
    BY DEF AddRam
  <1>5. MergeTypeOK /\ WholePages(arr)
    BY DEF Inv, TypeOK
  <1> HIDE DEF r
  <1>6. /\ MergeTypeOK' /\ MergeInv' /\ WholePages(arr)'
        /\ phase' \in {"ram", "failed"}
        /\ phase' = "ram" => \A q \in Live' : arr'[q].kind = "allocatable"
        /\ phase' # "failed" => LiveCover \subseteq LiveCover'
    BY <1>2, <1>3, <1>4, <1>5, AddRegionFacts DEF Inv, PhaseInv, AddRam, Kinds
  <1>7. TypeOK'
    BY <1>6 DEF Inv, TypeOK, AddRam, Phases
  <1>8. PhaseInv'
    BY <1>6 DEF Inv, PhaseInv, AddRam
  <1> QED
    BY <1>6, <1>7, <1>8 DEF Inv, SweepInv, FreeExact, NoFrameTwice, AddRam

\* The merged RAM list is kept, and the reserved list is begun.
LEMMA KeepRamInv ==
    ASSUME Inv, KeepRam
    PROVE  Inv'
  <1>1. MergeTypeOK /\ MergeInv /\ WholePages(arr) /\ stage = "merged"
    BY DEF Inv, TypeOK, KeepRam, NextList
  <1>2. Merged \in Seq(Region) /\ WholePages(Merged) /\ Separated(Merged)
    BY <1>1, MergedFacts DEF Inv, PhaseInv, KeepRam, Kinds
  <1>3. MergeTypeOK' /\ MergeInv' /\ WholePages(arr)'
    BY DEF Inv, TypeOK, MergeTypeOK, MergeInv, WholePages, KeepRam, NextList, Stages
  <1>4. TypeOK'
    BY <1>2, <1>3 DEF Inv, TypeOK, KeepRam, NextList, Phases
  <1>5. PhaseInv'
    BY DEF Inv, PhaseInv, KeepRam, NextList
  <1> QED
    BY <1>2, <1>3, <1>4, <1>5 DEF Inv, SweepInv, FreeExact, NoFrameTwice, KeepRam, NextList

\* The three reserving loops share one argument: the region added is well formed
\* and the phase stays before the sweep.
LEMMA ReserveInv ==
    ASSUME Inv, phase \in {"own", "dtb", "mmio"}, stage = "idle",
           NEW r \in Region, ~Dropped(r) => WellFormed(r),
           AddRegion(WorkspaceCap, r), n' = n + 1,
           UNCHANGED <<i, out, stage, platform, ram, reserved, free, j, cursor, ranges, mm_state>>
    PROVE  Inv' /\ (phase' # "failed" => LiveCover \subseteq LiveCover')
  <1>1. MergeTypeOK /\ WholePages(arr) /\ WorkspaceCap \in Nat
    BY CapAssumption DEF Inv, TypeOK
  <1>2. /\ MergeTypeOK' /\ MergeInv' /\ WholePages(arr)'
        /\ phase' \in {phase, "failed"}
        /\ phase' # "failed" => LiveCover \subseteq LiveCover'
    BY <1>1, AddRegionFacts
  <1>3. TypeOK'
    BY <1>2 DEF Inv, TypeOK, Phases
  <1>4. PhaseInv'
    BY <1>2 DEF Inv, PhaseInv
  <1> QED
    BY <1>2, <1>3, <1>4 DEF Inv, SweepInv, FreeExact, NoFrameTwice

\* The reservations for boot area, kernel image and device tree.
LEMMA ReserveOwnInv ==
    ASSUME Inv, ReserveOwn
    PROVE  Inv' /\ (phase' # "failed" => LiveCover \subseteq LiveCover')
  <1>1. platform \in Platform /\ n \in {1, 2, 3} /\ Len(platform.memory) >= 1
    BY DEF Inv, TypeOK, ReserveOwn
  <1>2. stage = "idle"
    BY DEF Inv, PhaseInv, ReserveOwn
  <1>3. platform.memory[1].base \in Addr /\ platform.fdt \in Extent
    <2>1. platform.memory \in Seq(Extent) /\ platform.fdt \in Extent
      BY <1>1 DEF Platform
    <2>2. platform.memory[1] \in Extent
      BY <1>1, <2>1
    <2> QED
      BY <2>1, <2>2 DEF Extent
  <1> DEFINE r == OwnRequests(platform)[n]
  <1>4. r \in Region /\ (~Dropped(r) => WellFormed(r))
    <2>1. CASE n = 1
      BY <2>1, NewRegionType, KernelAssumption DEF OwnRequests, Kinds
    <2>2. CASE n = 2
      BY <1>3, <2>2, NewRegionType, KernelAssumption DEF OwnRequests, Kinds
    <2>3. CASE n = 3
      BY <1>3, <2>3, ExtentRegionType DEF OwnRequests, Kinds
    <2> QED
      BY <1>1, <2>1, <2>2, <2>3
  <1>5. AddRegion(WorkspaceCap, r)
    BY DEF ReserveOwn
  <1> HIDE DEF r
  <1> QED
    BY <1>2, <1>4, <1>5, ReserveInv DEF ReserveOwn

\* The answer of the reserved-memory query.
LEMMA ReadReservedInv ==
    ASSUME Inv, ReadReserved
    PROVE  Inv'
  <1>1. TypeOK'
    BY DEF Inv, TypeOK, MergeTypeOK, WholePages, ReadReserved, Phases
  <1>2. MergeInv' /\ PhaseInv'
    BY DEF Inv, MergeInv, PhaseInv, ReadReserved
  <1> QED
    BY <1>1, <1>2 DEF Inv, SweepInv, FreeExact, NoFrameTwice, ReadReserved

\* The loop over the reservations of the device tree.
LEMMA ReserveDtbInv ==
    ASSUME Inv, ReserveDtb
    PROVE  Inv' /\ (phase' # "failed" => LiveCover \subseteq LiveCover')
  <1>1. platform \in Platform /\ n \in Nat \ {0}
    BY DEF Inv, TypeOK
  <1>2. stage = "idle"
    BY DEF Inv, PhaseInv, ReserveDtb
  <1>3. CASE n <= Len(DtbReserved(platform))
    <2>1. platform.reserved[n] \in Extent
      BY <1>1, <1>3 DEF DtbReserved, Platform
    <2>2. ExtentRegion(platform.reserved[n], "dtb_reserved") \in Region
          /\ (~Dropped(ExtentRegion(platform.reserved[n], "dtb_reserved")) =>
                WellFormed(ExtentRegion(platform.reserved[n], "dtb_reserved")))
      BY <2>1, ExtentRegionType DEF Kinds
    <2> QED
      BY <1>2, <1>3, <2>2, ReserveInv DEF ReserveDtb
  <1>4. CASE ~(n <= Len(DtbReserved(platform)))
    <2>1. TypeOK'
      BY <1>4 DEF Inv, TypeOK, MergeTypeOK, WholePages, ReserveDtb, Phases
    <2>2. MergeInv' /\ PhaseInv'
      BY <1>2, <1>4 DEF Inv, MergeInv, PhaseInv, ReserveDtb
    <2>3. LiveCover' = LiveCover
      BY <1>4 DEF ReserveDtb, LiveCover, Live
    <2> QED
      BY <1>4, <2>1, <2>2, <2>3 DEF Inv, SweepInv, FreeExact, NoFrameTwice, ReserveDtb
  <1> QED
    BY <1>3, <1>4

\* The loop over the devices.
LEMMA ReserveMmioInv ==
    ASSUME Inv, ReserveMmio
    PROVE  Inv' /\ (phase' # "failed" => LiveCover \subseteq LiveCover')
  <1> DEFINE e == platform.mmio[n]
  <1>1. e \in Extent
    <2>1. platform \in Platform /\ n \in Nat \ {0}
      BY DEF Inv, TypeOK
    <2> QED
      BY <2>1 DEF ReserveMmio, Platform
  <1>2. stage = "idle" /\ phase = "mmio" /\ n' = n + 1
        /\ UNCHANGED <<i, out, stage, platform, ram, reserved, free, j, cursor, ranges, mm_state>>
        /\ IF Skipped(e) THEN UNCHANGED <<arr, phase>>
           ELSE AddRegion(WorkspaceCap, NewRegion(e.base, MmioEnd(e), "mmio"))
    BY DEF ReserveMmio
  <1> HIDE DEF e
  <1>3. CASE Skipped(e)
    <2>1. TypeOK'
      BY <1>2, <1>3 DEF Inv, TypeOK, MergeTypeOK, WholePages
    <2>2. MergeInv' /\ PhaseInv'
      BY <1>2, <1>3 DEF Inv, MergeInv, PhaseInv
    <2>3. LiveCover' = LiveCover
      BY <1>2, <1>3 DEF LiveCover, Live
    <2> QED
      BY <1>2, <1>3, <2>1, <2>2, <2>3 DEF Inv, SweepInv, FreeExact, NoFrameTwice
  <1>4. CASE ~Skipped(e)
    <2>1. e.base \in Addr /\ MmioEnd(e) \in Addr
      BY <1>1, PageAssumption DEF MmioEnd, Extent, Addr, UINT64_MAX
    <2>2. /\ NewRegion(e.base, MmioEnd(e), "mmio") \in Region
          /\ ~Dropped(NewRegion(e.base, MmioEnd(e), "mmio")) =>
                WellFormed(NewRegion(e.base, MmioEnd(e), "mmio"))
      BY <2>1, NewRegionType DEF Kinds
    <2> QED
      BY <1>2, <1>4, <2>2, ReserveInv
  <1> QED
    BY <1>3, <1>4

-----------------------------------------------------------------------------
(* The merges.                                                              *)

\* A list is handed to mm_merge_regions.
LEMMA CallMergeInv ==
    ASSUME Inv, CallMerge
    PROVE  Inv' /\ LiveCover' = LiveCover
  <1>1. MergeTypeOK /\ WholePages(arr) /\ stage = "idle" /\ StartMerge /\ UNCHANGED mapVars
    BY DEF Inv, TypeOK, CallMerge, StartMerge
  <1>2. MergeTypeOK' /\ MergeInv' /\ WholePages(arr)' /\ arr' = arr
    BY <1>1, StartMergeFacts DEF StartMerge
  <1>3. Live' = Live
    <2>1. Len(arr) \in Nat
      BY <1>1, SeqDomain DEF MergeTypeOK
    <2>2. Live = 1 .. Len(arr)
      BY <1>1 DEF Live
    <2>3. CASE Len(arr) <= 1
      <3>1. Live' = (1 .. Len(arr)) \cup (2 .. Len(arr))
        BY <1>1, <2>3 DEF Live, StartMerge
      <3> QED
        BY <2>1, <2>2, <2>3, <3>1
    <2>4. CASE Len(arr) > 1
      BY <1>1, <2>1, <2>2, <2>4 DEF Live, StartMerge
    <2> QED
      BY <2>1, <2>3, <2>4
  <1>4. LiveCover' = LiveCover
    BY <1>2, <1>3 DEF LiveCover
  <1>5. TypeOK'
    BY <1>1, <1>2 DEF Inv, TypeOK, mapVars
  <1>6. PhaseInv'
    BY <1>1, <1>2, <1>3 DEF Inv, PhaseInv, CallMerge, mapVars
  <1>7. SweepInv'
    BY <1>1, <1>4 DEF Inv, SweepInv, Swept, mapVars
  <1> QED
    BY <1>1, <1>2, <1>4, <1>5, <1>6, <1>7 DEF Inv, FreeExact, NoFrameTwice, mapVars

\* A step of mm_merge_regions on the list handed to it.
LEMMA RunMergeInv ==
    ASSUME Inv, RunMerge
    PROVE  Inv' /\ LiveCover' = LiveCover
  <1>1. MergeTypeOK /\ MergeInv /\ WholePages(arr) /\ MergeStep /\ UNCHANGED mapVars
    BY DEF Inv, TypeOK, RunMerge
  <1>2. MergeTypeOK' /\ MergeInv' /\ WholePages(arr)' /\ LiveCover' = LiveCover
    BY <1>1, MergeStepFacts, MergeStepCover
  <1>3. stage # "idle"
    BY DEF RunMerge, MergeStep, SortStep, SortReturn, Absorb, Advance, MergeReturn
  <1>4. phase \in {"ram", "sweep"} => \A q \in Live' : arr'[q].kind = "allocatable"
    BY <1>1, MergeStepCover DEF Inv, PhaseInv, Kinds
  <1>5. TypeOK'
    BY <1>1, <1>2 DEF Inv, TypeOK, mapVars
  <1>6. PhaseInv'
    BY <1>1, <1>3, <1>4 DEF Inv, PhaseInv, mapVars
  <1>7. SweepInv'
    BY <1>1, <1>2 DEF Inv, SweepInv, Swept, mapVars
  <1> QED
    BY <1>1, <1>2, <1>5, <1>6, <1>7 DEF Inv, FreeExact, NoFrameTwice, mapVars

\* A sweep of a RAM region begins at its first page.
LEMMA CursorAtType ==
    ASSUME TypeOK, NEW k \in Nat \ {0}
    PROVE  /\ CursorAt(k) \in Addr
           /\ k <= Len(ram) => CursorAt(k) = ram[k].start /\ IsAligned(CursorAt(k))
  <1>1. CASE k <= Len(ram)
    <2>1. k \in DOMAIN ram /\ ram[k] \in Region
      BY <1>1 DEF TypeOK
    <2>2. WellFormed(ram[k])
      BY <2>1 DEF TypeOK, WholePages
    <2> QED
      BY <1>1, <2>1, <2>2 DEF CursorAt, Region, WellFormed
  <1>2. CASE ~(k <= Len(ram))
    BY <1>2, PageAssumption DEF CursorAt, Addr
  <1> QED
    BY <1>1, <1>2

\* The merged reserved list is kept, and the sweep begins with nothing free.
LEMMA KeepReservedInv ==
    ASSUME Inv, KeepReserved
    PROVE  Inv'
  <1>1. MergeTypeOK /\ MergeInv /\ WholePages(arr) /\ stage = "merged"
    BY DEF Inv, TypeOK, KeepReserved, NextList
  <1>2. Merged \in Seq(Region) /\ WholePages(Merged) /\ Ascending(Merged, DOMAIN Merged)
    BY <1>1, MergedFacts
  <1>3. MergeTypeOK' /\ MergeInv' /\ WholePages(arr)'
    BY DEF Inv, TypeOK, MergeTypeOK, MergeInv, WholePages, KeepReserved, NextList, Stages
  <1>4. CursorAt(1) \in Addr
        /\ (1 <= Len(ram) => CursorAt(1) = ram[1].start /\ IsAligned(CursorAt(1)))
    BY CursorAtType DEF Inv
  <1>5. TypeOK'
    BY <1>2, <1>3, <1>4 DEF Inv, TypeOK, KeepReserved, NextList, Phases
  <1>6. Live' = {}
    BY DEF KeepReserved, NextList, Live
  <1>7. PhaseInv'
    BY <1>2, <1>6 DEF Inv, PhaseInv, KeepReserved, NextList
  <1>8. SweepInv'
    <2>1. Len(ram) \in Nat /\ Len(reserved') \in Nat /\ ram' = ram /\ n' = 1 /\ j' = 1
          /\ cursor' = CursorAt(1)
      BY <1>2, SeqDomain DEF Inv, TypeOK, KeepReserved, NextList
    <2>2. LiveCover' = {}
      BY <1>6 DEF LiveCover, CoverOf
    <2>3. 1 <= Len(ram) => ram[1].start \in Nat
      <3>1. 1 <= Len(ram) => ram[1] \in Region
        BY <2>1 DEF Inv, TypeOK
      <3> QED
        BY <3>1, PageAssumption DEF Region, Addr
    <2>4. \A a \in Addr : ~Swept(a)'
      BY <1>4, <2>1, <2>3, PageAssumption DEF Swept, Addr
    <2> QED
      BY <1>4, <2>1, <2>2, <2>3, <2>4 DEF SweepInv
  <1> QED
    BY <1>3, <1>5, <1>7, <1>8 DEF Inv, FreeExact, NoFrameTwice, KeepReserved, NextList

\* The merged free list is kept: where the sweep has ended it is RAM minus reserved.
LEMMA KeepFreeInv ==
    ASSUME Inv, KeepFree
    PROVE  Inv'
  <1>1. MergeTypeOK /\ MergeInv /\ WholePages(arr) /\ stage = "merged" /\ phase = "sweep"
    BY DEF Inv, TypeOK, KeepFree, NextList
  <1>2. /\ Merged \in Seq(Region) /\ WholePages(Merged) /\ Separated(Merged)
        /\ Cover(Merged) = LiveCover
    BY <1>1, MergedFacts DEF Inv, PhaseInv, Kinds
  <1>3. MergeTypeOK' /\ MergeInv' /\ WholePages(arr)'
    BY DEF Inv, TypeOK, MergeTypeOK, MergeInv, WholePages, KeepFree, NextList, Stages
  <1>4. TypeOK'
    BY <1>2, <1>3 DEF Inv, TypeOK, KeepFree, NextList, Phases
  <1>5. PhaseInv'
    BY <1>1 DEF Inv, PhaseInv, KeepFree, NextList
  <1>6. FreeExact'
    <2>1. Len(ram) \in Nat /\ DOMAIN ram = 1 .. Len(ram) /\ n \in Nat /\ n = Len(ram) + 1
      BY <1>1, SeqDomain DEF Inv, TypeOK, PhaseInv, SweepInv
    <2>2. LiveCover = {a \in Addr : Swept(a)}
      BY <1>1 DEF Inv, SweepInv
    <2>3. \A a \in Addr : Swept(a) <=> a \in Cover(ram) \ Cover(reserved)
      BY <2>1 DEF Swept, Cover, CoverOf
    <2>4. LiveCover = Cover(ram) \ Cover(reserved)
      BY <2>2, <2>3 DEF Cover, CoverOf
    <2> QED
      BY <1>2, <2>4 DEF FreeExact, KeepFree
  <1> QED
    BY <1>2, <1>3, <1>4, <1>5, <1>6 DEF Inv, SweepInv, NoFrameTwice, KeepFree, NextList

-----------------------------------------------------------------------------
(* The sweep.                                                               *)

\* What both sweep actions start from.
LEMMA SweepContext ==
    ASSUME Inv, phase = "sweep", stage = "idle", n <= Len(ram)
    PROVE  /\ Len(ram) \in Nat /\ Len(reserved) \in Nat
           /\ n \in 1 .. Len(ram) /\ j \in 1 .. Len(reserved) + 1
           /\ ram[n] \in Region /\ WellFormed(ram[n])
           /\ \A q \in 1 .. Len(reserved) : reserved[q] \in Region /\ WellFormed(reserved[q])
           /\ cursor \in Addr /\ IsAligned(cursor) /\ ram[n].start <= cursor
           /\ \A q \in 1 .. j - 1 : reserved[q].end <= cursor
           /\ \A p, q \in 1 .. Len(reserved) : p < q => reserved[p].start <= reserved[q].start
           /\ LiveCover = {a \in Addr : Swept(a)}
           /\ MergeTypeOK /\ WholePages(arr)
           /\ \A q \in Live : arr[q].kind = "allocatable"
  <1>1. /\ Len(ram) \in Nat /\ DOMAIN ram = 1 .. Len(ram)
        /\ Len(reserved) \in Nat /\ DOMAIN reserved = 1 .. Len(reserved)
        /\ \A q \in 1 .. Len(ram) : ram[q] \in Region
        /\ \A q \in 1 .. Len(reserved) : reserved[q] \in Region
    BY SeqDomain DEF Inv, TypeOK
  <1>2. n \in 1 .. Len(ram) /\ j \in Nat \ {0}
    BY <1>1 DEF Inv, TypeOK
  <1>3. /\ WellFormed(ram[n])
        /\ \A q \in 1 .. Len(reserved) : WellFormed(reserved[q])
    BY <1>1, <1>2 DEF Inv, TypeOK, WholePages
  <1>4. /\ j <= Len(reserved) + 1 /\ IsAligned(cursor) /\ ram[n].start <= cursor
        /\ \A q \in 1 .. j - 1 : reserved[q].end <= cursor
        /\ LiveCover = {a \in Addr : Swept(a)}
    BY DEF Inv, SweepInv
  <1>5. \A p, q \in 1 .. Len(reserved) : p < q => reserved[p].start <= reserved[q].start
    BY <1>1 DEF Inv, PhaseInv, Ascending
  <1> QED
    BY <1>1, <1>2, <1>3, <1>4, <1>5 DEF Inv, TypeOK, PhaseInv

\* One step of the inner loop.
LEMMA SweepStepInv ==
    ASSUME Inv, Sweep
    PROVE  Inv'
  <1> DEFINE lo == ram[n].start
             hi == ram[n].end
             rs == reserved[j].start
             re == reserved[j].end
  <1>1. /\ phase = "sweep" /\ stage = "idle" /\ n <= Len(ram) /\ j <= Len(reserved)
        /\ cursor < hi /\ (re <= cursor \/ rs < hi)
        /\ cursor' = mm_max_u64(cursor, re) /\ j' = j + 1
        /\ UNCHANGED <<i, out, stage, platform, n, ram, reserved, free, ranges, mm_state>>
        /\ IF re > cursor /\ rs > cursor THEN AddRegion(WorkspaceCap, Gap)
           ELSE UNCHANGED <<arr, phase>>
    BY DEF Sweep, SweepGoesOn
  <1>2. /\ Len(ram) \in Nat /\ Len(reserved) \in Nat
        /\ n \in 1 .. Len(ram) /\ j \in 1 .. Len(reserved)
        /\ cursor \in Addr /\ IsAligned(cursor) /\ lo <= cursor
        /\ \A q \in 1 .. j - 1 : reserved[q].end <= cursor
        /\ LiveCover = {a \in Addr : Swept(a)}
        /\ MergeTypeOK /\ WholePages(arr)
        /\ \A q \in Live : arr[q].kind = "allocatable"
    BY <1>1, SweepContext
  <1>3. /\ lo \in Nat /\ hi \in Addr /\ rs \in Addr /\ re \in Addr
        /\ IsAligned(rs) /\ IsAligned(re) /\ IsAligned(hi) /\ rs < re
        /\ hi \in Nat /\ rs \in Nat /\ re \in Nat /\ cursor \in Nat
    <2>1. ram[n] \in Region /\ WellFormed(ram[n]) /\ reserved[j] \in Region /\ WellFormed(reserved[j])
      BY <1>1, <1>2, SweepContext
    <2> QED
      BY <1>2, <2>1, PageAssumption DEF Region, WellFormed, Addr
  \* An address from the cursor up to the start of this region is not reserved.
  <1>4. ASSUME NEW a \in Addr, cursor <= a, a < rs
        PROVE  a \notin Cover(reserved)
    <2> SUFFICES ASSUME NEW q \in 1 .. Len(reserved), Inside(a, reserved[q])
                 PROVE  FALSE
      BY SeqDomain DEF Cover, CoverOf, Inv, TypeOK
    <2>1. reserved[q].start \in Nat /\ reserved[q].end \in Nat /\ a \in Nat
      <3>1. reserved[q] \in Region
        BY <1>1, SweepContext
      <3> QED
        BY <3>1, PageAssumption DEF Region, Addr
    <2>2. q >= j
      BY <1>2, <1>3, <1>4, <2>1, SMTT(30) DEF Inside
    <2>3. q > j => rs <= reserved[q].start
      BY <1>1, <1>2, SweepContext
    <2> QED
      BY <1>2, <1>3, <1>4, <2>1, <2>2, <2>3 DEF Inside
  \* An address inside this region is.
  <1>5. ASSUME NEW a \in Addr, rs <= a, a < re
        PROVE  a \in Cover(reserved)
    BY <1>2, <1>5, SeqDomain DEF Cover, CoverOf, Inside, Inv, TypeOK
  <1>6. cursor' = (IF cursor > re THEN cursor ELSE re) /\ cursor' \in Addr /\ IsAligned(cursor')
        /\ cursor <= cursor' /\ re <= cursor' /\ cursor' \in Nat
    BY <1>1, <1>2, <1>3 DEF mm_max_u64
  <1>7. \A q \in 1 .. j' - 1 : reserved'[q].end <= cursor'
    <2> SUFFICES ASSUME NEW q \in 1 .. j
                 PROVE  reserved[q].end <= cursor'
      BY <1>1, <1>2
    <2>1. reserved[q].end \in Nat
      <3>1. reserved[q] \in Region
        BY <1>1, <1>2, SweepContext
      <3> QED
        BY <3>1, PageAssumption DEF Region, Addr
    <2>2. q # j => reserved[q].end <= cursor
      BY <1>2
    <2> QED
      BY <1>2, <1>3, <1>6, <2>1, <2>2
  <1> HIDE DEF lo, hi, rs, re
  <1>8. CASE re > cursor /\ rs > cursor
    <2>1. Gap = [start |-> cursor, end |-> rs, kind |-> "allocatable"]
      <3>1. mm_min_u64(rs, hi) = rs
        BY <1>1, <1>3, <1>8 DEF mm_min_u64
      <3> QED
        BY <1>2, <1>3, <3>1, NewRegionExact DEF Gap, Kinds, rs, hi
    <2>2. Gap \in Region /\ WellFormed(Gap) /\ Gap.kind = "allocatable"
      BY <1>2, <1>3, <1>8, <2>1 DEF Region, WellFormed, Kinds
    <2>3. AddRegion(WorkspaceCap, Gap) /\ WorkspaceCap \in Nat
      BY <1>1, <1>8, CapAssumption
    <2>4. /\ MergeTypeOK' /\ MergeInv' /\ WholePages(arr)' /\ phase' \in {"sweep", "failed"}
          /\ phase' = "sweep" =>
               /\ LiveCover' = LiveCover \cup {a \in Addr : Inside(a, Gap)}
               /\ \A q \in Live' : arr'[q].kind = "allocatable"
      BY <1>1, <1>2, <2>2, <2>3, AddRegionFacts DEF Kinds
    <2>5. ASSUME NEW a \in Addr
          PROVE  Swept(a)' <=> Swept(a) \/ Inside(a, Gap)
      <3>1. a \in Nat /\ Cover(reserved)' = Cover(reserved)
        BY <1>1, PageAssumption DEF Addr, Cover
      <3>2. Swept(a)' <=> /\ a \notin Cover(reserved)
                          /\ \/ \E p \in 1 .. n - 1 : Inside(a, ram[p])
                             \/ lo <= a /\ a < re /\ a < hi
        BY <1>1, <1>2, <1>3, <1>6, <1>8, <3>1 DEF Swept, lo, hi
      <3>3. Swept(a) <=> /\ a \notin Cover(reserved)
                         /\ \/ \E p \in 1 .. n - 1 : Inside(a, ram[p])
                            \/ lo <= a /\ a < cursor /\ a < hi
        BY <1>1, <1>2 DEF Swept, lo, hi
      <3>4. Inside(a, Gap) <=> cursor <= a /\ a < rs
        BY <2>1 DEF Inside
      <3>5. cursor <= a /\ a < rs => a \notin Cover(reserved)
        BY <1>4
      <3>6. rs <= a /\ a < re => a \in Cover(reserved)
        BY <1>5
      <3> QED
        BY <1>1, <1>2, <1>3, <1>8, <3>1, <3>2, <3>3, <3>4, <3>5, <3>6
    <2>6. SweepInv'
      <3>1. phase' = "sweep" => LiveCover' = {a \in Addr : Swept(a)'}
        BY <1>2, <2>4, <2>5
      <3>2. n' <= Len(ram') + 1 /\ j' <= Len(reserved') + 1
        BY <1>1, <1>2
      <3>3. ram'[n'].start <= cursor'
        <4>1. ram'[n'].start = lo
          BY <1>1 DEF lo
        <4> QED
          BY <1>2, <1>3, <1>6, <4>1
      <3> QED
        BY <1>6, <1>7, <3>1, <3>2, <3>3 DEF SweepInv
    <2>7. TypeOK'
      BY <1>1, <1>2, <1>6, <2>4 DEF Inv, TypeOK, Phases
    <2>8. PhaseInv'
      BY <1>1, <2>4 DEF Inv, PhaseInv
    <2> QED
      BY <1>1, <2>4, <2>6, <2>7, <2>8 DEF Inv, FreeExact, NoFrameTwice
  <1>9. CASE ~(re > cursor /\ rs > cursor)
    <2>1. UNCHANGED <<arr, phase>>
      BY <1>1, <1>9
    <2>2. LiveCover' = LiveCover /\ Live' = Live
      BY <1>1, <2>1 DEF LiveCover, Live
    <2>3. ASSUME NEW a \in Addr
          PROVE  Swept(a)' <=> Swept(a)
      <3>1. a \in Nat /\ Cover(reserved)' = Cover(reserved)
        BY <1>1, PageAssumption DEF Addr, Cover
      <3>2. Swept(a)' <=> /\ a \notin Cover(reserved)
                          /\ \/ \E p \in 1 .. n - 1 : Inside(a, ram[p])
                             \/ lo <= a /\ a < cursor' /\ a < hi
        BY <1>1, <1>2, <3>1 DEF Swept, lo, hi
      <3>3. Swept(a) <=> /\ a \notin Cover(reserved)
                         /\ \/ \E p \in 1 .. n - 1 : Inside(a, ram[p])
                            \/ lo <= a /\ a < cursor /\ a < hi
        BY <1>1, <1>2 DEF Swept, lo, hi
      <3>4. rs <= a /\ a < re => a \in Cover(reserved)
        BY <1>5
      <3> QED
        BY <1>2, <1>3, <1>6, <1>9, <3>1, <3>2, <3>3, <3>4
    <2>4. SweepInv'
      <3>1. LiveCover' = {a \in Addr : Swept(a)'}
        BY <1>2, <2>2, <2>3
      <3>2. n' <= Len(ram') + 1 /\ j' <= Len(reserved') + 1
        BY <1>1, <1>2
      <3>3. ram'[n'].start <= cursor'
        <4>1. ram'[n'].start = lo
          BY <1>1 DEF lo
        <4> QED
          BY <1>2, <1>3, <1>6, <4>1
      <3> QED
        BY <1>6, <1>7, <3>1, <3>2, <3>3 DEF SweepInv
    <2>5. TypeOK' /\ MergeInv'
      BY <1>1, <1>2, <1>6, <2>1 DEF Inv, TypeOK, MergeTypeOK, WholePages, MergeInv
    <2>6. PhaseInv'
      BY <1>1, <2>1, <2>2 DEF Inv, PhaseInv
    <2> QED
      BY <1>1, <2>1, <2>4, <2>5, <2>6 DEF Inv, FreeExact, NoFrameTwice
  <1> QED
    BY <1>8, <1>9

\* After the inner loop: what is left above the cursor is free.
LEMMA SweepTailInv ==
    ASSUME Inv, SweepTail
    PROVE  Inv'
  <1> DEFINE lo == ram[n].start
             hi == ram[n].end
  <1>1. /\ phase = "sweep" /\ stage = "idle" /\ n <= Len(ram)
        /\ j > Len(reserved) \/ cursor >= hi \/ (reserved[j].end > cursor /\ reserved[j].start >= hi)
        /\ n' = n + 1 /\ j' = 1 /\ cursor' = CursorAt(n + 1)
        /\ UNCHANGED <<i, out, stage, platform, ram, reserved, free, ranges, mm_state>>
        /\ IF cursor < hi THEN AddRegion(WorkspaceCap, NewRegion(cursor, hi, "allocatable"))
           ELSE UNCHANGED <<arr, phase>>
    <2>1. /\ phase = "sweep" /\ stage = "idle" /\ n <= Len(ram) /\ ~SweepGoesOn
          /\ IF cursor < ram[n].end
             THEN AddRegion(WorkspaceCap, NewRegion(cursor, ram[n].end, "allocatable"))
             ELSE UNCHANGED <<arr, phase>>
          /\ n' = n + 1 /\ j' = 1 /\ cursor' = CursorAt(n + 1)
          /\ UNCHANGED <<i, out, stage, platform, ram, reserved, free, ranges, mm_state>>
      BY DEF SweepTail
    <2>2. cursor \in Nat /\ hi \in Nat /\ j \in Nat /\ Len(reserved) \in Nat
          /\ (j <= Len(reserved) => reserved[j].start \in Nat /\ reserved[j].end \in Nat)
      <3>1. ram[n] \in Region /\ cursor \in Addr /\ j \in 1 .. Len(reserved) + 1
            /\ Len(reserved) \in Nat
            /\ \A q \in 1 .. Len(reserved) : reserved[q] \in Region
        BY <2>1, SweepContext
      <3>2. j <= Len(reserved) => reserved[j] \in Region
        BY <3>1
      <3> QED
        BY <3>1, <3>2, PageAssumption DEF Region, Addr
    <2> QED
      BY <2>1, <2>2 DEF SweepGoesOn
  <1>2. /\ Len(ram) \in Nat /\ Len(reserved) \in Nat
        /\ n \in 1 .. Len(ram) /\ j \in 1 .. Len(reserved) + 1
        /\ cursor \in Addr /\ IsAligned(cursor) /\ lo <= cursor
        /\ \A q \in 1 .. j - 1 : reserved[q].end <= cursor
        /\ LiveCover = {a \in Addr : Swept(a)}
        /\ MergeTypeOK /\ WholePages(arr)
        /\ \A q \in Live : arr[q].kind = "allocatable"
        /\ TypeOK
    BY <1>1, SweepContext DEF Inv
  <1>3. /\ lo \in Nat /\ hi \in Addr /\ IsAligned(hi) /\ hi \in Nat /\ cursor \in Nat
    <2>1. ram[n] \in Region /\ WellFormed(ram[n])
      BY <1>1, SweepContext
    <2> QED
      BY <1>2, <2>1, PageAssumption DEF Region, WellFormed, Addr
  \* Nothing between the cursor and the end of this RAM region is reserved.
  <1>4. ASSUME NEW a \in Addr, cursor <= a, a < hi
        PROVE  a \notin Cover(reserved)
    <2> SUFFICES ASSUME NEW q \in 1 .. Len(reserved), Inside(a, reserved[q])
                 PROVE  FALSE
      BY SeqDomain DEF Cover, CoverOf, Inv, TypeOK
    <2>1. reserved[q].start \in Nat /\ reserved[q].end \in Nat /\ a \in Nat
      <3>1. reserved[q] \in Region
        BY <1>1, SweepContext
      <3> QED
        BY <3>1, PageAssumption DEF Region, Addr
    <2>2. q >= j
      BY <1>2, <1>3, <1>4, <2>1 DEF Inside
    <2>3. reserved[j].start >= hi /\ j \in 1 .. Len(reserved)
      BY <1>1, <1>2, <1>3, <1>4, <2>1, <2>2
    <2>4. reserved[j].start \in Nat
      <3>1. reserved[j] \in Region
        BY <1>1, <2>3, SweepContext
      <3> QED
        BY <3>1, PageAssumption DEF Region, Addr
    <2>5. reserved[j].start <= reserved[q].start
      <3>1. j < q => reserved[j].start <= reserved[q].start
        BY <1>1, <2>3, SweepContext
      <3> QED
        BY <1>2, <2>2, <2>4, <3>1
    <2> QED
      BY <1>3, <1>4, <2>1, <2>3, <2>4, <2>5 DEF Inside
  <1>5. CursorAt(n + 1) \in Addr
        /\ (n + 1 <= Len(ram) => CursorAt(n + 1) = ram[n + 1].start /\ IsAligned(CursorAt(n + 1)))
    BY <1>2, CursorAtType
  <1>6. n + 1 <= Len(ram) => ram[n + 1].start \in Nat
    <2>1. n + 1 <= Len(ram) => ram[n + 1] \in Region
      BY <1>2, SeqDomain DEF TypeOK
    <2> QED
      BY <2>1, PageAssumption DEF Region, Addr
  <1> HIDE DEF lo, hi
  \* What counts as swept afterwards: this RAM region too, whole.
  <1>7. ASSUME NEW a \in Addr
        PROVE  Swept(a)' <=> Swept(a) \/ (cursor <= a /\ a < hi)
    <2>1. a \in Nat /\ Cover(reserved)' = Cover(reserved)
      BY <1>1, PageAssumption DEF Addr, Cover
    <2>2. Swept(a)' <=> /\ a \notin Cover(reserved)
                        /\ \/ \E p \in 1 .. n : Inside(a, ram[p])
                           \/ n + 1 <= Len(ram) /\ ram[n + 1].start <= a /\ a < CursorAt(n + 1)
                              /\ a < ram[n + 1].end
      <3>1. n' = n + 1 /\ ram' = ram /\ cursor' = CursorAt(n + 1) /\ n' - 1 = n
        BY <1>1, <1>2
      <3> QED
        BY <2>1, <3>1 DEF Swept
    <2>3. ~(n + 1 <= Len(ram) /\ ram[n + 1].start <= a /\ a < CursorAt(n + 1))
      BY <1>5, <1>6, <2>1
    <2>4. (\E p \in 1 .. n : Inside(a, ram[p])) <=>
          (\E p \in 1 .. n - 1 : Inside(a, ram[p])) \/ (lo <= a /\ a < hi)
      <3>1. Inside(a, ram[n]) <=> lo <= a /\ a < hi
        BY DEF Inside, lo, hi
      <3>2. \A p \in 1 .. n : p \in 1 .. n - 1 \/ p = n
        BY <1>2
      <3>3. n \in 1 .. n /\ 1 .. n - 1 \subseteq 1 .. n
        BY <1>2
      <3> QED
        BY <3>1, <3>2, <3>3
    <2>5. Swept(a) <=> /\ a \notin Cover(reserved)
                       /\ \/ \E p \in 1 .. n - 1 : Inside(a, ram[p])
                          \/ lo <= a /\ a < cursor /\ a < hi
      BY <1>1, <1>2 DEF Swept, lo, hi
    <2>6. cursor <= a /\ a < hi => a \notin Cover(reserved)
      BY <1>4
    <2>7. lo <= a /\ a < hi <=> (lo <= a /\ a < cursor /\ a < hi) \/ (cursor <= a /\ a < hi)
      BY <1>2, <1>3, <2>1
    <2> QED
      BY <2>2, <2>3, <2>4, <2>5, <2>6, <2>7
  <1>8. /\ MergeTypeOK' /\ MergeInv' /\ WholePages(arr)' /\ phase' \in {"sweep", "failed"}
        /\ phase' = "sweep" =>
             /\ LiveCover' = {a \in Addr : Swept(a)'}
             /\ \A q \in Live' : arr'[q].kind = "allocatable"
    <2>1. CASE cursor < hi
      <3> DEFINE r == NewRegion(cursor, hi, "allocatable")
      <3>1. r = [start |-> cursor, end |-> hi, kind |-> "allocatable"]
        BY <1>2, <1>3, NewRegionExact DEF Kinds
      <3>2. r \in Region /\ WellFormed(r) /\ r.kind = "allocatable"
        BY <1>2, <1>3, <2>1, <3>1 DEF Region, WellFormed, Kinds
      <3>3. AddRegion(WorkspaceCap, r) /\ WorkspaceCap \in Nat
        BY <1>1, <2>1, CapAssumption
      <3>4. \A a \in Addr : Inside(a, r) <=> cursor <= a /\ a < hi
        BY <3>1 DEF Inside
      <3> HIDE DEF r
      <3>5. /\ MergeTypeOK' /\ MergeInv' /\ WholePages(arr)' /\ phase' \in {"sweep", "failed"}
            /\ phase' # "failed" =>
                 /\ LiveCover' = LiveCover \cup {a \in Addr : Inside(a, r)}
                 /\ \A q \in Live' : arr'[q].kind = "allocatable"
        BY <1>1, <1>2, <3>2, <3>3, AddRegionFacts DEF Kinds
      <3> QED
        BY <1>2, <1>7, <3>4, <3>5
    <2>2. CASE ~(cursor < hi)
      <3>1. UNCHANGED <<arr, phase>>
        BY <1>1, <2>2
      <3>2. LiveCover' = LiveCover /\ Live' = Live
        BY <1>1, <3>1 DEF LiveCover, Live
      <3>3. \A a \in Addr : ~(cursor <= a /\ a < hi)
        BY <1>2, <1>3, <2>2, PageAssumption DEF Addr
      <3>4. LiveCover' = {a \in Addr : Swept(a)'}
        BY <1>2, <1>7, <3>2, <3>3
      <3>5. MergeTypeOK' /\ MergeInv' /\ WholePages(arr)'
        BY <1>1, <1>2, <3>1 DEF MergeTypeOK, MergeInv, WholePages
      <3> QED
        BY <1>1, <1>2, <3>1, <3>2, <3>4, <3>5
    <2> QED
      BY <2>1, <2>2
  <1>9. SweepInv'
    <2>1. n' <= Len(ram') + 1 /\ j' <= Len(reserved') + 1 /\ 1 .. j' - 1 = {}
      BY <1>1, <1>2
    <2>2. n' <= Len(ram') => ram'[n'].start <= cursor' /\ IsAligned(cursor')
      BY <1>1, <1>5, <1>6
    <2> QED
      BY <1>8, <2>1, <2>2 DEF SweepInv
  <1>10. TypeOK'
    BY <1>1, <1>2, <1>5, <1>8 DEF TypeOK, Phases
  <1>11. PhaseInv'
    BY <1>1, <1>8 DEF Inv, PhaseInv
  <1> QED
    BY <1>1, <1>8, <1>9, <1>10, <1>11 DEF Inv, FreeExact, NoFrameTwice

-----------------------------------------------------------------------------
(* Accounting touches no list.                                              *)

\* The page counts and the publishing change no list.
LEMMA AccountInv ==
    ASSUME Inv, Clip \/ Crash \/ Publish
    PROVE  Inv'
  <1>1. /\ phase = "clip" /\ phase' \in {"clip", "crashed", "done"} /\ n' \in {n, n + 1}
        /\ UNCHANGED <<arr, i, out, stage, platform, ram, reserved, free, j, cursor>>
    BY DEF Clip, Crash, Publish
  <1>2. TypeOK' /\ MergeInv'
    BY <1>1 DEF Inv, TypeOK, MergeTypeOK, WholePages, MergeInv, Live, Ascending, Settled, Phases
  <1>3. PhaseInv'
    BY <1>1 DEF Inv, PhaseInv
  <1> QED
    BY <1>1, <1>2, <1>3 DEF Inv, SweepInv, FreeExact, NoFrameTwice

\* A build that has returned stays as it is.
LEMMA StutterInv ==
    ASSUME Inv, UNCHANGED vars
    PROVE  Inv'
  BY DEF Inv, TypeOK, MergeTypeOK, WholePages, MergeInv, PhaseInv, SweepInv, Swept, FreeExact,
         NoFrameTwice, Live, LiveCover, vars

\* Every step keeps the invariant.
LEMMA NextInv ==
    ASSUME Inv, [Next]_vars
    PROVE  Inv'
  BY AddRamInv, KeepRamInv, ReserveOwnInv, ReadReservedInv, ReserveDtbInv, ReserveMmioInv,
     KeepReservedInv, SweepStepInv, SweepTailInv, KeepFreeInv, CallMergeInv, RunMergeInv,
     AccountInv, StutterInv DEF Next, Returned

\* The inductive invariant holds throughout mm_stage2_build, for every board, page
\* size, capacity and width of an address.
THEOREM InvHolds == Spec => []Inv
  BY InitInv, NextInv, PTL DEF Spec

\* Types, and: every region in every list is at least one whole page.
THEOREM TypeCorrect == Spec => []TypeOK
  <1>1. Inv => TypeOK
    BY DEF Inv
  <1> QED
    BY InvHolds, <1>1, PTL

\* The free list is exactly RAM minus the reserved list.
THEOREM FreeIsExact == Spec => []FreeExact
  <1>1. Inv => FreeExact
    BY DEF Inv
  <1> QED
    BY InvHolds, <1>1, PTL

\* No frame is in the RAM list or the free list twice.
THEOREM NoFrameIsListedTwice == Spec => []NoFrameTwice
  <1>1. Inv => NoFrameTwice
    BY DEF Inv
  <1> QED
    BY InvHolds, <1>1, PTL

-----------------------------------------------------------------------------
(* The kernel's own check for free memory in reserved memory.               *)

\* Whole-page regions that overlap share an address.
LEMMA OverlapMeets ==
    ASSUME NEW a \in Region, NEW b \in Region, WellFormed(a), WellFormed(b),
           mm_ranges_overlap(a.start, a.end, b.start, b.end)
    PROVE  \E x \in Addr : Inside(x, a) /\ Inside(x, b)
  <1>1. /\ a.start \in Addr /\ b.start \in Addr
        /\ a.start < b.end /\ b.start < a.end /\ a.start < a.end /\ b.start < b.end
        /\ a.start \in Int /\ b.start \in Int /\ a.end \in Int /\ b.end \in Int
    BY PageAssumption DEF mm_ranges_overlap, WellFormed, Region, Addr
  <1>2. CASE a.start < b.start
    BY <1>1, <1>2 DEF Inside
  <1>3. CASE ~(a.start < b.start)
    BY <1>1, <1>3 DEF Inside
  <1> QED
    BY <1>2, <1>3

\* A free list that covers RAM minus reserved overlaps no reserved region.
LEMMA ExactIsClean ==
    ASSUME TypeOK, Cover(free) = Cover(ram) \ Cover(reserved)
    PROVE  ~mm_free_overlaps_reserved(free, reserved)
  <1>1. SUFFICES ASSUME NEW p \in DOMAIN free, NEW q \in DOMAIN reserved,
                        mm_ranges_overlap(free[p].start, free[p].end, reserved[q].start, reserved[q].end)
                 PROVE  FALSE
    BY DEF mm_free_overlaps_reserved, mm_region_overlaps_any
  <1>2. free[p] \in Region /\ reserved[q] \in Region /\ WellFormed(free[p]) /\ WellFormed(reserved[q])
    BY DEF TypeOK, WholePages
  <1>3. PICK x \in Addr : Inside(x, free[p]) /\ Inside(x, reserved[q])
    BY <1>1, <1>2, OverlapMeets
  <1>4. x \in Cover(free) /\ x \in Cover(reserved)
    BY <1>3 DEF Cover, CoverOf
  <1> QED
    BY <1>4

\* Publish sets the flag from an exact free list, and no other step sets it.
LEMMA NextClean ==
    ASSUME Inv, SelfCheckClean, [Next]_vars
    PROVE  SelfCheckClean'
  <1>1. CASE Publish
    <2>1. phase = "clip" /\ mm_state'.overlap_free_reserved = mm_free_overlaps_reserved(free, reserved)
      BY <1>1 DEF Publish
    <2> QED
      BY <2>1, ExactIsClean DEF Inv, FreeExact, SelfCheckClean
  <1>2. CASE UNCHANGED vars
    BY <1>2 DEF vars, SelfCheckClean
  <1>3. CASE ~Publish /\ ~UNCHANGED vars
    <2>1. phase' # "done" \/ (phase' = phase /\ mm_state' = mm_state)
      BY <1>3 DEF Next, Returned, AddRam, KeepRam, ReserveOwn, ReadReserved, ReserveDtb, ReserveMmio,
         KeepReserved, Sweep, SweepTail, KeepFree, CallMerge, RunMerge, Clip, Crash, AddRegion,
         NextList, mapVars
    <2> QED
      BY <2>1 DEF SelfCheckClean
  <1> QED
    BY <1>1, <1>2, <1>3

\* The check never fires, although reserved regions may overlap one another.
THEOREM SelfCheckNeverFires == Spec => []SelfCheckClean
  <1>1. Init => SelfCheckClean
    BY DEF Init, InitOn, SelfCheckClean
  <1> QED
    BY InvHolds, NextClean, <1>1, PTL DEF Spec

-----------------------------------------------------------------------------
(* Refinement of FrameMap.                                                  *)

\* A build that has just been entered has found no frame.
LEMMA InitFrame ==
    ASSUME Init
    PROVE  Frames!FrameInit
  <1>1. LiveCover = {} /\ Cover(reserved) = {} /\ phase = "ram"
    BY DEF Init, InitOn, LiveCover, Cover, CoverOf, Live
  <1> QED
    BY <1>1 DEF Frames!FrameInit, FrameRam, FrameReserved, FrameFree, FrameStatus

\* Covered addresses are addresses, and an empty list covers none.
LEMMA CoverInAddr ==
    /\ LiveCover \subseteq Addr /\ LiveCover' \subseteq Addr
    /\ \A s : Cover(s) \subseteq Addr
    /\ Cover(<<>>) = {}
  BY DEF LiveCover, Cover, CoverOf

\* Loops that fill the RAM list.
LEMMA AddRamFrame ==
    ASSUME Inv, AddRam
    PROVE  Frames!FrameNext
  <1>1. /\ phase = "ram" /\ phase' \in {"ram", "failed"} /\ reserved = <<>> /\ reserved' = reserved
        /\ ram' = ram
    BY DEF AddRam, AddRegion, Inv, PhaseInv
  <1>2. CASE phase' = "failed"
    BY <1>1, <1>2 DEF Frames!FrameNext, Frames!GiveUp, FrameRam, FrameReserved, FrameFree, FrameStatus
  <1>3. CASE phase' = "ram"
    <2>1. LiveCover \subseteq LiveCover' /\ LiveCover' \subseteq Addr
      BY <1>3, AddRamInv, CoverInAddr
    <2> QED
      BY <1>1, <1>3, <2>1
      DEF Frames!FrameNext, Frames!FoundRam, FrameRam, FrameReserved, FrameFree, FrameStatus
  <1> QED
    BY <1>1, <1>2, <1>3

\* Keeping the merged RAM list changes no frame: the merge covers what it was given.
LEMMA KeepRamFrame ==
    ASSUME Inv, KeepRam
    PROVE  Frames!FrameNext
  <1>1. /\ phase = "ram" /\ phase' = "own" /\ reserved = <<>> /\ arr' = <<>> /\ stage' = "idle"
        /\ ram' = Merged /\ stage = "merged"
    BY DEF KeepRam, NextList, Inv, PhaseInv
  <1>2. Cover(Merged) = LiveCover
    BY <1>1, MergedFacts DEF Inv, TypeOK
  <1>3. LiveCover' = {}
    BY <1>1 DEF LiveCover, CoverOf, Live
  <1>4. Cover(reserved) = {}
    BY <1>1, CoverInAddr
  <1> QED
    BY <1>1, <1>2, <1>3, <1>4
    DEF Frames!FrameNext, Frames!RamKnown, FrameRam, FrameReserved, FrameFree, FrameStatus

\* Loops that fill the reserved list.
LEMMA ReserveFrame ==
    ASSUME Inv, ReserveOwn \/ ReadReserved \/ ReserveDtb \/ ReserveMmio
    PROVE  Frames!FrameNext
  <1>1. /\ phase \in {"own", "dtb", "mmio"} /\ phase' \in {"own", "dtb", "mmio", "failed"}
        /\ ram' = ram
    BY DEF ReserveOwn, ReadReserved, ReserveDtb, ReserveMmio, AddRegion
  <1>2. CASE phase' = "failed"
    BY <1>1, <1>2 DEF Frames!FrameNext, Frames!GiveUp, FrameRam, FrameReserved, FrameFree, FrameStatus
  <1>3. CASE phase' # "failed"
    <2>1. LiveCover \subseteq LiveCover' /\ LiveCover' \subseteq Addr
      <3>1. ReadReserved => LiveCover' = LiveCover
        BY DEF ReadReserved, LiveCover, Live
      <3> QED
        BY <1>3, <3>1, ReserveOwnInv, ReserveDtbInv, ReserveMmioInv, CoverInAddr
    <2> QED
      BY <1>1, <1>3, <2>1
      DEF Frames!FrameNext, Frames!Reserved, FrameRam, FrameReserved, FrameFree, FrameStatus
  <1> QED
    BY <1>2, <1>3

\* Steps the abstract map does not see.
LEMMA SilentFrame ==
    ASSUME Inv, KeepReserved \/ KeepFree \/ CallMerge \/ RunMerge \/ Clip \/ Returned \/ UNCHANGED vars
    PROVE  UNCHANGED Frames!frameVars
  <1> USE DEF Frames!frameVars, FrameRam, FrameReserved, FrameFree, FrameStatus
  <1>1. CASE KeepReserved
    <2>1. Cover(Merged) = LiveCover
      BY <1>1, MergedFacts DEF Inv, TypeOK, KeepReserved, NextList
    <2> QED
      BY <1>1, <2>1 DEF KeepReserved, NextList
  <1>2. CASE KeepFree
    BY <1>2 DEF KeepFree, NextList
  <1>3. CASE CallMerge \/ RunMerge
    <2>1. LiveCover' = LiveCover
      BY <1>3, CallMergeInv, RunMergeInv
    <2> QED
      BY <1>3, <2>1 DEF CallMerge, RunMerge, mapVars
  <1>4. CASE Clip
    BY <1>4 DEF Clip
  <1>5. CASE Returned \/ UNCHANGED vars
    BY <1>5 DEF Returned, vars, LiveCover, Live
  <1> QED
    BY <1>1, <1>2, <1>3, <1>4, <1>5

\* The sweep is silent until a full table ends the build.
LEMMA SweepFrame ==
    ASSUME Inv, Sweep \/ SweepTail \/ Crash
    PROVE  Frames!FrameNext \/ UNCHANGED Frames!frameVars
  <1>1. /\ phase \in {"sweep", "clip"} /\ phase' \in {"sweep", "failed", "crashed"}
        /\ ram' = ram /\ reserved' = reserved
        /\ phase' = "sweep" => phase = "sweep"
    BY DEF Sweep, SweepTail, Crash, AddRegion
  <1>2. CASE phase' = "sweep"
    BY <1>1, <1>2 DEF Frames!frameVars, FrameRam, FrameReserved, FrameFree, FrameStatus
  <1>3. CASE phase' # "sweep"
    BY <1>1, <1>3 DEF Frames!FrameNext, Frames!GiveUp, FrameRam, FrameReserved, FrameFree, FrameStatus
  <1> QED
    BY <1>2, <1>3

\* Publishing is a step of FrameMap because the free list is exact by then.
LEMMA PublishFrame ==
    ASSUME Inv, Publish
    PROVE  Frames!FrameNext
  <1>1. /\ phase = "clip" /\ phase' = "done" /\ UNCHANGED <<ram, reserved, free>>
    BY DEF Publish
  <1>2. Cover(free) = Cover(ram) \ Cover(reserved)
    BY <1>1 DEF Inv, FreeExact
  <1> QED
    BY <1>1, <1>2
    DEF Frames!FrameNext, Frames!FramePublish, FrameRam, FrameReserved, FrameFree, FrameStatus

\* mm_stage2_build implements FrameMap: reserving gives nothing back and leaves
\* RAM alone, and free memory appears at once, as RAM minus what is reserved.
THEOREM BuildImplementsFrameMap == Spec => ImplementsFrameMap
  <1>1. Init => Frames!FrameInit
    BY InitFrame
  <1>2. Inv /\ [Next]_vars => [Frames!FrameNext]_Frames!frameVars
    BY AddRamFrame, KeepRamFrame, ReserveFrame, SilentFrame, SweepFrame, PublishFrame DEF Next
  <1> QED
    BY InvHolds, <1>1, <1>2, PTL DEF Spec, ImplementsFrameMap, Frames!FrameSpec

-----------------------------------------------------------------------------
(* Reservations.                                                            *)

\* Device blocks are entered in the last phase only, and touch no RAM region.
MmioInv ==
    /\ phase \in {"own", "dtb"} => KindCover("mmio") = {}
    /\ phase = "mmio" => KindCover("mmio") \cap Cover(ram) = {}
    /\ MmioOutsideRam

\* The addresses asked for with one entry of the device tree, unless it wraps.
Asked(e) == IF NoWrap(e) THEN e.base .. e.base + e.size - 1 ELSE {}

\* The addresses asked for by the k-th of the kernel's own requests.
OwnAsked(p, k) == CASE k = 1 -> KernelStart .. KernelImageEnd - 1
                    [] k = 2 -> p.memory[1].base .. KernelStart - 1
                    [] k = 3 -> Asked(p.fdt)

\* What the loops have asked for so far is covered by the list being filled.
RequestInv ==
    /\ phase = "own" => \A k \in 1 .. 3 : k < n => OwnAsked(platform, k) \subseteq LiveCover
    /\ phase \in {"dtb", "mmio"} => \A k \in 1 .. 3 : OwnAsked(platform, k) \subseteq LiveCover
    /\ phase = "dtb" =>
         \A k \in DOMAIN DtbReserved(platform) :
            k < n => Asked(DtbReserved(platform)[k]) \subseteq LiveCover
    /\ phase = "mmio" =>
         \A k \in DOMAIN DtbReserved(platform) : Asked(DtbReserved(platform)[k]) \subseteq LiveCover
    /\ RequestsReserved

-----------------------------------------------------------------------------
(* Rounding.                                                                *)

\* Rounding to pages loses no address, unless the end wraps.
LEMMA RoundingCovers ==
    ASSUME NEW start \in Addr, NEW end \in Addr, NEW kind \in Kinds, end + PageSize <= AddrSpan
    PROVE  start .. end - 1 \subseteq {a \in Addr : Inside(a, NewRegion(start, end, kind))}
  <1>1. start \in Nat /\ end \in Nat /\ PageSize \in Nat \ {0} /\ AddrSpan \in Nat
    BY PageAssumption DEF Addr
  <1>2. mm_align_down(start) \in Nat /\ mm_align_down(start) <= start
    BY <1>1, AlignDown
  <1>3. mm_align_up(end) \in Nat /\ end <= mm_align_up(end)
    BY <1>1, AlignUpType, AlignUpStops DEF Addr
  <1> QED
    BY <1>1, <1>2, <1>3 DEF NewRegion, Inside, Addr

\* The region of an entry covers what the entry asks for.
LEMMA ExtentCovers ==
    ASSUME NEW e \in Extent, NEW kind \in Kinds
    PROVE  Asked(e) \subseteq {a \in Addr : Inside(a, ExtentRegion(e, kind))}
  <1>1. CASE NoWrap(e)
    <2>1. /\ e.base \in Addr /\ e.size \in Nat /\ e.base \in Nat /\ e.base + e.size \in Addr
          /\ e.base + e.size + PageSize <= AddrSpan
      BY <1>1, PageAssumption DEF NoWrap, Extent, Addr
    <2>2. WrapAdd(e.base, e.size) = e.base + e.size
      <3>1. (AddrSpan * 0 + (e.base + e.size)) % AddrSpan = e.base + e.size
        <4>1. e.base + e.size \in 0 .. AddrSpan - 1 /\ AddrSpan \in Nat \ {0} /\ 0 \in Nat
          BY <2>1, PageAssumption DEF Addr
        <4> QED
          BY <4>1, ModUnique
      <3>2. AddrSpan * 0 + (e.base + e.size) = e.base + e.size
        BY <2>1, PageAssumption
      <3> QED
        BY <3>1, <3>2 DEF WrapAdd
    <2> QED
      BY <1>1, <2>1, <2>2, RoundingCovers DEF Asked, ExtentRegion
  <1>2. CASE ~NoWrap(e)
    BY <1>2 DEF Asked
  <1> QED
    BY <1>1, <1>2

\* Rounding a block that is apart from a region of whole pages keeps it apart.
LEMMA RoundingStaysApart ==
    ASSUME NEW start \in Addr, NEW end \in Addr, NEW kind \in Kinds,
           NEW m \in Region, WellFormed(m), ~mm_ranges_overlap(start, end, m.start, m.end),
           NEW a \in Addr, Inside(a, NewRegion(start, end, kind))
    PROVE  ~Inside(a, m)
  <1>1. /\ start \in Nat /\ end \in Nat /\ a \in Nat
        /\ m.start \in Addr /\ m.end \in Addr /\ m.start \in Nat /\ m.end \in Nat
        /\ IsAligned(m.start) /\ IsAligned(m.end)
    BY PageAssumption DEF Addr, Region, WellFormed
  <1>2. mm_align_down(start) <= a /\ a < mm_align_up(end)
    BY DEF NewRegion, Inside
  <1>3. mm_align_down(start) \in Nat /\ mm_align_up(end) \in Nat
    BY <1>1, AlignDown, AlignUpType, PageAssumption DEF Addr
  <1>4. CASE m.end <= start
    BY <1>1, <1>2, <1>3, <1>4, AlignDownStops DEF Inside
  <1>5. CASE end <= m.start
    BY <1>1, <1>2, <1>3, <1>5, AlignUpStops DEF Inside
  <1> QED
    BY <1>1, <1>4, <1>5 DEF mm_ranges_overlap

-----------------------------------------------------------------------------
(* One region more.                                                         *)

\* mm_region_add covers no address under a kind but those of the region added.
LEMMA AddKindCover ==
    ASSUME MergeTypeOK, stage = "idle", NEW cap \in Nat, NEW r \in Region,
           AddRegion(cap, r), UNCHANGED <<i, out, stage>>, NEW k \in Kinds
    PROVE  \A a \in KindCover(k)' : a \in KindCover(k) \/ (r.kind = k /\ Inside(a, r))
  <1>1. arr \in Seq(Region) /\ Len(arr) \in Nat /\ Live = 1 .. Len(arr)
    BY SeqDomain DEF MergeTypeOK, Live
  <1>2. arr' \in {arr, Append(arr, r)} /\ Live' = 1 .. Len(arr')
    BY DEF AddRegion, mm_region_add, Live
  <1>3. SUFFICES ASSUME NEW a \in KindCover(k)'
                 PROVE  a \in KindCover(k) \/ (r.kind = k /\ Inside(a, r))
    OBVIOUS
  <1>4. PICK q \in 1 .. Len(arr') : arr'[q].kind = k /\ Inside(a, arr'[q]) /\ a \in Addr
    BY <1>2 DEF KindCover, CoverOf
  <1>5. (q \in 1 .. Len(arr) /\ arr'[q] = arr[q]) \/ arr'[q] = r
    BY <1>1, <1>2, <1>4
  <1> QED
    BY <1>1, <1>4, <1>5 DEF KindCover, CoverOf

\* A reserving loop adds the region's addresses and forgets none.
LEMMA ReserveAdds ==
    ASSUME Inv, phase \in {"own", "dtb", "mmio"}, stage = "idle",
           NEW r \in Region, ~Dropped(r) => WellFormed(r),
           AddRegion(WorkspaceCap, r), UNCHANGED <<i, out, stage>>
    PROVE  /\ phase' \in {phase, "failed"}
           /\ phase' # "failed" => LiveCover' = LiveCover \cup {a \in Addr : Inside(a, r)}
           /\ \A a \in KindCover("mmio")' :
                a \in KindCover("mmio") \/ (r.kind = "mmio" /\ Inside(a, r))
  <1>1. MergeTypeOK /\ WholePages(arr) /\ WorkspaceCap \in Nat /\ "mmio" \in Kinds
    BY CapAssumption DEF Inv, TypeOK, Kinds
  <1> QED
    BY <1>1, AddRegionFacts, AddKindCover

-----------------------------------------------------------------------------
(* Device blocks and RAM.                                                   *)

\* A block that is not skipped, rounded to pages, shares no address with RAM.
LEMMA BlockOutsideRam ==
    ASSUME Inv, NEW e \in Extent, ~Skipped(e),
           NEW a \in Addr, Inside(a, NewRegion(e.base, MmioEnd(e), "mmio"))
    PROVE  a \notin Cover(ram)
  <1>1. e.base \in Addr /\ MmioEnd(e) \in Addr /\ "mmio" \in Kinds
    BY PageAssumption DEF MmioEnd, Extent, Addr, UINT64_MAX, Kinds
  <1>2. ASSUME NEW q \in DOMAIN ram
        PROVE  ~Inside(a, ram[q])
    <2>1. ram[q] \in Region /\ WellFormed(ram[q])
      BY DEF Inv, TypeOK, WholePages
    <2>2. ~mm_ranges_overlap(e.base, MmioEnd(e), ram[q].start, ram[q].end)
      BY DEF Skipped, mm_region_overlaps_any
    <2> QED
      BY <1>1, <2>1, <2>2, RoundingStaysApart
  <1> QED
    BY <1>2 DEF Cover, CoverOf

\* What the loop over the devices adds stays outside RAM.
LEMMA ReserveMmioMmio ==
    ASSUME Inv, MmioInv, ReserveMmio
    PROVE  MmioInv'
  <1> DEFINE e == platform.mmio[n]
             r == NewRegion(e.base, MmioEnd(e), "mmio")
  <1>1. e \in Extent
    <2>1. platform \in Platform /\ n \in Nat \ {0}
      BY DEF Inv, TypeOK
    <2> QED
      BY <2>1 DEF ReserveMmio, Platform
  <1>2. /\ stage = "idle" /\ phase = "mmio" /\ UNCHANGED <<i, out, stage, ram, reserved>>
        /\ IF Skipped(e) THEN UNCHANGED <<arr, phase>> ELSE AddRegion(WorkspaceCap, r)
    BY DEF ReserveMmio
  <1>3. r \in Region /\ (~Dropped(r) => WellFormed(r))
    <2>1. e.base \in Addr /\ MmioEnd(e) \in Addr /\ "mmio" \in Kinds
      BY <1>1, PageAssumption DEF MmioEnd, Extent, Addr, UINT64_MAX, Kinds
    <2> QED
      BY <2>1, NewRegionType
  <1> HIDE DEF e
  <1>4. CASE Skipped(e)
    BY <1>2, <1>4 DEF MmioInv, MmioOutsideRam, KindCover, Live
  <1>5. CASE ~Skipped(e)
    <2>1. \A a \in Addr : Inside(a, r) => a \notin Cover(ram)
      BY <1>1, <1>5, BlockOutsideRam
    <2> HIDE DEF r
    <2>2. phase' \in {"mmio", "failed"}
          /\ \A a \in KindCover("mmio")' : a \in KindCover("mmio") \/ Inside(a, r)
      BY <1>2, <1>3, <1>5, ReserveAdds
    <2>3. KindCover("mmio")' \subseteq Addr /\ Cover(ram)' = Cover(ram)
      BY <1>2 DEF KindCover, CoverOf, Cover
    <2> QED
      BY <1>2, <2>1, <2>2, <2>3 DEF MmioInv, MmioOutsideRam
  <1> QED
    BY <1>4, <1>5

\* The other reserving loops add no block of a device.
LEMMA ReserveOthersMmio ==
    ASSUME Inv, MmioInv, ReserveOwn \/ ReadReserved \/ ReserveDtb
    PROVE  MmioInv'
  <1>1. /\ phase \in {"own", "dtb"} /\ KindCover("mmio") = {} /\ UNCHANGED <<i, out, stage, ram, reserved>>
        /\ stage = "idle"
    BY DEF ReserveOwn, ReadReserved, ReserveDtb, MmioInv, Inv, PhaseInv
  <1>2. KindCover("mmio")' = {}
    <2>1. CASE UNCHANGED arr
      BY <1>1, <2>1 DEF KindCover, Live
    <2>2. CASE ReserveOwn
      <3>1. platform \in Platform /\ n \in {1, 2, 3} /\ platform.memory[1] \in Extent
        BY <2>2 DEF Inv, TypeOK, ReserveOwn, Platform
      <3> DEFINE r == OwnRequests(platform)[n]
      <3>2. r \in Region /\ r.kind # "mmio"
        <4>1. CASE n = 1
          BY <4>1, NewRegionType, KernelAssumption DEF OwnRequests, Kinds
        <4>2. CASE n = 2
          BY <3>1, <4>2, NewRegionType, KernelAssumption DEF OwnRequests, Kinds, Extent
        <4>3. CASE n = 3
          BY <3>1, <4>3, ExtentRegionType DEF OwnRequests, Kinds, Platform
        <4> QED
          BY <3>1, <4>1, <4>2, <4>3
      <3>3. AddRegion(WorkspaceCap, r)
        BY <2>2 DEF ReserveOwn
      <3> HIDE DEF r
      <3> QED
        BY <1>1, <3>2, <3>3, AddKindCover, CapAssumption DEF Inv, TypeOK, Kinds
    <2>3. CASE ReserveDtb /\ ~UNCHANGED arr
      <3>1. n \in DOMAIN platform.reserved /\ platform \in Platform
        BY <2>3 DEF Inv, TypeOK, ReserveDtb, DtbReserved, Platform
      <3> DEFINE r == ExtentRegion(platform.reserved[n], "dtb_reserved")
      <3>2. r \in Region /\ r.kind # "mmio"
        BY <3>1, ExtentRegionType DEF Platform, Kinds
      <3>3. AddRegion(WorkspaceCap, r)
        BY <2>3 DEF ReserveDtb
      <3> HIDE DEF r
      <3> QED
        BY <1>1, <3>2, <3>3, AddKindCover, CapAssumption DEF Inv, TypeOK, Kinds
    <2> QED
      BY <2>1, <2>2, <2>3 DEF ReadReserved
  <1> QED
    BY <1>1, <1>2 DEF MmioInv, MmioOutsideRam

\* The list the merge leaves keeps the devices outside RAM.
LEMMA KeepReservedMmio ==
    ASSUME Inv, MmioInv, KeepReserved
    PROVE  MmioInv'
  <1>1. /\ phase = "mmio" /\ phase' = "sweep" /\ stage = "merged" /\ reserved' = Merged /\ ram' = ram
        /\ MergeTypeOK /\ MergeInv /\ WholePages(arr) /\ TypeOK
    BY DEF KeepReserved, NextList, Inv, TypeOK
  <1>2. Merged \in Seq(Region) /\ WholePages(Merged)
    BY <1>1, MergedFacts
  <1>3. out \in 0 .. Len(arr) /\ arr \in Seq(Region) /\ Len(arr) \in Nat /\ 1 .. out \subseteq Live
    BY <1>1, SeqDomain DEF MergeInv, MergeTypeOK, Live
  <1>4. ASSUME NEW q \in DOMAIN Merged, Merged[q].kind = "mmio",
               NEW p \in DOMAIN ram,
               mm_ranges_overlap(Merged[q].start, Merged[q].end, ram[p].start, ram[p].end)
        PROVE  FALSE
    <2>1. Merged[q] \in Region /\ WellFormed(Merged[q]) /\ ram[p] \in Region /\ WellFormed(ram[p])
      BY <1>1, <1>2 DEF TypeOK, WholePages
    <2>2. PICK a \in Addr : Inside(a, Merged[q]) /\ Inside(a, ram[p])
      BY <1>4, <2>1, OverlapMeets
    <2>3. q \in Live /\ arr[q] = Merged[q]
      BY <1>3 DEF Merged
    <2>4. a \in KindCover("mmio") /\ a \in Cover(ram)
      BY <1>4, <2>2, <2>3 DEF KindCover, Cover, CoverOf
    <2> QED
      BY <1>1, <2>4 DEF MmioInv
  <1>5. MmioOutsideRam'
    BY <1>1, <1>4 DEF MmioOutsideRam, mm_region_overlaps_any
  <1> QED
    BY <1>1, <1>5 DEF MmioInv

\* A merge moves no address from one kind to another.
LEMMA MergeMmio ==
    ASSUME Inv, MmioInv, CallMerge \/ RunMerge
    PROVE  MmioInv'
  <1>1. /\ MergeTypeOK /\ MergeInv /\ WholePages(arr)
        /\ StartMerge \/ MergeStep
        /\ UNCHANGED <<phase, ram, reserved>>
    BY DEF Inv, TypeOK, CallMerge, RunMerge, mapVars
  <1>2. KindCover("mmio")' = KindCover("mmio")
    <2>1. "mmio" \in Kinds
      BY DEF Kinds
    <2>2. \A k \in Kinds : KindCover(k)' = KindCover(k)
      BY <1>1, StartMergeFacts, MergeStepFacts
    <2> QED
      BY <2>1, <2>2
  <1> QED
    BY <1>1, <1>2 DEF MmioInv, MmioOutsideRam, Cover

\* Every step keeps the devices outside RAM.
LEMMA NextMmio ==
    ASSUME Inv, MmioInv, [Next]_vars
    PROVE  MmioInv'
  <1>1. CASE AddRam \/ KeepRam
    <2>1. /\ reserved = <<>> /\ reserved' = reserved /\ phase' \in {"ram", "failed", "own"}
          /\ phase' = "own" => arr' = <<>> /\ stage' = "idle"
      BY <1>1 DEF AddRam, KeepRam, AddRegion, NextList, Inv, PhaseInv
    <2>2. phase' = "own" => KindCover("mmio")' = {}
      <3>1. phase' = "own" => Live' = {}
        BY <2>1 DEF Live
      <3> QED
        BY <3>1 DEF KindCover, CoverOf
    <2>3. MmioOutsideRam'
      BY <2>1 DEF MmioOutsideRam
    <2> QED
      BY <2>1, <2>2, <2>3 DEF MmioInv
  <1>2. CASE Sweep \/ SweepTail \/ KeepFree \/ Clip \/ Crash \/ Publish
    <2>1. phase' \in {"sweep", "clip", "done", "failed", "crashed"} /\ UNCHANGED <<ram, reserved>>
      BY <1>2 DEF Sweep, SweepTail, KeepFree, Clip, Crash, Publish, AddRegion, NextList
    <2> QED
      BY <2>1 DEF MmioInv, MmioOutsideRam
  <1>3. CASE UNCHANGED vars
    BY <1>3 DEF MmioInv, MmioOutsideRam, KindCover, Live, Cover, vars
  <1> QED
    BY <1>1, <1>2, <1>3, ReserveMmioMmio, ReserveOthersMmio, KeepReservedMmio, MergeMmio
    DEF Next, Returned

\* No reserved device block overlaps RAM, for any page size: the overlap test takes
\* the block's own ends and the region added its rounded ones.
THEOREM DevicesStayOutsideRam == Spec => []MmioOutsideRam
  <1>1. Init => MmioInv
    BY DEF Init, InitOn, MmioInv, MmioOutsideRam
  <1>2. MmioInv => MmioOutsideRam
    BY DEF MmioInv
  <1> QED
    BY InvHolds, NextMmio, <1>1, <1>2, PTL DEF Spec

-----------------------------------------------------------------------------
(* Requests.                                                                *)

\* The region of each of the kernel's own requests covers what it asks for.
LEMMA OwnCovers ==
    ASSUME TypeOK, NEW k \in 1 .. 3
    PROVE  /\ OwnRequests(platform)[k] \in Region
           /\ ~Dropped(OwnRequests(platform)[k]) => WellFormed(OwnRequests(platform)[k])
           /\ OwnAsked(platform, k) \subseteq {a \in Addr : Inside(a, OwnRequests(platform)[k])}
  <1>1. platform.memory[1].base \in Addr /\ platform.fdt \in Extent
    <2>1. platform \in Platform /\ Len(platform.memory) \in 1 .. MaxRam
      BY DEF TypeOK
    <2>2. platform.memory \in Seq(Extent) /\ platform.fdt \in Extent
      BY <2>1 DEF Platform
    <2>3. platform.memory[1] \in Extent
      BY <2>1, <2>2
    <2> QED
      BY <2>2, <2>3 DEF Extent
  <1>2. /\ KernelStart \in Addr /\ KernelImageEnd \in Addr
        /\ KernelStart + PageSize <= AddrSpan /\ KernelImageEnd + PageSize <= AddrSpan
    BY KernelAssumption, PageAssumption DEF Addr
  <1>3. CASE k = 1
    BY <1>2, <1>3, NewRegionType, RoundingCovers DEF OwnRequests, OwnAsked, Kinds
  <1>4. CASE k = 2
    BY <1>1, <1>2, <1>4, NewRegionType, RoundingCovers DEF OwnRequests, OwnAsked, Kinds
  <1>5. CASE k = 3
    BY <1>1, <1>5, ExtentRegionType, ExtentCovers DEF OwnRequests, OwnAsked, Kinds
  <1> QED
    BY <1>3, <1>4, <1>5

\* The first loop asks for image, boot area and blob one after the other.
LEMMA ReserveOwnRequest ==
    ASSUME Inv, RequestInv, ReserveOwn
    PROVE  RequestInv'
  <1> DEFINE r == OwnRequests(platform)[n]
  <1>1. /\ phase = "own" /\ stage = "idle" /\ n \in 1 .. 3 /\ n' = n + 1 /\ AddRegion(WorkspaceCap, r)
        /\ UNCHANGED <<i, out, stage, platform, reserved>>
    BY DEF ReserveOwn, Inv, TypeOK, PhaseInv
  <1>2. /\ r \in Region /\ (~Dropped(r) => WellFormed(r))
        /\ OwnAsked(platform, n) \subseteq {a \in Addr : Inside(a, r)}
    BY <1>1, OwnCovers DEF Inv
  <1> HIDE DEF r
  <1>3. /\ phase' \in {"own", "failed"}
        /\ phase' # "failed" => LiveCover' = LiveCover \cup {a \in Addr : Inside(a, r)}
    BY <1>1, <1>2, ReserveAdds
  <1>4. ASSUME phase' = "own", NEW k \in 1 .. 3, k < n'
        PROVE  OwnAsked(platform, k) \subseteq LiveCover'
    <2>1. k < n \/ k = n
      BY <1>1, <1>4
    <2> QED
      BY <1>1, <1>2, <1>3, <1>4, <2>1 DEF RequestInv
  <1>5. platform' = platform
    BY <1>1
  <1> QED
    BY <1>3, <1>4, <1>5 DEF RequestInv, RequestsReserved, OwnAsked

\* All three are asked for when the device tree's reservations are read.
LEMMA ReadReservedRequest ==
    ASSUME Inv, RequestInv, ReadReserved
    PROVE  RequestInv'
  <1>1. /\ phase = "own" /\ n \in Nat /\ n > 3 /\ n' = 1 /\ phase' \in {"failed", "dtb"}
        /\ LiveCover' = LiveCover /\ platform' = platform
    BY DEF ReadReserved, Inv, TypeOK, LiveCover, Live
  <1>2. \A k \in 1 .. 3 : OwnAsked(platform, k) \subseteq LiveCover
    BY <1>1 DEF RequestInv
  <1>3. DOMAIN DtbReserved(platform) \subseteq Nat \ {0}
    BY SeqDomain DEF DtbReserved, Inv, TypeOK, Platform
  <1> QED
    BY <1>1, <1>2, <1>3 DEF RequestInv, RequestsReserved, OwnAsked

\* The loop over the entries of /reserved-memory asks for each of them.
LEMMA ReserveDtbRequest ==
    ASSUME Inv, RequestInv, ReserveDtb
    PROVE  RequestInv'
  <1>1. /\ phase = "dtb" /\ stage = "idle" /\ n \in Nat \ {0}
        /\ UNCHANGED <<i, out, stage, platform, reserved>>
        /\ \A k \in 1 .. 3 : OwnAsked(platform, k) \subseteq LiveCover
    BY DEF ReserveDtb, Inv, TypeOK, PhaseInv, RequestInv
  <1>2. /\ platform.reserved \in Seq(Extent) /\ DtbReserved(platform) \in Seq(Extent)
        /\ Len(DtbReserved(platform)) \in Nat
        /\ DOMAIN DtbReserved(platform) = 1 .. Len(DtbReserved(platform))
        /\ \A k \in DOMAIN DtbReserved(platform) : DtbReserved(platform)[k] = platform.reserved[k]
    <2>1. platform.reserved \in Seq(Extent)
      BY DEF Inv, TypeOK, Platform
    <2>2. DtbReserved(platform) \in {<<>>, platform.reserved}
      BY DEF DtbReserved
    <2>3. DtbReserved(platform) \in Seq(Extent)
      <3>1. <<>> \in Seq(Extent)
        OBVIOUS
      <3> QED
        BY <2>1, <2>2, <3>1
    <2>4. \A k \in DOMAIN DtbReserved(platform) : DtbReserved(platform)[k] = platform.reserved[k]
      BY <2>2
    <2> QED
      BY <2>1, <2>3, <2>4, SeqDomain
  <1>3. CASE n <= Len(DtbReserved(platform))
    <2> DEFINE r == ExtentRegion(platform.reserved[n], "dtb_reserved")
    <2>1. n \in DOMAIN DtbReserved(platform) /\ DtbReserved(platform)[n] = platform.reserved[n]
          /\ platform.reserved[n] \in Extent /\ "dtb_reserved" \in Kinds
      BY <1>1, <1>2, <1>3 DEF Kinds
    <2>2. /\ r \in Region /\ (~Dropped(r) => WellFormed(r))
          /\ Asked(DtbReserved(platform)[n]) \subseteq {a \in Addr : Inside(a, r)}
      BY <2>1, ExtentRegionType, ExtentCovers
    <2>3. AddRegion(WorkspaceCap, r) /\ n' = n + 1
      BY <1>3 DEF ReserveDtb
    <2> HIDE DEF r
    <2>4. /\ phase' \in {"dtb", "failed"}
          /\ phase' # "failed" => LiveCover' = LiveCover \cup {a \in Addr : Inside(a, r)}
      BY <1>1, <2>2, <2>3, ReserveAdds
    <2>5. ASSUME phase' = "dtb", NEW k \in DOMAIN DtbReserved(platform), k < n'
          PROVE  Asked(DtbReserved(platform)[k]) \subseteq LiveCover'
      <3>1. k < n \/ k = n
        BY <1>1, <1>2, <2>3, <2>5
      <3> QED
        BY <1>1, <2>2, <2>4, <2>5, <3>1 DEF RequestInv
    <2>6. platform' = platform /\ DtbReserved(platform)' = DtbReserved(platform)
      BY <1>1 DEF DtbReserved
    <2>7. phase' = "dtb" => \A k \in 1 .. 3 : OwnAsked(platform, k) \subseteq LiveCover'
      BY <1>1, <2>4
    <2> QED
      BY <2>4, <2>5, <2>6, <2>7 DEF RequestInv, RequestsReserved, OwnAsked
  <1>4. CASE ~(n <= Len(DtbReserved(platform)))
    <2>1. phase' = "mmio" /\ LiveCover' = LiveCover /\ platform' = platform
      BY <1>1, <1>4 DEF ReserveDtb, LiveCover, Live
    <2>2. \A k \in DOMAIN DtbReserved(platform) : k < n
      BY <1>1, <1>2, <1>4
    <2>3. \A k \in DOMAIN DtbReserved(platform) : Asked(DtbReserved(platform)[k]) \subseteq LiveCover
      BY <1>1, <2>2 DEF RequestInv
    <2> QED
      BY <1>1, <2>1, <2>3 DEF RequestInv, RequestsReserved, OwnAsked, DtbReserved
  <1> QED
    BY <1>3, <1>4

\* Devices and merges take nothing away from what is held.
LEMMA MmioAndMergeRequest ==
    ASSUME Inv, RequestInv, phase # "own", ReserveMmio \/ CallMerge \/ RunMerge
    PROVE  RequestInv'
  <1>1. /\ UNCHANGED <<platform, reserved>> /\ phase' \in {phase, "failed"}
        /\ phase # "dtb"
    BY DEF ReserveMmio, CallMerge, RunMerge, AddRegion, mapVars, Inv, PhaseInv, MergeStep, SortStep,
       SortReturn, Absorb, Advance, MergeReturn
  <1>2. phase' # "failed" => LiveCover \subseteq LiveCover'
    BY ReserveMmioInv, CallMergeInv, RunMergeInv
  <1>3. platform' = platform /\ DtbReserved(platform)' = DtbReserved(platform) /\ Cover(reserved)' = Cover(reserved)
    BY <1>1 DEF DtbReserved, Cover
  <1> QED
    BY <1>1, <1>2, <1>3 DEF RequestInv, RequestsReserved, OwnAsked

\* When the list is kept, everything asked for is in it.
LEMMA KeepReservedRequest ==
    ASSUME Inv, RequestInv, KeepReserved
    PROVE  RequestInv'
  <1>1. /\ phase = "mmio" /\ phase' = "sweep" /\ platform' = platform
        /\ Cover(reserved)' = Cover(Merged) /\ Cover(Merged) = LiveCover
    BY MergedFacts DEF KeepReserved, NextList, Inv, TypeOK, Cover
  <1>2. \A k \in 1 .. 3 : OwnAsked(platform, k) \subseteq LiveCover
    BY <1>1 DEF RequestInv
  <1>3. /\ KernelStart .. KernelImageEnd - 1 \subseteq LiveCover
        /\ platform.memory[1].base .. KernelStart - 1 \subseteq LiveCover
        /\ Asked(platform.fdt) \subseteq LiveCover
    <2>1. 1 \in 1 .. 3 /\ 2 \in 1 .. 3 /\ 3 \in 1 .. 3
      OBVIOUS
    <2> QED
      BY <1>2, <2>1 DEF OwnAsked
  <1>4. \A e \in StoredEntries(platform) : Asked(e) \subseteq LiveCover
    <2> SUFFICES ASSUME NEW e \in StoredEntries(platform)
                 PROVE  Asked(e) \subseteq LiveCover
      OBVIOUS
    <2>1. DtbReserved(platform) = platform.reserved /\ e \in Range(platform.reserved)
      BY DEF StoredEntries, DtbReserved
    <2>2. PICK k \in DOMAIN DtbReserved(platform) : e = DtbReserved(platform)[k]
      BY <2>1 DEF Range
    <2> QED
      BY <1>1, <2>2 DEF RequestInv
  <1> QED
    BY <1>1, <1>3, <1>4 DEF RequestInv, RequestsReserved, Asked

\* Every step keeps what was asked for.
LEMMA NextRequest ==
    ASSUME Inv, RequestInv, [Next]_vars
    PROVE  RequestInv'
  <1>1. CASE AddRam \/ KeepRam
    <2>1. /\ phase' \in {"ram", "failed", "own"} /\ platform' = platform
          /\ phase' = "own" => n' = 1
      BY <1>1 DEF AddRam, KeepRam, AddRegion, NextList
    <2> QED
      BY <2>1 DEF RequestInv, RequestsReserved
  <1>2. CASE Sweep \/ SweepTail \/ KeepFree \/ Clip \/ Crash \/ Publish
    <2>1. /\ phase \in {"sweep", "clip"} /\ phase' \in {"sweep", "clip", "done", "failed", "crashed"}
          /\ platform' = platform /\ Cover(reserved)' = Cover(reserved)
      BY <1>2 DEF Sweep, SweepTail, KeepFree, Clip, Crash, Publish, AddRegion, NextList, Cover
    <2> QED
      BY <2>1 DEF RequestInv, RequestsReserved
  <1>3. CASE UNCHANGED vars
    BY <1>3 DEF RequestInv, RequestsReserved, OwnAsked, DtbReserved, LiveCover, Live, Cover, vars
  <1>4. CASE ReserveMmio \/ CallMerge \/ RunMerge
    <2>1. phase # "own"
      BY <1>4 DEF ReserveMmio, CallMerge, RunMerge, Inv, PhaseInv, MergeStep, SortStep, SortReturn,
         Absorb, Advance, MergeReturn
    <2> QED
      BY <1>4, <2>1, MmioAndMergeRequest
  <1> QED
    BY <1>1, <1>2, <1>3, <1>4, ReserveOwnRequest, ReadReservedRequest, ReserveDtbRequest,
       KeepReservedRequest DEF Next, Returned

\* The kernel image, the boot area and, where they end below the last page of the
\* address space, the blob and the reservations the query stored are reserved when
\* free memory is computed, for every board and every capacity.
THEOREM RequestsAreReserved == Spec => []RequestsReserved
  <1>1. Init => RequestInv
    BY DEF Init, InitOn, RequestInv, RequestsReserved
  <1>2. RequestInv => RequestsReserved
    BY DEF RequestInv
  <1> QED
    BY InvHolds, NextRequest, <1>1, <1>2, PTL DEF Spec

-----------------------------------------------------------------------------
(* The frame behind the kernel.                                             *)

\* No RAM region begins below the page some bank of the device tree begins in.
BankBelow(a) == \E q \in DOMAIN platform.memory : mm_align_down(platform.memory[q].base) <= a

FrameInv ==
    /\ phase = "ram" => \A a \in LiveCover : BankBelow(a)
    /\ \A a \in Cover(ram) : BankBelow(a)

\* A list of whole pages that has an address has those before it in its page.
LEMMA WholePage ==
    ASSUME NEW s \in Seq(Region), WholePages(s), NEW x \in Cover(s), NEW a \in Addr,
           a <= x, mm_align_down(x) <= a
    PROVE  a \in Cover(s)
  <1>1. PICK q \in DOMAIN s : x \in Addr /\ Inside(x, s[q])
    BY DEF Cover, CoverOf
  <1>2. s[q] \in Region /\ WellFormed(s[q]) /\ x \in Nat /\ a \in Nat
    BY <1>1, SeqDomain, PageAssumption DEF WholePages, Addr
  <1>3. s[q].start \in Nat /\ s[q].end \in Int /\ IsAligned(s[q].start) /\ s[q].start <= x /\ x < s[q].end
    BY <1>1, <1>2, PageAssumption DEF Inside, WellFormed, Region, Addr
  <1>4. s[q].start <= mm_align_down(x) /\ mm_align_down(x) \in Nat
    BY <1>2, <1>3, AlignDownStops, AlignDown
  <1>5. Inside(a, s[q])
    BY <1>2, <1>3, <1>4 DEF Inside
  <1> QED
    BY <1>5 DEF Cover, CoverOf

\* A bank of the device tree covers nothing below its page.
LEMMA BankCovers ==
    ASSUME Inv, AddRam
    PROVE  FrameInv => FrameInv'
  <1> DEFINE e == platform.memory[n]
             r == ExtentRegion(e, "allocatable")
  <1>1. e \in Extent /\ n \in DOMAIN platform.memory
    <2>1. platform \in Platform /\ n \in Nat \ {0}
      BY DEF Inv, TypeOK
    <2> QED
      BY <2>1 DEF AddRam, Platform
  <1>2. r \in Region /\ (~Dropped(r) => WellFormed(r)) /\ r.start = mm_align_down(e.base)
    BY <1>1, ExtentRegionType DEF Kinds, ExtentRegion, NewRegion
  <1>3. MaxRam \in Nat /\ MergeTypeOK /\ WholePages(arr)
    BY CapAssumption DEF Inv, TypeOK
  <1>4. AddRegion(MaxRam, r) /\ UNCHANGED <<i, out, stage, ram, platform>> /\ stage = "idle" /\ phase = "ram"
    BY DEF AddRam
  <1>5. \A a : Inside(a, r) => BankBelow(a)
    BY <1>1, <1>2 DEF Inside, BankBelow
  <1> HIDE DEF r, e
  <1>6. /\ phase' \in {"ram", "failed"}
        /\ phase' # "failed" => LiveCover' = LiveCover \cup {a \in Addr : Inside(a, r)}
    BY <1>2, <1>3, <1>4, AddRegionFacts
  <1> QED
    BY <1>4, <1>5, <1>6 DEF FrameInv, BankBelow, Cover

\* Every step keeps FrameInv.
LEMMA NextFrame ==
    ASSUME Inv, FrameInv, [Next]_vars
    PROVE  FrameInv'
  <1>1. CASE AddRam
    BY <1>1, BankCovers
  <1>2. CASE KeepRam
    <2>1. /\ phase = "ram" /\ phase' = "own" /\ ram' = Merged /\ platform' = platform /\ stage = "merged"
          /\ MergeTypeOK /\ MergeInv /\ WholePages(arr)
      BY <1>2 DEF KeepRam, NextList, Inv, TypeOK
    <2>2. Cover(Merged) = LiveCover
      BY <2>1, MergedFacts
    <2>3. Cover(ram)' = LiveCover
      BY <2>1, <2>2 DEF Cover
    <2> QED
      BY <2>1, <2>3 DEF FrameInv, BankBelow
  <1>3. CASE CallMerge \/ RunMerge
    <2>1. UNCHANGED <<phase, ram, platform, mm_state, free>> /\ LiveCover' = LiveCover
      BY <1>3, CallMergeInv, RunMergeInv DEF CallMerge, RunMerge, mapVars
    <2> QED
      BY <2>1 DEF FrameInv, BankBelow, Cover
  <1>4. CASE ReserveOwn \/ ReadReserved \/ ReserveDtb \/ ReserveMmio \/ KeepReserved \/ Sweep
             \/ SweepTail \/ KeepFree \/ Clip \/ Crash \/ Publish
    <2>1. phase' # "ram" /\ UNCHANGED <<ram, platform>>
      BY <1>4 DEF ReserveOwn, ReadReserved, ReserveDtb, ReserveMmio, KeepReserved, Sweep,
         SweepTail, KeepFree, Clip, Crash, Publish, AddRegion, NextList
    <2> QED
      BY <2>1 DEF FrameInv, BankBelow, Cover
  <1>5. CASE UNCHANGED vars
    BY <1>5 DEF FrameInv, BankBelow, Cover, LiveCover, Live, vars
  <1> QED
    BY <1>1, <1>2, <1>3, <1>4, <1>5 DEF Next, Returned

\* Below the frame behind the kernel nothing is free.
LEMMA NothingBelow ==
    ASSUME Inv, RequestsReserved, FrameInv, phase = "done", MainBankLowest, NEW a \in Cover(free)
    PROVE  KernelImageEnd <= a
  <1> DEFINE b == platform.memory[1].base
  <1>1. SUFFICES ASSUME a < KernelImageEnd PROVE FALSE
    BY KernelAssumption, PageAssumption DEF Cover, CoverOf, Addr
  <1>2. a \in Addr /\ a \in Nat /\ a \in Cover(ram) /\ a \notin Cover(reserved)
    <2>1. a \in Cover(ram) /\ a \notin Cover(reserved)
      BY DEF Inv, FreeExact
    <2>2. a \in Addr
      BY <2>1 DEF Cover, CoverOf
    <2> QED
      BY <2>1, <2>2, PageAssumption DEF Addr
  <1>3. /\ KernelStart \in Nat /\ KernelImageEnd \in Nat /\ KernelStart < KernelImageEnd
        /\ KernelImageEnd < AddrSpan /\ AddrSpan \in Nat
    BY KernelAssumption, PageAssumption DEF Addr
  <1>4. platform \in Platform /\ Len(platform.memory) >= 1
    BY DEF Inv, TypeOK
  <1>5. platform.memory \in Seq(Extent)
    BY <1>4 DEF Platform
  <1>6. \A q \in DOMAIN platform.memory : platform.memory[q].base \in Nat
    <2>1. \A q \in DOMAIN platform.memory : platform.memory[q] \in Extent
      BY <1>5
    <2> QED
      BY <2>1, PageAssumption DEF Extent, Addr
  <1>7. b \in Nat
    BY <1>4, <1>5, <1>6
  <1>8. PICK q \in DOMAIN platform.memory : mm_align_down(platform.memory[q].base) <= a
    BY <1>2 DEF FrameInv, BankBelow
  <1> DEFINE c == platform.memory[q].base
  <1>9. b <= c /\ c \in Nat /\ mm_align_down(c) <= a
    BY <1>6, <1>8 DEF MainBankLowest
  <1>10. KernelStart .. KernelImageEnd - 1 \subseteq Cover(reserved) /\ b .. KernelStart - 1 \subseteq Cover(reserved)
    BY DEF RequestsReserved
  <1> HIDE DEF b, c
  <1>11. CASE b <= a
    <2>1. a \in KernelStart .. KernelImageEnd - 1 \/ a \in b .. KernelStart - 1
      BY <1>1, <1>2, <1>3, <1>7, <1>11
    <2> QED
      BY <1>2, <1>10, <2>1
  <1>12. CASE a < b
    <2> DEFINE x == IF b < KernelImageEnd THEN b ELSE KernelImageEnd - 1
    <2>1. x \in Nat /\ a <= x /\ x <= c /\ x < KernelImageEnd
      BY <1>1, <1>2, <1>3, <1>7, <1>9, <1>12
    <2>2. x \in Cover(reserved)
      <3>1. x \in KernelStart .. KernelImageEnd - 1 \/ x \in b .. KernelStart - 1
        BY <1>3, <1>7
      <3> QED
        BY <1>10, <3>1
    <2> HIDE DEF x
    <2>3. mm_align_down(x) <= a
      <3>1. mm_align_down(x) \in Nat /\ mm_align_down(x) <= x /\ IsAligned(mm_align_down(x))
        BY <2>1, AlignDown
      <3>2. mm_align_down(x) <= mm_align_down(c) /\ mm_align_down(c) \in Nat
        BY <1>9, <2>1, <3>1, AlignDownStops, AlignDown
      <3> QED
        BY <1>2, <1>9, <3>1, <3>2
    <2>4. reserved \in Seq(Region) /\ WholePages(reserved)
      BY DEF Inv, TypeOK
    <2> QED
      BY <1>2, <2>1, <2>2, <2>3, <2>4, WholePage
  <1> QED
    BY <1>2, <1>7, <1>11, <1>12

\* On a board whose main bank is its lowest nothing below the kernel's end is free, for
\* every page size and wherever the kernel ends (mm_stage2_build).
THEOREM NothingBelowIsFree == Spec => []NothingFreeBelow
  <1>1. Init => FrameInv
    <2> SUFFICES ASSUME Init PROVE FrameInv
      OBVIOUS
    <2>1. arr = <<>> /\ ram = <<>> /\ stage = "idle" /\ phase = "ram"
      BY DEF Init, InitOn
    <2>2. LiveCover = {} /\ Cover(ram) = {}
      BY <2>1 DEF LiveCover, Live, Cover, CoverOf
    <2> QED
      BY <2>1, <2>2 DEF FrameInv
  <1>2. Inv /\ RequestsReserved /\ FrameInv => NothingFreeBelow
    BY NothingBelow DEF NothingFreeBelow
  <1> QED
    BY InvHolds, RequestsAreReserved, NextFrame, <1>1, <1>2, PTL DEF Spec

-----------------------------------------------------------------------------
(* Counting pages.                                                         *)

\* The numbers of the pages whose first address is in A.
PagesOf(A) == {k \in 0 .. AddrSpan : PageSize * k \in A}

PageCount(A) == Cardinality(PagesOf(A))

\* The addresses from start up to, not including, end.
Span(start, end) == {a \in Addr : start <= a /\ a < end}

\* A quotient is unique.
LEMMA DivUnique ==
    ASSUME NEW d \in Nat \ {0}, NEW k \in Nat
    PROVE  (d * k) \div d = k
  OBVIOUS

\* Multiplying by the page size keeps the order, both ways.
LEMMA PageOrder ==
    ASSUME NEW k \in Nat, NEW m \in Nat
    PROVE  /\ PageSize * k <= PageSize * m <=> k <= m
           /\ PageSize * k < PageSize * m <=> k < m
           /\ PageSize * k \in Nat /\ k <= PageSize * k
  <1>1. PageSize \in Nat /\ PageSize >= 1
    BY PageAssumption
  <1>2. PageSize * k \in Nat /\ PageSize * m \in Nat
    BY <1>1
  <1>3. ASSUME NEW x \in Nat, NEW y \in Nat, x < y
        PROVE  PageSize * x < PageSize * y
    <2>1. PageSize * x + PageSize = PageSize * (x + 1)
      BY <1>1
    <2>2. PageSize * (x + 1) <= PageSize * y
      BY <1>1, <1>3
    <2>3. PageSize * x \in Nat /\ PageSize * (x + 1) \in Nat /\ PageSize * y \in Nat
      BY <1>1
    <2> QED
      BY <1>1, <2>1, <2>2, <2>3
  <1>4. k <= PageSize * k
    BY <1>1
  <1>5. k < m => PageSize * k < PageSize * m
    BY <1>3
  <1>6. m < k => PageSize * m < PageSize * k
    BY <1>3
  <1>7. k = m => PageSize * k = PageSize * m
    OBVIOUS
  <1> QED
    BY <1>2, <1>4, <1>5, <1>6, <1>7

\* A page boundary is a multiple of the page size.
LEMMA AlignedMultiple ==
    ASSUME NEW v \in Nat, IsAligned(v)
    PROVE  \E k \in Nat : v = PageSize * k
  <1>1. v \div PageSize \in Nat /\ v = PageSize * (v \div PageSize) + (v % PageSize)
    BY DivMod, PageAssumption
  <1>2. v = PageSize * (v \div PageSize)
    BY <1>1, PageAssumption DEF IsAligned
  <1> QED
    BY <1>1, <1>2

\* Page counts of disjoint sets add up.
LEMMA CountFacts ==
    ASSUME NEW A, NEW B
    PROVE  /\ PageCount(A) \in Nat
           /\ A \cap B = {} => PageCount(A \cup B) = PageCount(A) + PageCount(B)
           /\ PageCount({}) = 0
  <1>1. IsFiniteSet(0 .. AddrSpan)
    BY FS_Interval, PageAssumption
  <1>2. /\ PagesOf(A) \subseteq 0 .. AddrSpan
        /\ PagesOf(B) \subseteq 0 .. AddrSpan
    BY DEF PagesOf
  <1>3. IsFiniteSet(PagesOf(A)) /\ IsFiniteSet(PagesOf(B))
    BY <1>1, <1>2, FS_Subset
  <1>4. PageCount(A) \in Nat /\ PageCount(B) \in Nat
    BY <1>3, FS_CardinalityType DEF PageCount
  <1>5. PagesOf({}) = {} /\ Cardinality({}) = 0
    BY FS_EmptySet DEF PagesOf
  <1>6. ASSUME A \cap B = {}
        PROVE  PageCount(A \cup B) = PageCount(A) + PageCount(B)
    <2>1. PagesOf(A \cup B) = PagesOf(A) \cup PagesOf(B) /\ PagesOf(A) \cap PagesOf(B) = {}
      BY <1>6 DEF PagesOf
    <2>2. Cardinality(PagesOf(A) \cup PagesOf(B))
            = Cardinality(PagesOf(A)) + Cardinality(PagesOf(B)) - 0
      BY <1>3, <1>5, <2>1, FS_Union
    <2>3. PageCount(A \cup B) = PageCount(A) + PageCount(B) - 0
      BY <2>1, <2>2 DEF PageCount
    <2> QED
      BY <1>4, <2>3
  <1> QED
    BY <1>4, <1>5, <1>6 DEF PageCount

\* Whole pages are counted by mm_pages_u64.
LEMMA SpanCount ==
    ASSUME NEW start \in Addr, NEW end \in Addr, start < end, IsAligned(start), IsAligned(end)
    PROVE  PageCount(Span(start, end)) = mm_pages_u64(start, end)
  <1>1. /\ start \in Nat /\ end \in Nat /\ end < AddrSpan /\ AddrSpan \in Nat
        /\ PageSize \in Nat \ {0}
    BY PageAssumption DEF Addr
  <1>2. PICK k \in Nat : start = PageSize * k
    BY <1>1, AlignedMultiple
  <1>3. PICK m \in Nat : end = PageSize * m
    BY <1>1, AlignedMultiple
  <1>4. k < m /\ m <= AddrSpan
    BY <1>1, <1>2, <1>3, PageOrder
  <1>5. mm_pages_u64(start, end) = m - k
    <2>1. PICK d \in Nat : d = m - k
      BY <1>4
    <2>2. end - start = PageSize * d
      BY <1>1, <1>2, <1>3, <2>1
    <2>3. (PageSize * d) \div PageSize = d
      BY <1>1, DivUnique
    <2> QED
      BY <1>1, <2>1, <2>2, <2>3 DEF mm_pages_u64
  <1>6. PagesOf(Span(start, end)) = k .. m - 1
    <2>1. ASSUME NEW x \in 0 .. AddrSpan
          PROVE  PageSize * x \in Span(start, end) <=> x \in k .. m - 1
      <3>1. PageSize * x \in Nat /\ x \in Nat
        BY PageOrder, PageAssumption
      <3>2. PageSize * x \in Addr /\ start <= PageSize * x /\ PageSize * x < end
              <=> start <= PageSize * x /\ PageSize * x < end
        BY <1>1, <3>1 DEF Addr
      <3>3. start <= PageSize * x <=> k <= x
        BY <1>2, <3>1, PageOrder
      <3>4. PageSize * x < end <=> x < m
        BY <1>3, <3>1, PageOrder
      <3> QED
        BY <3>1, <3>2, <3>3, <3>4 DEF Span
    <2>2. k .. m - 1 \subseteq 0 .. AddrSpan
      BY <1>1, <1>4
    <2> QED
      BY <2>1, <2>2 DEF PagesOf
  <1>7. Cardinality(k .. m - 1) = (m - 1) - k + 1
    BY <1>4, FS_Interval
  <1> QED
    BY <1>5, <1>6, <1>7 DEF PageCount

-----------------------------------------------------------------------------
(* The sums of the code.                                                    *)

\* The addresses of the entries up to m, and of the entry m + 1.
LEMMA CoverStep ==
    ASSUME NEW s, NEW m \in Nat
    PROVE  /\ CoverOf(s, 1 .. 0) = {}
           /\ CoverOf(s, 1 .. m + 1) = CoverOf(s, 1 .. m) \cup Span(s[m + 1].start, s[m + 1].end)
  <1>1. \A q : q \in 1 .. m + 1 <=> q \in 1 .. m \/ q = m + 1
    OBVIOUS
  <1> QED
    BY <1>1 DEF CoverOf, Span, Inside

\* mm_sum_pages satisfies the recursion it is written as.
LEMMA SumRuns ==
    ASSUME NEW s \in Seq(Region)
    PROVE  \E f : /\ f[0] = 0
                  /\ \A k \in 1 .. Len(s) : f[k] = f[k - 1] + mm_pages_u64(s[k].start, s[k].end)
                  /\ mm_sum_pages(s) = f[Len(s)]
  <1>1. PICK m \in Nat : m = Len(s)
    BY SeqDomain
  <1>2. \A k \in 1 .. m : mm_pages_u64(s[k].start, s[k].end) \in Int
    <2> TAKE k \in 1 .. m
    <2>1. s[k] \in Region
      BY <1>1, SeqDomain
    <2>2. s[k].start \in Nat /\ s[k].end \in Nat
      BY <2>1, PageAssumption DEF Region, Addr
    <2>3. PICK v \in Nat : v = IF s[k].end > s[k].start THEN s[k].end - s[k].start ELSE 0
      BY <2>2
    <2>4. v \div PageSize \in Nat
      BY DivMod, PageAssumption
    <2> QED
      BY <2>3, <2>4 DEF mm_pages_u64
  <1>3. PICK h \in [1 .. m -> [Int -> Int]] :
           \A k \in 1 .. m : \A x \in Int : h[k][x] = x + mm_pages_u64(s[k].start, s[k].end)
    <2> DEFINE g == [k \in 1 .. m |-> [x \in Int |-> x + mm_pages_u64(s[k].start, s[k].end)]]
    <2>1. /\ g \in [1 .. m -> [Int -> Int]]
          /\ \A k \in 1 .. m : \A x \in Int : g[k][x] = x + mm_pages_u64(s[k].start, s[k].end)
      BY <1>2
    <2> HIDE DEF g
    <2> QED
      BY <2>1
  <1>4. PICK f \in [0 .. m -> Int] : Runs(f, 0, h, m)
    <2>1. PICK T : T = Int
      OBVIOUS
    <2>2. PICK base \in T : base = 0
      BY <2>1
    <2>3. h \in [1 .. m -> [T -> T]]
      BY <2>1
    <2>4. \E f \in [0 .. m -> T] : Runs(f, base, h, m)
      BY <2>3, Recursion
    <2> QED
      BY <2>1, <2>2, <2>4
  <1>5. /\ f[0] = 0
        /\ \A k \in 1 .. m : f[k] = f[k - 1] + mm_pages_u64(s[k].start, s[k].end)
    <2>1. \A k \in 1 .. m : f[k - 1] \in Int
      OBVIOUS
    <2> QED
      BY <1>3, <1>4, <2>1 DEF Runs
  <1> DEFINE step(g) == [k \in 0 .. m |-> IF k = 0 THEN 0
                           ELSE g[k - 1] + mm_pages_u64(s[k].start, s[k].end)]
             sum == CHOOSE g : g = step(g)
  <1>6. mm_sum_pages(s) = sum[m]
    BY <1>1 DEF mm_sum_pages
  <1>7. f = step(f)
    <2>1. \A k \in 0 .. m : f[k] = step(f)[k]
      <3> TAKE k \in 0 .. m
      <3>1. k = 0 \/ k \in 1 .. m
        OBVIOUS
      <3> QED
        BY <1>5, <3>1
    <2> QED
      BY <2>1
  <1>8. sum = step(sum)
    <2> HIDE DEF step
    <2> QED
      BY <1>7
  <1> HIDE DEF sum
  <1>9. /\ sum[0] = 0
        /\ \A k \in 1 .. m : sum[k] = sum[k - 1] + mm_pages_u64(s[k].start, s[k].end)
    <2>1. step(sum)[0] = 0
      OBVIOUS
    <2>2. ASSUME NEW k \in 1 .. m
          PROVE  step(sum)[k] = sum[k - 1] + mm_pages_u64(s[k].start, s[k].end)
      <3>1. k \in 0 .. m /\ k # 0
        OBVIOUS
      <3> QED
        BY <3>1
    <2> HIDE DEF step
    <2> QED
      BY <1>8, <2>1, <2>2
  <1> QED
    BY <1>1, <1>6, <1>9

\* mm_sum_pages counts the pages of a list whose regions do not meet.
LEMMA SumCounts ==
    ASSUME NEW s \in Seq(Region), WholePages(s), Separated(s)
    PROVE  mm_sum_pages(s) = PageCount(Cover(s))
  <1>1. PICK f : /\ f[0] = 0
                 /\ \A k \in 1 .. Len(s) :
                      f[k] = f[k - 1] + mm_pages_u64(s[k].start, s[k].end)
                 /\ mm_sum_pages(s) = f[Len(s)]
    BY SumRuns
  <1>2. Len(s) \in Nat /\ DOMAIN s = 1 .. Len(s) /\ \A q \in 1 .. Len(s) : s[q] \in Region
    BY SeqDomain
  <1> DEFINE S == {p \in Nat : p <= Len(s) => f[p] = PageCount(CoverOf(s, 1 .. p))}
  <1>3. 0 \in S
    BY <1>1, CoverStep, CountFacts
  <1>4. ASSUME NEW p \in Nat, p \in S
        PROVE  p + 1 \in S
    <2> SUFFICES ASSUME p + 1 <= Len(s)
                 PROVE  f[p + 1] = PageCount(CoverOf(s, 1 .. p + 1))
      OBVIOUS
    <2> DEFINE r == s[p + 1]
    <2>1. p + 1 \in 1 .. Len(s) /\ p <= Len(s) /\ (p + 1) - 1 = p
      BY <1>2
    <2>2. /\ r \in Region /\ WellFormed(r) /\ r.start \in Addr /\ r.end \in Addr
          /\ \A q \in 1 .. p : s[q].end < r.start /\ s[q].end \in Addr
      <3>1. \A q \in 1 .. p : q \in 1 .. Len(s) /\ q < p + 1
        BY <1>2, <2>1
      <3> QED
        BY <1>2, <2>1, <3>1 DEF WholePages, Separated, Region
    <2> HIDE DEF r
    <2>3. CoverOf(s, 1 .. p) \cap Span(r.start, r.end) = {}
      <3>1. ASSUME NEW a \in Addr, a \in CoverOf(s, 1 .. p), r.start <= a
            PROVE  FALSE
        <4>1. PICK q \in 1 .. p : a < s[q].end
          BY <3>1 DEF CoverOf, Inside
        <4> QED
          BY <2>2, <3>1, <4>1, PageAssumption DEF Addr
      <3> QED
        BY <3>1 DEF Span
    <2>4. PageCount(Span(r.start, r.end)) = mm_pages_u64(r.start, r.end)
      BY <2>2, SpanCount DEF WellFormed
    <2>5. PageCount(CoverOf(s, 1 .. p + 1))
            = PageCount(CoverOf(s, 1 .. p)) + mm_pages_u64(r.start, r.end)
      BY <2>3, <2>4, CoverStep, CountFacts DEF r
    <2>6. f[p] = PageCount(CoverOf(s, 1 .. p))
      BY <1>4, <2>1
    <2> QED
      BY <1>1, <2>1, <2>5, <2>6 DEF r
  <1> HIDE DEF S
  <1>5. Len(s) \in S
    BY <1>2, <1>3, <1>4, Induction
  <1> QED
    BY <1>1, <1>2, <1>5 DEF S, Cover

-----------------------------------------------------------------------------
(* The rows of mm_sum_pages_clipped_to_ram.                                 *)

\* An entry of starts[] and ends[].
Piece == [start : Addr, end : Addr]

\* The part of r inside m, empty or not.
Clipped(r, m) == [start |-> mm_max_u64(r.start, m.start), end |-> mm_min_u64(r.end, m.end)]

\* One round of the inner loop on what it has collected so far.
RowStep(s, r, m) == IF Dropped(Clipped(r, m)) THEN s ELSE Append(s, Clipped(r, m))

\* The part of a region inside another one.
LEMMA ClippedFacts ==
    ASSUME NEW r \in Region, WellFormed(r), NEW m \in Region, WellFormed(m)
    PROVE  /\ Clipped(r, m) \in Piece
           /\ ~Dropped(Clipped(r, m)) => WellFormed(Clipped(r, m))
           /\ \A a \in Addr : (Inside(a, r) /\ Inside(a, m)) <=> Inside(a, Clipped(r, m))
           /\ Dropped(Clipped(r, m)) => \A a \in Addr : ~Inside(a, Clipped(r, m))
  <1>1. /\ r.start \in Addr /\ r.end \in Addr /\ m.start \in Addr /\ m.end \in Addr
        /\ \A a \in Addr : a \in Nat
    BY PageAssumption DEF Region, Addr
  <1>2. /\ r.start \in Nat /\ r.end \in Nat /\ m.start \in Nat /\ m.end \in Nat
    BY <1>1
  <1>3. /\ Clipped(r, m).start = mm_max_u64(r.start, m.start)
        /\ Clipped(r, m).end = mm_min_u64(r.end, m.end)
        /\ Clipped(r, m) \in Piece
    BY <1>1 DEF Clipped, mm_max_u64, mm_min_u64, Piece
  <1> QED
    BY <1>1, <1>2, <1>3 DEF mm_max_u64, mm_min_u64, Inside, Dropped, WellFormed

\* A round keeps the type and adds the addresses that both regions hold.
LEMMA RowStepFacts ==
    ASSUME NEW s \in Seq(Piece), WholePages(s),
           NEW r \in Region, WellFormed(r), NEW m \in Region, WellFormed(m)
    PROVE  /\ RowStep(s, r, m) \in Seq(Piece)
           /\ WholePages(RowStep(s, r, m))
           /\ Cover(RowStep(s, r, m)) = Cover(s) \cup {a \in Addr : Inside(a, r) /\ Inside(a, m)}
  <1> DEFINE c == Clipped(r, m)
  <1>1. /\ c \in Piece /\ (~Dropped(c) => WellFormed(c))
        /\ \A a \in Addr : (Inside(a, r) /\ Inside(a, m)) <=> Inside(a, c)
        /\ Dropped(c) => \A a \in Addr : ~Inside(a, c)
    BY ClippedFacts
  <1> HIDE DEF c
  <1>2. RowStep(s, r, m) = IF Dropped(c) THEN s ELSE Append(s, c)
    BY DEF RowStep, c
  <1>3. CASE Dropped(c)
    BY <1>1, <1>2, <1>3
  <1>4. CASE ~Dropped(c)
    <2> DEFINE t == Append(s, c)
    <2>1. /\ t \in Seq(Piece) /\ DOMAIN t = 1 .. Len(s) + 1 /\ t[Len(s) + 1] = c
          /\ \A q \in 1 .. Len(s) : t[q] = s[q]
          /\ Len(s) \in Nat /\ DOMAIN s = 1 .. Len(s)
      BY <1>1, SeqDomain
    <2> HIDE DEF t
    <2>2. \A q : q \in 1 .. Len(s) + 1 <=> q \in 1 .. Len(s) \/ q = Len(s) + 1
      BY <2>1
    <2>3. WholePages(t)
      BY <1>1, <1>4, <2>1, <2>2 DEF WholePages
    <2>4. Cover(t) = Cover(s) \cup {a \in Addr : Inside(a, c)}
      BY <2>1, <2>2 DEF Cover, CoverOf
    <2> QED
      BY <1>1, <1>2, <1>4, <2>1, <2>3, <2>4 DEF t
  <1> QED
    BY <1>3, <1>4

\* ClippedRow satisfies the recursion it is written as.
LEMMA RowRuns ==
    ASSUME NEW r \in Region, WellFormed(r), NEW s \in Seq(Region), WholePages(s)
    PROVE  \E f : /\ f[0] = <<>>
                  /\ \A k \in 1 .. Len(s) : f[k] = RowStep(f[k - 1], r, s[k])
                  /\ ClippedRow(r, s) = f[Len(s)]
  <1>1. PICK m \in Nat : m = Len(s)
    BY SeqDomain
  <1>2. PICK T : T = Seq(Piece)
    OBVIOUS
  <1>3. PICK base \in T : base = <<>>
    <2>1. <<>> \in T
      BY <1>2
    <2> QED
      BY <2>1, Zenon
  <1>4. PICK h \in [1 .. m -> [T -> T]] : \A k \in 1 .. m : \A x \in T : h[k][x] = RowStep(x, r, s[k])
    <2> DEFINE g == [k \in 1 .. m |-> [x \in T |-> RowStep(x, r, s[k])]]
    <2>1. ASSUME NEW k \in 1 .. m, NEW x \in T
          PROVE  RowStep(x, r, s[k]) \in T
      <3>1. Clipped(r, s[k]) \in Piece
        BY <1>1, SeqDomain, ClippedFacts DEF WholePages
      <3> QED
        BY <1>2, <3>1 DEF RowStep
    <2>2. g \in [1 .. m -> [T -> T]] /\ \A k \in 1 .. m : \A x \in T : g[k][x] = RowStep(x, r, s[k])
      BY <2>1
    <2> HIDE DEF g
    <2> QED
      BY <2>2
  <1>5. PICK f \in [0 .. m -> T] : Runs(f, base, h, m)
    BY Recursion
  <1>6. f[0] = <<>> /\ \A k \in 1 .. m : f[k] = RowStep(f[k - 1], r, s[k])
    <2>1. \A k \in 1 .. m : f[k - 1] \in T
      OBVIOUS
    <2> QED
      BY <1>3, <1>4, <1>5, <2>1 DEF Runs
  <1> DEFINE body(g, k) == CASE k = 0 -> <<>>
                             [] k > 0 /\ Dropped(Clipped(r, s[k])) -> g[k - 1]
                             [] OTHER -> Append(g[k - 1], Clipped(r, s[k]))
             step(g) == [k \in 0 .. m |-> body(g, k)]
             row == CHOOSE g : g = step(g)
  <1>7. ClippedRow(r, s) = row[m]
    BY <1>1 DEF ClippedRow, Clipped
  <1>8. ASSUME NEW g
        PROVE  body(g, 0) = <<>> /\ \A k \in 1 .. m : body(g, k) = RowStep(g[k - 1], r, s[k])
    BY DEF RowStep
  <1> HIDE DEF body
  <1>9. f = step(f)
    <2>1. \A k \in 0 .. m : f[k] = body(f, k)
      <3> TAKE k \in 0 .. m
      <3>1. k = 0 \/ k \in 1 .. m
        OBVIOUS
      <3> QED
        BY <1>6, <1>8, <3>1
    <2> QED
      BY <2>1
  <1>10. row = step(row)
    <2> HIDE DEF step
    <2> QED
      BY <1>9
  <1> HIDE DEF row
  <1>11. \A k \in 0 .. m : row[k] = body(row, k)
    BY <1>10
  <1> HIDE DEF step
  <1>12. row[0] = <<>> /\ \A k \in 1 .. m : row[k] = RowStep(row[k - 1], r, s[k])
    BY <1>8, <1>11
  <1> QED
    BY <1>1, <1>7, <1>12

\* A row is whole pages and covers the part of the region that is RAM.
LEMMA RowCovers ==
    ASSUME NEW r \in Region, WellFormed(r), NEW s \in Seq(Region), WholePages(s)
    PROVE  /\ ClippedRow(r, s) \in Seq(Piece)
           /\ WholePages(ClippedRow(r, s))
           /\ Cover(ClippedRow(r, s)) = {a \in Cover(s) : Inside(a, r)}
  <1>1. PICK f : /\ f[0] = <<>>
                 /\ \A k \in 1 .. Len(s) : f[k] = RowStep(f[k - 1], r, s[k])
                 /\ ClippedRow(r, s) = f[Len(s)]
    BY RowRuns
  <1>2. /\ Len(s) \in Nat /\ DOMAIN s = 1 .. Len(s)
        /\ \A q \in 1 .. Len(s) : s[q] \in Region /\ WellFormed(s[q])
    BY SeqDomain DEF WholePages
  <1> DEFINE Good(p) == /\ f[p] \in Seq(Piece) /\ WholePages(f[p])
                        /\ Cover(f[p]) = {a \in CoverOf(s, 1 .. p) : Inside(a, r)}
             S == {p \in Nat : p <= Len(s) => Good(p)}
  <1>3. 0 \in S
    <2>1. <<>> \in Seq(Piece) /\ DOMAIN <<>> = {}
      OBVIOUS
    <2>2. WholePages(<<>>) /\ Cover(<<>>) = {}
      BY <2>1 DEF WholePages, Cover, CoverOf
    <2> QED
      BY <1>1, <2>1, <2>2, CoverStep
  <1>4. ASSUME NEW p \in Nat, p \in S
        PROVE  p + 1 \in S
    <2> SUFFICES ASSUME p + 1 <= Len(s)
                 PROVE  Good(p + 1)
      OBVIOUS
    <2>1. p + 1 \in 1 .. Len(s) /\ (p + 1) - 1 = p /\ Good(p)
      BY <1>2, <1>4
    <2>2. /\ f[p + 1] \in Seq(Piece) /\ WholePages(f[p + 1])
          /\ Cover(f[p + 1]) = Cover(f[p]) \cup {a \in Addr : Inside(a, r) /\ Inside(a, s[p + 1])}
      <3>1. f[p + 1] = RowStep(f[p], r, s[p + 1]) /\ s[p + 1] \in Region /\ WellFormed(s[p + 1])
        BY <1>1, <1>2, <2>1
      <3>2. PICK t \in Seq(Piece) : t = f[p] /\ WholePages(t)
        BY <2>1
      <3>3. PICK m \in Region : m = s[p + 1] /\ WellFormed(m)
        BY <3>1
      <3>4. /\ RowStep(t, r, m) \in Seq(Piece)
            /\ WholePages(RowStep(t, r, m))
            /\ Cover(RowStep(t, r, m)) = Cover(t) \cup {a \in Addr : Inside(a, r) /\ Inside(a, m)}
        BY <3>2, <3>3, RowStepFacts
      <3> HIDE DEF Good
      <3> QED
        BY <3>1, <3>2, <3>3, <3>4
    <2>3. \A a : a \in Span(s[p + 1].start, s[p + 1].end) <=> a \in Addr /\ Inside(a, s[p + 1])
      BY DEF Span, Inside
    <2> QED
      BY <2>1, <2>2, <2>3, CoverStep
  <1> HIDE DEF S
  <1>5. Len(s) \in S
    BY <1>2, <1>3, <1>4, Induction
  <1> QED
    BY <1>1, <1>2, <1>5 DEF S, Cover

-----------------------------------------------------------------------------
(* The sort of the ranges and their sum.                                    *)

\* The index a pass of the sort brings to the front.
Lowest(rs, S) == CHOOSE q \in S : \A p \in S : rs[q].start <= rs[p].start

\* One iteration of the loop that joins the sorted ranges.
JoinRange(acc, r) ==
    IF r.start <= acc.end
    THEN [acc EXCEPT !.end = mm_max_u64(@, r.end)]
    ELSE [start |-> r.start, end |-> r.end, sum |-> acc.sum + mm_pages_u64(acc.start, acc.end)]

\* A set of indexes that is not empty has one with the lowest start.
LEMMA LowestFacts ==
    ASSUME NEW rs \in Seq(Piece), NEW S \in SUBSET (1 .. Len(rs)), S # {}
    PROVE  /\ Lowest(rs, S) \in S
           /\ \A p \in S : rs[Lowest(rs, S)].start <= rs[p].start
  <1>1. \A p \in S : rs[p] \in Piece /\ rs[p].start \in Nat
    <2>1. \A p \in S : rs[p] \in Piece
      BY SeqDomain
    <2> QED
      BY <2>1, PageAssumption DEF Piece, Addr
  <1> DEFINE T == {rs[p].start : p \in S}
  <1>2. T \in SUBSET Nat /\ T # {}
    BY <1>1
  <1>3. PICK x \in T : \A y \in T : x <= y
    <2> HIDE DEF T
    <2> QED
      BY <1>2, Least
  <1>4. PICK q \in S : x = rs[q].start
    OBVIOUS
  <1>5. \A p \in S : rs[q].start <= rs[p].start
    BY <1>3, <1>4
  <1> QED
    BY <1>5 DEF Lowest

\* left[k] is what k passes of the sort leave of the indexes 1 .. m.
Passes(rs, left, m) ==
    /\ left[0] = 1 .. m
    /\ \A k \in 1 .. m : left[k] = left[k - 1] \ {Lowest(rs, left[k - 1])}

\* What the passes of the sort leave, and the sequence they make.
LEMMA SortRuns ==
    ASSUME NEW rs \in Seq(Piece), NEW m \in Nat, m = Len(rs)
    PROVE  \E left \in [0 .. m -> SUBSET (1 .. m)] :
             /\ Passes(rs, left, m)
             /\ SortedRanges(rs) = [k \in 1 .. m |-> rs[Lowest(rs, left[k - 1])]]
  <1>0. DOMAIN rs = 1 .. m
    BY SeqDomain
  <1>1. PICK T : T = SUBSET (1 .. m)
    OBVIOUS
  <1>2. PICK base \in T : base = 1 .. m
    BY <1>1
  <1>3. PICK h \in [1 .. m -> [T -> T]] : \A k \in 1 .. m : \A S \in T : h[k][S] = S \ {Lowest(rs, S)}
    <2> DEFINE g == [k \in 1 .. m |-> [S \in T |-> S \ {Lowest(rs, S)}]]
    <2>1. g \in [1 .. m -> [T -> T]] /\ \A k \in 1 .. m : \A S \in T : g[k][S] = S \ {Lowest(rs, S)}
      BY <1>1
    <2> HIDE DEF g
    <2> QED
      BY <2>1
  <1>4. PICK f \in [0 .. m -> T] : Runs(f, base, h, m)
    BY Recursion
  <1>5. /\ f[0] = 1 .. m
        /\ \A k \in 1 .. m : f[k] = f[k - 1] \ {Lowest(rs, f[k - 1])}
    <2>1. \A k \in 1 .. m : f[k - 1] \in T
      OBVIOUS
    <2> QED
      BY <1>2, <1>3, <1>4, <2>1 DEF Runs
  <1> DEFINE body(g, k) == IF k = 0 THEN 1 .. m ELSE g[k - 1] \ {Lowest(rs, g[k - 1])}
             step(g) == [k \in 0 .. m |-> body(g, k)]
             left == CHOOSE g : g = step(g)
  <1>6. SortedRanges(rs) = [k \in 1 .. m |-> rs[Lowest(rs, left[k - 1])]]
    BY <1>0 DEF SortedRanges, Lowest
  <1>7. f = step(f)
    <2>1. \A k \in 0 .. m : f[k] = body(f, k)
      <3> TAKE k \in 0 .. m
      <3>1. k = 0 \/ k \in 1 .. m
        OBVIOUS
      <3> QED
        BY <1>5, <3>1
    <2> HIDE DEF body
    <2> QED
      BY <2>1
  <1>8. left = step(left)
    <2> HIDE DEF step
    <2> QED
      BY <1>7
  <1> HIDE DEF left
  <1>9. \A k \in 0 .. m : left[k] = body(left, k)
    <2> HIDE DEF body
    <2> QED
      BY <1>8
  <1>10. DOMAIN left = 0 .. m
    BY <1>8
  <1> HIDE DEF step
  <1>11. /\ left[0] = 1 .. m
         /\ \A k \in 1 .. m : left[k] = left[k - 1] \ {Lowest(rs, left[k - 1])}
    <2>1. 0 \in 0 .. m /\ \A k \in 1 .. m : k \in 0 .. m /\ k # 0
      OBVIOUS
    <2>2. body(left, 0) = 1 .. m
      OBVIOUS
    <2>3. \A k \in 1 .. m : body(left, k) = left[k - 1] \ {Lowest(rs, left[k - 1])}
      BY <2>1
    <2> HIDE DEF body
    <2> QED
      BY <1>9, <2>1, <2>2, <2>3
  <1> HIDE DEF body
  <1>12. left = [k \in 0 .. m |-> left[k]]
    BY <1>8 DEF step
  <1>13. \A k \in 0 .. m : left[k] \subseteq 1 .. m
    <2> DEFINE S == {p \in Nat : p \in 0 .. m => left[p] \subseteq 1 .. m}
    <2>1. 0 \in S
      BY <1>11
    <2>2. ASSUME NEW p \in Nat, p \in S
          PROVE  p + 1 \in S
      <3>1. p + 1 \in 0 .. m => p \in 0 .. m /\ p + 1 \in 1 .. m /\ (p + 1) - 1 = p
        OBVIOUS
      <3> QED
        BY <1>11, <2>2, <3>1
    <2> HIDE DEF S
    <2>3. \A p \in Nat : p \in S
      BY <2>1, <2>2, Induction
    <2> QED
      BY <2>3 DEF S
  <1>14. left \in [0 .. m -> SUBSET (1 .. m)]
    BY <1>12, <1>13
  <1>15. Passes(rs, left, m)
    BY <1>11 DEF Passes
  <1> QED
    BY <1>6, <1>14, <1>15

\* The values of current_start, current_end and sum.
Joined == [start : Addr, end : Addr, sum : Int]

\* Page counts are integers.
LEMMA PagesType ==
    ASSUME NEW start \in Addr, NEW end \in Addr
    PROVE  mm_pages_u64(start, end) \in Nat
  <1>1. start \in Nat /\ end \in Nat
    BY PageAssumption DEF Addr
  <1> DEFINE v == IF end > start THEN end - start ELSE 0
  <1>2. v \in Nat
    BY <1>1
  <1>3. mm_pages_u64(start, end) = v \div PageSize
    BY DEF mm_pages_u64
  <1> HIDE DEF v
  <1>4. v \div PageSize \in Nat
    BY <1>2, DivMod, PageAssumption
  <1> QED
    BY <1>3, <1>4

\* The type of one join.
LEMMA JoinType ==
    ASSUME NEW acc \in Joined, NEW r \in Piece
    PROVE  JoinRange(acc, r) \in Joined
  <1>1. mm_pages_u64(acc.start, acc.end) \in Nat
    BY PagesType DEF Joined
  <1>2. acc.sum + mm_pages_u64(acc.start, acc.end) \in Int
    BY <1>1 DEF Joined
  <1> QED
    BY <1>2 DEF JoinRange, Joined, Piece, mm_max_u64

\* UniquePages satisfies the recursion it is written as.
LEMMA ScanRuns ==
    ASSUME NEW rs \in Seq(Piece), NEW m \in Nat \ {0}, m = Len(rs),
           NEW sorted \in [1 .. m -> Piece], SortedRanges(rs) = sorted
    PROVE  \E scan \in [1 .. m -> Joined] :
             /\ scan[1] = [start |-> sorted[1].start, end |-> sorted[1].end, sum |-> 0]
             /\ \A k \in 2 .. m : scan[k] = JoinRange(scan[k - 1], sorted[k])
             /\ UniquePages(rs) = scan[m].sum + mm_pages_u64(scan[m].start, scan[m].end)
  <1> DEFINE first == [start |-> sorted[1].start, end |-> sorted[1].end, sum |-> 0]
  <1>1. first \in Joined
    <2>1. sorted[1] \in Piece
      OBVIOUS
    <2> QED
      BY <2>1 DEF Piece, Joined
  <1> HIDE DEF first
  <1>2. PICK h \in [1 .. m - 1 -> [Joined -> Joined]] :
           \A k \in 1 .. m - 1 : \A x \in Joined : h[k][x] = JoinRange(x, sorted[k + 1])
    <2> DEFINE g == [k \in 1 .. m - 1 |-> [x \in Joined |-> JoinRange(x, sorted[k + 1])]]
    <2>1. \A k \in 1 .. m - 1 : sorted[k + 1] \in Piece
      OBVIOUS
    <2>2. \A k \in 1 .. m - 1 : \A x \in Joined : JoinRange(x, sorted[k + 1]) \in Joined
      BY <2>1, JoinType
    <2>3. /\ g \in [1 .. m - 1 -> [Joined -> Joined]]
          /\ \A k \in 1 .. m - 1 : \A x \in Joined : g[k][x] = JoinRange(x, sorted[k + 1])
      BY <2>2
    <2> HIDE DEF g
    <2> QED
      BY <2>3
  <1>3. PICK f \in [0 .. m - 1 -> Joined] : Runs(f, first, h, m - 1)
    <2>1. PICK p \in Nat : p = m - 1
      OBVIOUS
    <2>2. h \in [1 .. p -> [Joined -> Joined]]
      BY <2>1
    <2>3. \E f \in [0 .. p -> Joined] : Runs(f, first, h, p)
      BY <1>1, <2>2, Recursion
    <2> QED
      BY <2>1, <2>3
  <1>4. /\ f[0] = first
        /\ \A k \in 1 .. m - 1 : f[k] = JoinRange(f[k - 1], sorted[k + 1])
    <2>1. \A k \in 1 .. m - 1 : f[k - 1] \in Joined
      <3>1. \A k \in 1 .. m - 1 : k - 1 \in 0 .. m - 1
        OBVIOUS
      <3> QED
        BY <3>1
    <2> QED
      BY <1>2, <1>3, <2>1 DEF Runs
  <1> DEFINE body(g, k) == IF k = 1 THEN first ELSE JoinRange(g[k - 1], sorted[k])
             step(g) == [k \in 1 .. m |-> body(g, k)]
             scan == CHOOSE g : g = step(g)
             e == [k \in 1 .. m |-> f[k - 1]]
  <1>5. UniquePages(rs) = scan[m].sum + mm_pages_u64(scan[m].start, scan[m].end)
    <2>1. rs # <<>> /\ DOMAIN rs = 1 .. m
      BY SeqDomain
    <2> QED
      BY <2>1 DEF UniquePages, JoinRange, first
  <1>6. e = step(e)
    <2>1. ASSUME NEW k \in 1 .. m
          PROVE  f[k - 1] = body(e, k)
      <3>1. CASE k = 1
        BY <1>4, <3>1
      <3>2. CASE k # 1
        <4>1. k - 1 \in 1 .. m - 1 /\ k - 1 \in 1 .. m /\ (k - 1) + 1 = k
          BY <3>2
        <4>2. f[k - 1] = JoinRange(f[(k - 1) - 1], sorted[k])
          BY <1>4, <4>1
        <4> QED
          BY <3>2, <4>1, <4>2
      <3> QED
        BY <3>1, <3>2
    <2> HIDE DEF body
    <2> QED
      BY <2>1
  <1> HIDE DEF e
  <1>7. scan = step(scan)
    <2> HIDE DEF step
    <2> QED
      BY <1>6
  <1> HIDE DEF scan
  <1>8. (\A k \in 1 .. m : scan[k] = body(scan, k)) /\ scan = [k \in 1 .. m |-> scan[k]]
    <2> HIDE DEF body
    <2>1. \A k \in 1 .. m : scan[k] = body(scan, k)
      BY <1>7
    <2> QED
      BY <1>7, <2>1
  <1> HIDE DEF step
  <1>9. scan[1] = first
    <2>1. 1 \in 1 .. m /\ body(scan, 1) = first
      OBVIOUS
    <2> HIDE DEF body
    <2> QED
      BY <1>8, <2>1
  <1>10. \A k \in 2 .. m : scan[k] = JoinRange(scan[k - 1], sorted[k])
    <2> TAKE k \in 2 .. m
    <2>1. k \in 1 .. m /\ k # 1
      OBVIOUS
    <2>2. body(scan, k) = JoinRange(scan[k - 1], sorted[k])
      BY <2>1
    <2> HIDE DEF body
    <2> QED
      BY <1>8, <2>1, <2>2
  <1> HIDE DEF body
  <1>11. \A k \in 1 .. m : scan[k] \in Joined
    <2> DEFINE S == {p \in Nat : p \in 1 .. m => scan[p] \in Joined}
    <2>1. 0 \in S
      OBVIOUS
    <2>2. ASSUME NEW p \in Nat, p \in S
          PROVE  p + 1 \in S
      <3> SUFFICES ASSUME p + 1 \in 1 .. m
                   PROVE  scan[p + 1] \in Joined
        OBVIOUS
      <3>1. CASE p = 0
        BY <1>1, <1>9, <3>1
      <3>2. CASE p # 0
        <4>1. p \in 1 .. m /\ p + 1 \in 2 .. m /\ (p + 1) - 1 = p
          BY <3>2
        <4>2. scan[p] \in Joined /\ sorted[p + 1] \in Piece
          BY <2>2, <4>1
        <4> QED
          BY <1>10, <4>1, <4>2, JoinType
      <3> QED
        BY <3>1, <3>2
    <2> HIDE DEF S
    <2>3. \A p \in Nat : p \in S
      BY <2>1, <2>2, Induction
    <2> QED
      BY <2>3 DEF S
  <1>12. scan \in [1 .. m -> Joined]
    BY <1>8, <1>11
  <1> QED
    BY <1>5, <1>9, <1>10, <1>12 DEF first

\* What has been joined: the addresses U counted in sum, all below the current
\* range, and that range.
Accounts(acc, U, covered) ==
    /\ WellFormed(acc)
    /\ U \in SUBSET Addr /\ \A a \in U : a < acc.start
    /\ covered = U \cup Span(acc.start, acc.end)
    /\ PageCount(U) = acc.sum

\* A range that does not start below the current one is joined to it or begins
\* the next one, and no page is counted twice.
LEMMA JoinFacts ==
    ASSUME NEW acc \in Joined, NEW r \in Piece, WellFormed(r), acc.start <= r.start,
           NEW U, NEW covered, Accounts(acc, U, covered)
    PROVE  /\ JoinRange(acc, r).start <= r.start
           /\ \E V : Accounts(JoinRange(acc, r), V, covered \cup Span(r.start, r.end))
  <1>1. /\ acc.start \in Addr /\ acc.end \in Addr /\ r.start \in Addr /\ r.end \in Addr
        /\ acc.sum \in Int
    BY DEF Joined, Piece
  <1>2. /\ acc.start \in Nat /\ acc.end \in Nat /\ r.start \in Nat /\ r.end \in Nat
        /\ \A a \in Addr : a \in Nat
    BY <1>1, PageAssumption DEF Addr
  <1>3. CASE r.start <= acc.end
    <2> DEFINE b == JoinRange(acc, r)
    <2>1. b.start = acc.start /\ b.end = mm_max_u64(acc.end, r.end) /\ b.sum = acc.sum
      BY <1>3 DEF JoinRange, Joined
    <2> HIDE DEF b
    <2>2. WellFormed(b)
      BY <1>2, <2>1 DEF WellFormed, Accounts, mm_max_u64
    <2>3. Span(b.start, b.end) = Span(acc.start, acc.end) \cup Span(r.start, r.end)
      BY <1>2, <1>3, <2>1 DEF Span, mm_max_u64
    <2>4. Accounts(b, U, covered \cup Span(r.start, r.end))
      BY <2>1, <2>2, <2>3 DEF Accounts
    <2> QED
      BY <2>1, <2>4 DEF b
  <1>4. CASE ~(r.start <= acc.end)
    <2> DEFINE b == JoinRange(acc, r)
               V == U \cup Span(acc.start, acc.end)
    <2>1. /\ b.start = r.start /\ b.end = r.end
          /\ b.sum = acc.sum + mm_pages_u64(acc.start, acc.end)
      BY <1>4 DEF JoinRange
    <2> HIDE DEF b
    <2>2. WellFormed(b)
      BY <2>1 DEF WellFormed
    <2>3. \A a \in U : a < acc.start /\ a \in Nat
      BY <1>2 DEF Accounts
    <2>4. V \in SUBSET Addr /\ \A a \in V : a < b.start
      BY <1>2, <1>4, <2>1, <2>3 DEF Accounts, Span, WellFormed
    <2>5. U \cap Span(acc.start, acc.end) = {}
      BY <1>2, <2>3 DEF Span
    <2>6. PageCount(Span(acc.start, acc.end)) = mm_pages_u64(acc.start, acc.end)
      BY <1>1, SpanCount DEF Accounts, WellFormed
    <2>7. PageCount(V) = PageCount(U) + mm_pages_u64(acc.start, acc.end)
      BY <2>5, <2>6, CountFacts
    <2>8. Accounts(b, V, covered \cup Span(r.start, r.end))
      <3>1. covered = V
        BY DEF Accounts
      <3>2. PageCount(V) = b.sum
        BY <2>1, <2>7 DEF Accounts
      <3> HIDE DEF V
      <3> QED
        BY <2>1, <2>2, <2>4, <3>1, <3>2 DEF Accounts
    <2>9. b.start <= r.start
      BY <1>2, <2>1
    <2> QED
      BY <2>8, <2>9 DEF b
  <1> QED
    BY <1>3, <1>4

\* The passes of the sort take one index each, until none is left.
LEMMA PassesEnd ==
    ASSUME NEW rs \in Seq(Piece), NEW m \in Nat, m = Len(rs),
           NEW left \in [0 .. m -> SUBSET (1 .. m)], Passes(rs, left, m)
    PROVE  \A p \in 0 .. m : left[p] = {} <=> p = m
  <1>0. left[0] = 1 .. m /\ \A k \in 1 .. m : left[k] = left[k - 1] \ {Lowest(rs, left[k - 1])}
    BY DEF Passes
  <1>1. \A p \in 0 .. m : IsFiniteSet(left[p])
    <2>1. IsFiniteSet(1 .. m)
      BY FS_Interval
    <2> QED
      BY <2>1, FS_Subset
  <1> DEFINE S == {p \in Nat : p \in 0 .. m => Cardinality(left[p]) = m - p}
  <1>2. 0 \in S
    <2>1. 1 \in Int /\ m \in Int
      OBVIOUS
    <2>2. Cardinality(1 .. m) = IF 1 > m THEN 0 ELSE m - 1 + 1
      BY <2>1, FS_Interval, Zenon
    <2> QED
      BY <1>0, <2>2
  <1>3. ASSUME NEW p \in Nat, p \in S
        PROVE  p + 1 \in S
    <2> SUFFICES ASSUME p + 1 \in 0 .. m
                 PROVE  Cardinality(left[p + 1]) = m - (p + 1)
      OBVIOUS
    <2>1. p \in 0 .. m /\ p + 1 \in 1 .. m /\ (p + 1) - 1 = p
      OBVIOUS
    <2>2. Cardinality(left[p]) = m - p /\ IsFiniteSet(left[p]) /\ left[p] \in SUBSET (1 .. m)
      BY <1>1, <1>3, <2>1
    <2>3. left[p] # {}
      <3>1. m - p # 0
        BY <2>1
      <3> QED
        BY <2>2, <3>1, FS_EmptySet
    <2>4. Lowest(rs, left[p]) \in left[p]
      BY <2>2, <2>3, LowestFacts
    <2>5. left[p + 1] = left[p] \ {Lowest(rs, left[p])}
      BY <1>0, <2>1
    <2>6. Cardinality(left[p + 1]) = Cardinality(left[p]) - 1
      BY <2>2, <2>4, <2>5, FS_RemoveElement
    <2> QED
      BY <2>1, <2>2, <2>6
  <1> HIDE DEF S
  <1>4. \A p \in Nat : p \in S
    BY <1>2, <1>3, Induction
  <1>5. \A p \in 0 .. m : Cardinality(left[p]) = m - p
    BY <1>4 DEF S
  <1> QED
    BY <1>1, <1>5, FS_EmptySet

\* UniquePages counts every page of the ranges once, in whatever order they were
\* collected and however they overlap.
LEMMA UniqueCounts ==
    ASSUME NEW rs \in Seq(Piece), WholePages(rs)
    PROVE  UniquePages(rs) = PageCount(Cover(rs))
  <1>1. PICK m \in Nat : m = Len(rs)
    BY SeqDomain
  <1>2. /\ DOMAIN rs = 1 .. m
        /\ \A q \in 1 .. m : rs[q] \in Piece /\ WellFormed(rs[q])
    BY <1>1, SeqDomain DEF WholePages
  <1>3. CASE m = 0
    <2>1. rs = <<>> /\ Cover(rs) = {}
      BY <1>1, <1>2, <1>3 DEF Cover, CoverOf
    <2> QED
      BY <2>1, CountFacts DEF UniquePages
  <1>4. CASE m # 0
    <2>0. PICK left \in [0 .. m -> SUBSET (1 .. m)] :
             /\ Passes(rs, left, m)
             /\ SortedRanges(rs) = [k \in 1 .. m |-> rs[Lowest(rs, left[k - 1])]]
      BY <1>1, SortRuns
    <2>1. left[0] = 1 .. m /\ \A k \in 1 .. m : left[k] = left[k - 1] \ {Lowest(rs, left[k - 1])}
      BY <2>0 DEF Passes
    <2>2. \A p \in 0 .. m : left[p] = {} <=> p = m
      BY <1>1, <2>0, PassesEnd, SMTT(30)
    <2>3. ASSUME NEW k \in 1 .. m
          PROVE  /\ Lowest(rs, left[k - 1]) \in left[k - 1] /\ left[k - 1] \subseteq 1 .. m
                 /\ \A p \in left[k - 1] : rs[Lowest(rs, left[k - 1])].start <= rs[p].start
      <3>1. k - 1 \in 0 .. m /\ k - 1 # m
        OBVIOUS
      <3>2. left[k - 1] # {} /\ left[k - 1] \in SUBSET (1 .. m)
        BY <2>2, <3>1
      <3> QED
        BY <1>1, <3>2, LowestFacts
    <2>4. PICK sorted \in [1 .. m -> Piece] :
             /\ SortedRanges(rs) = sorted
             /\ \A k \in 1 .. m : sorted[k] = rs[Lowest(rs, left[k - 1])]
      <3> DEFINE g == [k \in 1 .. m |-> rs[Lowest(rs, left[k - 1])]]
      <3>1. /\ g \in [1 .. m -> Piece]
            /\ \A k \in 1 .. m : g[k] = rs[Lowest(rs, left[k - 1])]
        BY <1>2, <2>3
      <3> HIDE DEF g
      <3> QED
        BY <2>0, <3>1 DEF g
    <2>5. PICK scan \in [1 .. m -> Joined] :
             /\ scan[1] = [start |-> sorted[1].start, end |-> sorted[1].end, sum |-> 0]
             /\ \A k \in 2 .. m : scan[k] = JoinRange(scan[k - 1], sorted[k])
             /\ UniquePages(rs) = scan[m].sum + mm_pages_u64(scan[m].start, scan[m].end)
      BY <1>1, <1>4, <2>4, ScanRuns
    <2> DEFINE Done(p) == CoverOf(rs, (1 .. m) \ left[p])
               Good(p) == /\ \A q \in left[p] : scan[p].start <= rs[q].start
                          /\ \E U : Accounts(scan[p], U, Done(p))
               S == {p \in Nat : p \in 1 .. m => Good(p)}
    <2>6. ASSUME NEW k \in 1 .. m
          PROVE  /\ sorted[k] \in Piece /\ WellFormed(sorted[k])
                 /\ \A q \in left[k - 1] : sorted[k].start <= rs[q].start
                 /\ left[k] \subseteq left[k - 1]
                 /\ Done(k) = Done(k - 1) \cup Span(sorted[k].start, sorted[k].end)
      <3> DEFINE x == Lowest(rs, left[k - 1])
      <3>1. /\ x \in left[k - 1] /\ x \in 1 .. m /\ sorted[k] = rs[x]
            /\ left[k] = left[k - 1] \ {x}
            /\ \A q \in left[k - 1] : rs[x].start <= rs[q].start
        BY <2>1, <2>3, <2>4
      <3> HIDE DEF x
      <3>2. (1 .. m) \ left[k] = ((1 .. m) \ left[k - 1]) \cup {x}
        BY <3>1
      <3>3. Done(k) = Done(k - 1) \cup Span(sorted[k].start, sorted[k].end)
        BY <3>1, <3>2 DEF CoverOf, Span, Inside
      <3> QED
        BY <1>2, <3>1, <3>3
    <2>7. Good(1)
      <3>1. 1 \in 1 .. m /\ 1 - 1 = 0
        BY <1>4
      <3>2. Done(0) = {}
        BY <2>1 DEF CoverOf
      <3> HIDE DEF Done
      <3>3. /\ sorted[1] \in Piece /\ WellFormed(sorted[1])
            /\ \A q \in left[0] : sorted[1].start <= rs[q].start
            /\ left[1] \subseteq left[0]
            /\ Done(1) = Done(0) \cup Span(sorted[1].start, sorted[1].end)
        BY <2>6, <3>1
      <3>4. scan[1].start = sorted[1].start /\ scan[1].end = sorted[1].end /\ scan[1].sum = 0
        BY <2>5
      <3>5. Accounts(scan[1], {}, Done(1))
        BY <3>2, <3>3, <3>4, CountFacts DEF Accounts, WellFormed
      <3> QED
        BY <3>3, <3>4, <3>5
    <2>8. ASSUME NEW p \in 1 .. m, Good(p), p + 1 \in 1 .. m
          PROVE  Good(p + 1)
      <3>1. (p + 1) - 1 = p /\ p + 1 \in 2 .. m
        BY <2>8
      <3> HIDE DEF Done
      <3>2. PICK U : Accounts(scan[p], U, Done(p))
        BY <2>8
      <3>3. /\ sorted[p + 1] \in Piece /\ WellFormed(sorted[p + 1])
            /\ \A q \in left[p] : sorted[p + 1].start <= rs[q].start
            /\ left[p + 1] \subseteq left[p]
            /\ Done(p + 1) = Done(p) \cup Span(sorted[p + 1].start, sorted[p + 1].end)
        BY <2>6, <2>8, <3>1
      <3>4. scan[p].start <= sorted[p + 1].start
        <4>1. Lowest(rs, left[p]) \in left[p] /\ sorted[p + 1] = rs[Lowest(rs, left[p])]
          BY <2>3, <2>4, <2>8, <3>1
        <4> QED
          BY <2>8, <4>1
      <3>5. scan[p] \in Joined /\ scan[p + 1] = JoinRange(scan[p], sorted[p + 1])
        BY <2>5, <3>1
      <3>6. /\ scan[p + 1].start <= sorted[p + 1].start
            /\ \E V : Accounts(scan[p + 1], V, Done(p + 1))
        BY <3>2, <3>3, <3>4, <3>5, JoinFacts
      <3>7. \A q \in left[p + 1] : scan[p + 1].start <= rs[q].start
        <4> TAKE q \in left[p + 1]
        <4>1. scan[p + 1] \in Joined /\ q \in 1 .. m /\ rs[q] \in Piece
          BY <1>2, <2>8
        <4>2. /\ scan[p + 1].start \in Nat /\ sorted[p + 1].start \in Nat /\ rs[q].start \in Nat
          <5>1. scan[p + 1].start \in Addr /\ sorted[p + 1].start \in Addr /\ rs[q].start \in Addr
            BY <3>3, <4>1 DEF Joined, Piece
          <5> QED
            BY <5>1, PageAssumption DEF Addr
        <4>3. sorted[p + 1].start <= rs[q].start
          BY <3>3
        <4> QED
          BY <3>6, <4>2, <4>3
      <3> QED
        BY <3>6, <3>7
    <2> HIDE DEF Good
    <2>9. 0 \in S
      OBVIOUS
    <2>10. ASSUME NEW p \in Nat, p \in S
           PROVE  p + 1 \in S
      <3>1. CASE p = 0
        BY <2>7, <3>1
      <3>2. CASE p # 0 /\ p + 1 \in 1 .. m
        BY <2>8, <2>10, <3>2
      <3> QED
        BY <3>1, <3>2
    <2> HIDE DEF S
    <2>11. Good(m)
      <3>1. m \in S
        BY <2>9, <2>10, Induction
      <3> QED
        BY <1>4, <3>1 DEF S
    <2>12. Done(m) = Cover(rs)
      BY <1>2, <2>2 DEF Cover
    <2>13. PICK U : Accounts(scan[m], U, Cover(rs))
      BY <2>11, <2>12 DEF Good
    <2>14. scan[m] \in Joined
      BY <1>4
    <2>15. PageCount(Cover(rs)) = scan[m].sum + mm_pages_u64(scan[m].start, scan[m].end)
      <3>1. U \cap Span(scan[m].start, scan[m].end) = {}
        <4>1. \A a \in U : a < scan[m].start /\ a \in Nat
          BY <2>13, PageAssumption DEF Accounts, Addr
        <4>2. scan[m].start \in Nat
          BY <2>14, PageAssumption DEF Joined, Addr
        <4> QED
          BY <4>1, <4>2 DEF Span
      <3>2. PageCount(Span(scan[m].start, scan[m].end)) = mm_pages_u64(scan[m].start, scan[m].end)
        BY <2>13, <2>14, SpanCount DEF Accounts, WellFormed, Joined
      <3> QED
        BY <2>13, <3>1, <3>2, CountFacts DEF Accounts
    <2> QED
      BY <2>5, <2>15
  <1> QED
    BY <1>3, <1>4

-----------------------------------------------------------------------------
(* The totals check.                                                        *)

\* The ranges collected so far cover the RAM that the reserved regions before n
\* cover, and the published counts are those of the lists.
RangesInv ==
    /\ phase \notin {"clip", "done", "crashed"} => ranges = <<>>
    /\ phase = "clip" =>
         /\ n <= Len(reserved) + 1
         /\ ranges \in Seq(Piece) /\ WholePages(ranges)
         /\ Cover(ranges) = Cover(ram) \cap CoverOf(reserved, 1 .. n - 1)
    /\ phase = "done" =>
         /\ mm_state.ram_pages = PageCount(Cover(ram))
         /\ mm_state.free_pages = PageCount(Cover(free))
    /\ TotalsAgree

\* Putting two lists behind each other puts their addresses together.
LEMMA ConcatCovers ==
    ASSUME NEW T, NEW s \in Seq(T), NEW t \in Seq(T), WholePages(s), WholePages(t)
    PROVE  s \o t \in Seq(T) /\ WholePages(s \o t) /\ Cover(s \o t) = Cover(s) \cup Cover(t)
  <1> DEFINE u == s \o t
  <1>1. /\ u \in Seq(T) /\ Len(u) = Len(s) + Len(t) /\ Len(s) \in Nat /\ Len(t) \in Nat
        /\ \A q \in 1 .. Len(s) : u[q] = s[q]
        /\ \A q \in 1 .. Len(t) : u[Len(s) + q] = t[q]
        /\ DOMAIN u = 1 .. Len(u) /\ DOMAIN s = 1 .. Len(s) /\ DOMAIN t = 1 .. Len(t)
    BY ConcatFacts, SeqDomain
  <1> HIDE DEF u
  <1>2. \A q \in DOMAIN s : q \in DOMAIN u /\ u[q] = s[q]
    BY <1>1
  <1>3. \A q \in DOMAIN t : Len(s) + q \in DOMAIN u /\ u[Len(s) + q] = t[q]
    BY <1>1
  <1>4. \A q \in DOMAIN u : q \in DOMAIN s \/ \E p \in DOMAIN t : q = Len(s) + p
    <2> TAKE q \in DOMAIN u
    <2>1. q \in 1 .. Len(s) \/ (q - Len(s) \in 1 .. Len(t) /\ q = Len(s) + (q - Len(s)))
      BY <1>1
    <2> QED
      BY <1>1, <2>1
  <1>5. WholePages(u)
    BY <1>2, <1>3, <1>4 DEF WholePages
  <1>6. Cover(u) = Cover(s) \cup Cover(t)
    <2>1. \A a \in Cover(u) : a \in Cover(s) \/ a \in Cover(t)
      BY <1>2, <1>3, <1>4 DEF Cover, CoverOf
    <2>2. \A a \in Cover(s) : a \in Cover(u)
      BY <1>2 DEF Cover, CoverOf
    <2>3. \A a \in Cover(t) : a \in Cover(u)
      BY <1>3 DEF Cover, CoverOf
    <2> QED
      BY <2>1, <2>2, <2>3
  <1> QED
    BY <1>1, <1>5, <1>6 DEF u

\* One reserved region more is clipped to RAM.
LEMMA ClipRanges ==
    ASSUME Inv, RangesInv, Clip
    PROVE  RangesInv'
  <1>1. /\ phase = "clip" /\ phase' = "clip" /\ n' = n + 1 /\ UNCHANGED <<ram, reserved, free, mm_state>>
        /\ n <= Len(reserved) /\ ranges' = ranges \o ClippedRow(reserved[n], ram)
    BY DEF Clip
  <1>2. /\ n \in Nat \ {0} /\ ram \in Seq(Region) /\ reserved \in Seq(Region)
        /\ WholePages(ram) /\ WholePages(reserved)
        /\ Len(reserved) \in Nat /\ DOMAIN reserved = 1 .. Len(reserved)
    BY SeqDomain DEF Inv, TypeOK
  <1>3. n \in 1 .. Len(reserved) /\ reserved[n] \in Region /\ WellFormed(reserved[n])
    <2>1. n \in 1 .. Len(reserved)
      BY <1>1, <1>2
    <2> QED
      BY <1>2, <2>1, SeqDomain DEF WholePages
  <1> DEFINE row == ClippedRow(reserved[n], ram)
  <1>4. /\ row \in Seq(Piece) /\ WholePages(row)
        /\ Cover(row) = {a \in Cover(ram) : Inside(a, reserved[n])}
    BY <1>2, <1>3, RowCovers
  <1> HIDE DEF row
  <1>5. /\ ranges \in Seq(Piece) /\ WholePages(ranges)
        /\ Cover(ranges) = Cover(ram) \cap CoverOf(reserved, 1 .. n - 1)
    BY <1>1 DEF RangesInv
  <1>6. /\ ranges' \in Seq(Piece) /\ WholePages(ranges')
        /\ Cover(ranges') = Cover(ranges) \cup Cover(row)
    BY <1>1, <1>4, <1>5, ConcatCovers DEF row
  <1>7. CoverOf(reserved, 1 .. n) = CoverOf(reserved, 1 .. n - 1) \cup {a \in Addr : Inside(a, reserved[n])}
    <2>1. \A q : q \in 1 .. n <=> q \in 1 .. n - 1 \/ q = n
      BY <1>2
    <2> QED
      BY <2>1 DEF CoverOf
  <1>8. Cover(ram) \subseteq Addr
    BY DEF Cover, CoverOf
  <1>9. Cover(ranges') = Cover(ram) \cap CoverOf(reserved, 1 .. n)
    BY <1>4, <1>5, <1>6, <1>7, <1>8
  <1>10. n' <= Len(reserved) + 1 /\ n' - 1 = n
    BY <1>1, <1>2
  <1>11. Cover(ranges)' = Cover(ranges') /\ WholePages(ranges)' = WholePages(ranges')
    BY DEF Cover, CoverOf, WholePages
  <1> QED
    BY <1>1, <1>6, <1>9, <1>10, <1>11 DEF RangesInv, TotalsAgree, Cover

\* When every reserved region was clipped into the arrays, the check passes.
LEMMA PublishRanges ==
    ASSUME Inv, RangesInv, Publish
    PROVE  RangesInv'
  <1>1. /\ phase = "clip" /\ phase' = "done" /\ UNCHANGED <<n, ram, reserved, free, ranges>>
        /\ ClipEnds
    BY DEF Publish
  <1>2. /\ ram \in Seq(Region) /\ reserved \in Seq(Region) /\ free \in Seq(Region)
        /\ WholePages(ram) /\ WholePages(free) /\ Separated(ram) /\ Separated(free)
        /\ Cover(free) = Cover(ram) \ Cover(reserved)
        /\ n \in Nat /\ Len(reserved) \in Nat /\ DOMAIN reserved = 1 .. Len(reserved)
    BY <1>1, SeqDomain DEF Inv, TypeOK, NoFrameTwice, FreeExact
  <1>3. mm_sum_pages(ram) = PageCount(Cover(ram)) /\ mm_sum_pages(free) = PageCount(Cover(free))
    BY <1>2, SumCounts
  <1>4. mm_state'.ram_pages = PageCount(Cover(ram)) /\ mm_state'.free_pages = PageCount(Cover(free))
    BY <1>3 DEF Publish
  <1>5. ASSUME AllClipped
        PROVE  mm_state'.totals_ok
    <2>1. n > Len(reserved) /\ Len(ranges) <= MaxRanges
      BY <1>5 DEF AllClipped
    <2>2. /\ n <= Len(reserved) + 1 /\ ranges \in Seq(Piece) /\ WholePages(ranges)
          /\ Cover(ranges) = Cover(ram) \cap CoverOf(reserved, 1 .. n - 1)
      BY <1>1 DEF RangesInv
    <2>3. ~Overrun
      BY <2>1, <2>2, CapAssumption, SeqDomain DEF Overrun
    <2>4. mm_state'.totals_ok = (mm_sum_pages(ram) = UniquePages(ranges) + mm_sum_pages(free))
      BY <2>3 DEF Publish
    <2>5. n - 1 = Len(reserved)
      BY <1>2, <2>1, <2>2
    <2>6. Cover(ranges) = Cover(ram) \cap Cover(reserved)
      BY <1>2, <2>2, <2>5 DEF Cover
    <2>7. UniquePages(ranges) = PageCount(Cover(ranges))
      BY <2>2, UniqueCounts
    <2>8. /\ Cover(ranges) \cap Cover(free) = {}
          /\ Cover(ram) = Cover(ranges) \cup Cover(free)
      BY <1>2, <2>6
    <2>9. PageCount(Cover(ram)) = PageCount(Cover(ranges)) + PageCount(Cover(free))
      BY <2>8, CountFacts
    <2> QED
      BY <1>3, <2>4, <2>7, <2>9
  <1>6. AllClipped' = AllClipped
    BY <1>1 DEF AllClipped
  <1> QED
    BY <1>1, <1>4, <1>5, <1>6 DEF RangesInv, TotalsAgree, Cover

\* Every step keeps RangesInv.
LEMMA NextRanges ==
    ASSUME Inv, RangesInv, [Next]_vars
    PROVE  RangesInv'
  <1>1. CASE KeepFree
    <2>1. phase = "sweep" /\ phase' = "clip" /\ n' = 1 /\ ranges' = ranges /\ reserved' = reserved
      BY <1>1 DEF KeepFree, NextList
    <2>2. ranges = <<>>
      BY <2>1 DEF RangesInv
    <2>3. <<>> \in Seq(Piece) /\ WholePages(<<>>) /\ Cover(<<>>) = {} /\ 1 .. n' - 1 = {}
      BY <2>1 DEF WholePages, Cover, CoverOf
    <2>4. CoverOf(reserved, 1 .. n - 1)' = {}
      BY <2>3 DEF CoverOf
    <2>5. reserved \in Seq(Region) /\ Len(reserved) \in Nat
      BY SeqDomain DEF Inv, TypeOK
    <2>6. Cover(ranges)' = {} /\ WholePages(ranges)'
      BY <2>1, <2>2, <2>3 DEF WholePages, Cover, CoverOf
    <2> QED
      BY <2>1, <2>2, <2>3, <2>4, <2>5, <2>6 DEF RangesInv, TotalsAgree
  <1>2. CASE AddRam \/ KeepRam \/ ReserveOwn \/ ReadReserved \/ ReserveDtb \/ ReserveMmio
             \/ KeepReserved \/ Sweep \/ SweepTail \/ CallMerge \/ RunMerge
    <2>1. /\ phase \notin {"clip", "done", "crashed"} /\ phase' \notin {"clip", "done", "crashed"}
          /\ ranges' = ranges
      BY <1>2 DEF AddRam, KeepRam, ReserveOwn, ReadReserved, ReserveDtb, ReserveMmio, KeepReserved,
         Sweep, SweepTail, CallMerge, RunMerge, AddRegion, NextList, mapVars, Inv, PhaseInv,
         MergeStep, SortStep, SortReturn, Absorb, Advance, MergeReturn
    <2> QED
      BY <2>1 DEF RangesInv, TotalsAgree
  <1>3. CASE Crash
    BY <1>3 DEF Crash, RangesInv, TotalsAgree
  <1>4. CASE UNCHANGED vars
    BY <1>4 DEF vars, RangesInv, TotalsAgree, AllClipped, WholePages, Cover, CoverOf
  <1> QED
    BY <1>1, <1>2, <1>3, <1>4, ClipRanges, PublishRanges DEF Next, Returned

\* The totals check of mm_stage2_build passes whenever all ranges fitted the scratch
\* arrays: however reserved regions overlap, leave RAM or touch, their pages inside
\* RAM and the free pages make up the RAM pages.
THEOREM TotalsDoAgree == Spec => []TotalsAgree
  <1>1. Init => RangesInv
    BY DEF Init, InitOn, RangesInv, TotalsAgree
  <1>2. RangesInv => TotalsAgree
    BY DEF RangesInv
  <1> QED
    BY InvHolds, NextRanges, <1>1, <1>2, PTL DEF Spec
=============================================================================
