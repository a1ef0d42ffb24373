---------------------------- MODULE BoardProofs ----------------------------
(***************************************************************************)
(* The memory map of a board says what its device tree says: reservations, *)
(* devices and memory get from the reg properties of the tree through the  *)
(* lists of libs/dtb and of mm_stage2_build into the published map.        *)
(***************************************************************************)
EXTENDS BoardMap, MemoryMapProofs

-----------------------------------------------------------------------------
(* The reg properties of a tree.                                            *)

\* What the nodes of a tree may say of a register block or bank.
EntriesOf(t) == {EntryAt(t, k, q) : k \in DOMAIN t, q \in Nat}

\* Every entry of the node k is in the list.
StoredLists(t, k, list) == \A e \in ExtentsOf(t, {k}) : \E q \in DOMAIN list : list[q] = e

\* The number of entries of a node that can be decoded.
LEMMA EntryCount ==
    ASSUME NEW t, IsTree(t), NEW k \in DOMAIN t, RegError(t, k) = "ok", HasProp(t, k, "reg")
    PROVE  RegEntries(t, k) \in Nat
  <1>1. Naddr(t, k) \in 1 .. 2 /\ Nsize(t, k) \in 0 .. 2
    BY DEF RegError
  <1>2. PICK d \in Nat \ {0} : d = Naddr(t, k) + Nsize(t, k)
    BY <1>1
  <1>3. PICK c \in Nat : c = Len(Prop(t, k, "reg"))
    BY SeqDomain DEF IsTree
  <1>4. c \div d \in Nat
    BY <1>2, <1>3, DivMod
  <1> QED
    BY <1>2, <1>3, <1>4 DEF RegEntries

\* decode_reg_list stores entries of the node, and all of them unless it says that
\* they do not fit.
LEMMA RegListFacts ==
    ASSUME NEW t, IsTree(t), NEW k \in DOMAIN t, NEW cap \in Nat
    PROVE  /\ decode_reg_list(t, k, cap).list \in Seq(EntriesOf(t))
           /\ \A q \in DOMAIN decode_reg_list(t, k, cap).list :
                decode_reg_list(t, k, cap).list[q] \in ExtentsOf(t, {k})
           /\ decode_reg_list(t, k, cap).err = "ok" => StoredLists(t, k, decode_reg_list(t, k, cap).list)
  <1>1. CASE RegError(t, k) # "ok" \/ ~HasProp(t, k, "reg")
    <2>1. decode_reg_list(t, k, cap).list = <<>>
      BY <1>1 DEF decode_reg_list
    <2>2. ExtentsOf(t, {k}) = {}
      BY <1>1 DEF ExtentsOf
    <2>3. <<>> \in Seq(EntriesOf(t)) /\ DOMAIN <<>> = {}
      OBVIOUS
    <2>4. StoredLists(t, k, <<>>)
      BY <2>2 DEF StoredLists
    <2> QED
      BY <2>1, <2>3, <2>4, Zenon
  <1>2. CASE RegError(t, k) = "ok" /\ HasProp(t, k, "reg")
    <2>1. PICK c \in Nat : c = RegEntries(t, k)
      BY <1>2, EntryCount
    <2>2. PICK m \in Nat : m = min_int(c, cap)
      BY DEF min_int
    <2>3. PICK list : list = [q \in 1 .. m |-> EntryAt(t, k, q - 1)]
      OBVIOUS
    <2>4. /\ decode_reg_list(t, k, cap).list = list
          /\ decode_reg_list(t, k, cap).err = IF c > cap THEN "nospace" ELSE "ok"
      BY <1>2, <2>1, <2>2, <2>3 DEF decode_reg_list
    <2>5. ExtentsOf(t, {k}) = {EntryAt(t, k, q) : q \in 0 .. c - 1}
      BY <1>2, <2>1 DEF ExtentsOf
    <2>6. \A q \in 1 .. m : q - 1 \in 0 .. c - 1 /\ q - 1 \in Nat
      BY <2>2 DEF min_int
    <2>7. list \in [1 .. m -> EntriesOf(t)]
      BY <2>3, <2>6 DEF EntriesOf
    <2>8. list \in Seq(EntriesOf(t)) /\ DOMAIN list = 1 .. m
      BY <2>7, FunctionIsSeq
    <2>9. \A q \in DOMAIN list : list[q] \in ExtentsOf(t, {k})
      BY <2>3, <2>5, <2>6, <2>8
    <2>10. ASSUME ~(c > cap)
           PROVE  StoredLists(t, k, list)
      <3> SUFFICES ASSUME NEW q \in 0 .. c - 1
                   PROVE  \E p \in DOMAIN list : list[p] = EntryAt(t, k, q)
        BY <2>5 DEF StoredLists
      <3>1. q + 1 \in 1 .. m /\ (q + 1) - 1 = q
        BY <2>2, <2>10 DEF min_int
      <3> QED
        BY <2>3, <2>8, <3>1
    <2> QED
      BY <2>4, <2>8, <2>9, <2>10
  <1> QED
    BY <1>1, <1>2

\* The list of all nodes of S has entries of nodes of S only, and those of every node
\* whose entries fit.
LEMMA RegsOfAllFacts ==
    ASSUME NEW t, IsTree(t), NEW S
    PROVE  /\ RegsOfAll(t, S) \in Seq(EntriesOf(t))
           /\ \A q \in DOMAIN RegsOfAll(t, S) : \E k \in DOMAIN t \cap S :
                RegsOfAll(t, S)[q] \in ExtentsOf(t, {k})
           /\ \A k \in DOMAIN t \cap S :
                decode_reg_list(t, k, DTB_MAX_REGS).err = "ok" => StoredLists(t, k, RegsOfAll(t, S))
  <1>1. PICK m \in Nat : m = Len(t) /\ DOMAIN t = 1 .. m
    BY DEF IsTree
  <1>2. PICK ss : ss = [k \in 1 .. m |->
                          IF k \in S THEN decode_reg_list(t, k, DTB_MAX_REGS).list ELSE <<>>]
    OBVIOUS
  <1>3. DTB_MAX_REGS \in Nat
    BY DtbAssumption
  <1>4. ss \in [1 .. m -> Seq(EntriesOf(t))]
    BY <1>1, <1>2, <1>3, RegListFacts, EmptySeq
  <1>5. Len(ss) = m
    BY <1>4, FunctionIsSeq
  <1>6. RegsOfAll(t, S) = FlattenSeq(ss)
    BY <1>1, <1>2 DEF RegsOfAll
  <1> DEFINE F == FlattenSeq(ss)
  <1>7. F \in Seq(EntriesOf(t)) /\ Collects(F, ss, m)
    BY <1>4, <1>5, FlattenMembers
  <1> HIDE DEF F
  <1>8. ASSUME NEW q \in DOMAIN F
        PROVE  \E k \in DOMAIN t \cap S : F[q] \in ExtentsOf(t, {k})
    <2>1. PICK k \in 1 .. m : \E p \in DOMAIN ss[k] : F[q] = ss[k][p]
      BY <1>7 DEF Collects
    <2>2. CASE k \in S
      <3>1. ss[k] = decode_reg_list(t, k, DTB_MAX_REGS).list
        BY <1>2, <2>2
      <3> QED
        BY <1>1, <1>3, <2>1, <2>2, <3>1, RegListFacts
    <2>3. CASE k \notin S
      BY <1>2, <2>1, <2>3
    <2> QED
      BY <2>2, <2>3
  <1>9. ASSUME NEW k \in DOMAIN t \cap S, decode_reg_list(t, k, DTB_MAX_REGS).err = "ok"
        PROVE  StoredLists(t, k, F)
    <2> SUFFICES ASSUME NEW e \in ExtentsOf(t, {k})
                 PROVE  \E q \in DOMAIN F : F[q] = e
      BY DEF StoredLists
    <2>1. k \in 1 .. m /\ ss[k] = decode_reg_list(t, k, DTB_MAX_REGS).list
      BY <1>1, <1>2
    <2>2. PICK p \in DOMAIN ss[k] : ss[k][p] = e
      BY <1>3, <1>9, <2>1, RegListFacts DEF StoredLists
    <2>3. \E q \in DOMAIN F : F[q] = ss[k][p]
      BY <1>7, <2>1 DEF Collects
    <2> QED
      BY <2>2, <2>3
  <1> QED
    BY <1>6, <1>7, <1>8, <1>9 DEF F

\* What one node says is said by every set of nodes it is in.
LEMMA ExtentsGrow ==
    ASSUME NEW t, NEW S, NEW k \in S
    PROVE  ExtentsOf(t, {k}) \subseteq ExtentsOf(t, S)
  BY DEF ExtentsOf

\* Every entry said by a set of nodes is said by one of them.
LEMMA ExtentsSplit ==
    ASSUME NEW t, NEW S, NEW e \in ExtentsOf(t, S)
    PROVE  \E k \in S : RegError(t, k) = "ok" /\ HasProp(t, k, "reg") /\ e \in ExtentsOf(t, {k})
  <1>1. PICK k \in {m \in S : RegError(t, m) = "ok" /\ HasProp(t, m, "reg")} :
          e \in {EntryAt(t, k, q) : q \in 0 .. RegEntries(t, k) - 1}
    BY DEF ExtentsOf
  <1>2. e \in ExtentsOf(t, {k})
    BY <1>1 DEF ExtentsOf
  <1> QED
    BY <1>1, <1>2

\* What is collected was said, and everything the node lists hold is collected when
\* the call succeeds.
LEMMA CollectedFacts ==
    ASSUME NEW t, IsTree(t), NEW S, NEW tolerated, NEW cap \in Nat
    PROVE  /\ \A q \in DOMAIN Collected(t, S, tolerated, cap).list :
                Collected(t, S, tolerated, cap).list[q] \in ExtentsOf(t, S)
           /\ Collected(t, S, tolerated, cap).err = "ok" /\ "ok" \in tolerated
              /\ (\A k \in S : decode_reg_list(t, k, DTB_MAX_REGS).err = "ok") =>
                Collected(t, S, tolerated, cap).list = RegsOfAll(t, S)
  <1>1. PICK all \in Seq(EntriesOf(t)) : all = RegsOfAll(t, S)
    BY RegsOfAllFacts
  <1>2. \A q \in DOMAIN all : all[q] \in ExtentsOf(t, S)
    BY <1>1, RegsOfAllFacts, ExtentsGrow
  <1>3. PICK c \in Nat : c = Len(all) /\ DOMAIN all = 1 .. c
    BY SeqDomain
  <1>4. PICK m \in Nat : m = min_int(c, cap)
    BY DEF min_int
  <1>5. m <= c /\ (~(c > cap) => m = c)
    BY <1>4 DEF min_int
  <1>6. PICK list : list = SubSeq(all, 1, m)
    OBVIOUS
  <1>7. list = [q \in 1 .. m |-> all[q]]
    BY <1>3, <1>5, <1>6
  <1>8. \A q \in DOMAIN list : list[q] \in ExtentsOf(t, S)
    BY <1>2, <1>3, <1>5, <1>7
  <1>9. m = c => list = all
    BY <1>3, <1>7
  <1> DEFINE fatal == {k \in S : decode_reg_list(t, k, DTB_MAX_REGS).err \notin tolerated}
  <1>10. CASE fatal = {}
    <2>1. Collected(t, S, tolerated, cap) =
            [err |-> IF c > cap THEN "nospace" ELSE "ok", list |-> list]
      BY <1>1, <1>3, <1>4, <1>6, <1>10 DEF Collected
    <2> QED
      BY <1>1, <1>5, <1>8, <1>9, <2>1
  <1>11. CASE fatal # {}
    <2>1. Collected(t, S, tolerated, cap).list = <<>>
      BY <1>11 DEF Collected
    <2>2. "ok" \in tolerated => ~(\A k \in S : decode_reg_list(t, k, DTB_MAX_REGS).err = "ok")
      BY <1>11
    <2>3. DOMAIN <<>> = {}
      OBVIOUS
    <2> QED
      BY <2>1, <2>2, <2>3
  <1> QED
    BY <1>10, <1>11

-----------------------------------------------------------------------------
(* The board and its lists.                                                 *)

\* The lists are those of the board's tree.
BoardState == board \in Boards /\ platform = PlatformOf(board)

\* The tree is one, and the lists have their types.
LEMMA BoardFacts ==
    ASSUME BoardState
    PROVE  /\ IsTree(board.tree) /\ Accepted(board)
           /\ platform \in Platform
           /\ platform.memory = dtb_memory_regions(board.tree, DTB_MAX_MEM_REGIONS).list
           /\ platform.mmio = MmioBlocks(board.tree)
           /\ platform.reserved = dtb_reserved_memory_regions(board.tree, DTB_MAX_MEM_REGIONS).list
  <1>1. platform \in Platforms
    BY BoardAssumption DEF BoardState
  <1> QED
    BY <1>1, BoardAssumption, PlatformAssumption DEF BoardState, PlatformOf

\* A bank is what some memory node says.
LEMMA BanksSaid ==
    ASSUME BoardState
    PROVE  \A q \in DOMAIN platform.memory :
             platform.memory[q] \in ExtentsOf(board.tree, MemoryNodes(board.tree))
  BY BoardFacts, CollectedFacts, DtbAssumption DEF dtb_memory_regions

\* Each register block of a device whose entries fit is looked at.
LEMMA BlocksSeen ==
    ASSUME BoardState, NEW e \in ExtentsOf(board.tree, Devices(board.tree))
    PROVE  \E q \in DOMAIN platform.mmio : platform.mmio[q] = e
  <1>1. PICK k \in Devices(board.tree) : e \in ExtentsOf(board.tree, {k})
    BY ExtentsSplit
  <1>2. /\ k \in DOMAIN board.tree \cap {m \in DOMAIN board.tree : node_is_device(board.tree, m)}
        /\ decode_reg_list(board.tree, k, DTB_MAX_REGS).err = "ok"
    BY <1>1 DEF Devices
  <1>3. StoredLists(board.tree, k, MmioBlocks(board.tree))
    BY <1>2, BoardFacts, RegsOfAllFacts DEF MmioBlocks
  <1> QED
    BY <1>1, <1>3, BoardFacts DEF StoredLists

\* Every reservation of the tree is stored when the buffers hold them.
LEMMA ReservationsStored ==
    ASSUME BoardState, ReservationsFit(board.tree), NEW e \in ReservedExtents(board.tree)
    PROVE  e \in StoredEntries(platform) /\ e \in Extent
  <1> DEFINE t == board.tree
             res == dtb_reserved_memory_regions(t, DTB_MAX_MEM_REGIONS)
  <1>1. fdt_path_offset(t, "reserved-memory") # NoOffset /\ e \in ExtentsOf(t, ReservedNodes(t))
    BY DEF ReservedExtents
  <1>2. /\ res = Collected(t, ReservedNodes(t), {"ok", "nospace", "notfound"}, DTB_MAX_MEM_REGIONS)
        /\ res.err = "ok"
        /\ \A k \in ReservedNodes(t) : decode_reg_list(t, k, DTB_MAX_REGS).err = "ok"
    BY <1>1 DEF ReservationsFit, dtb_reserved_memory_regions
  <1>3. IsTree(t) /\ DTB_MAX_MEM_REGIONS \in Nat
    BY BoardFacts, DtbAssumption
  <1>4. res.list = RegsOfAll(t, ReservedNodes(t))
    <2>1. "ok" \in {"ok", "nospace", "notfound"}
      OBVIOUS
    <2> QED
      BY <1>2, <1>3, <2>1, CollectedFacts
  <1>5. PICK k \in ReservedNodes(t) : e \in ExtentsOf(t, {k})
    BY <1>1, ExtentsSplit
  <1>6. k \in DOMAIN t \cap ReservedNodes(t)
    BY DEF ReservedNodes, Children
  <1>7. PICK q \in DOMAIN res.list : res.list[q] = e
    BY <1>2, <1>3, <1>4, <1>5, <1>6, RegsOfAllFacts DEF StoredLists
  <1>8. platform.reserved_err = "ok" /\ platform.reserved = res.list
    BY <1>2 DEF BoardState, PlatformOf
  <1>9. platform.reserved \in Seq(Extent)
    BY BoardFacts DEF Platform
  <1> HIDE DEF res
  <1>10. e \in Extent
    BY <1>7, <1>8, <1>9, SeqDomain
  <1> QED
    BY <1>7, <1>8, <1>10 DEF StoredEntries, Range

\* What is stored is reserved, and what is reserved is not free.
LEMMA ReservedIsHeld ==
    ASSUME BoardState, Inv, RequestInv
    PROVE  ReservationsHeld
  <1> SUFFICES ASSUME Built, ReservationsFit(board.tree),
                      NEW e \in ReservedExtents(board.tree), NoWrap(e),
                      NEW a \in Cover(free), Spans(e, a)
               PROVE  FALSE
    BY DEF ReservationsHeld
  <1>1. e \in StoredEntries(platform) /\ e \in Extent
    BY ReservationsStored
  <1>2. e.base .. e.base + e.size - 1 \subseteq Cover(reserved)
    BY <1>1 DEF RequestInv, RequestsReserved, Built
  <1>3. a \in Addr /\ a \notin Cover(reserved)
    BY DEF Inv, FreeExact, Built, Cover, CoverOf
  <1>4. a \in e.base .. e.base + e.size - 1
    BY <1>1, <1>3, PageAssumption DEF Spans, Extent, Addr
  <1> QED
    BY <1>2, <1>3, <1>4

-----------------------------------------------------------------------------
(* Banks.                                                                   *)

\* The addresses of the regions made of the first k banks.
BankCover(p, k) ==
    {a \in Addr : \E q \in 1 .. k : Inside(a, ExtentRegion(p.memory[q], "allocatable"))}

\* The RAM list covers the banks, and nothing else: those gone through while it is
\* being filled, all of them from then on.
BankInv ==
    /\ phase = "ram" =>
         n <= Len(platform.memory) + 1 /\ LiveCover = BankCover(platform, n - 1)
    /\ phase \notin {"ram", "failed"} => Cover(ram) = BankCover(platform, Len(platform.memory))

\* One bank more.
LEMMA BankStep ==
    ASSUME NEW p, NEW k \in Nat
    PROVE  /\ BankCover(p, 0) = {}
           /\ BankCover(p, k + 1) = BankCover(p, k)
                \cup {a \in Addr : Inside(a, ExtentRegion(p.memory[k + 1], "allocatable"))}
  <1>1. \A q : q \in 1 .. k + 1 <=> q \in 1 .. k \/ q = k + 1
    OBVIOUS
  <1> QED
    BY <1>1 DEF BankCover

\* The loop over the banks.
LEMMA AddRamBanks ==
    ASSUME Inv, BankInv, AddRam
    PROVE  BankInv'
  <1> DEFINE r == ExtentRegion(platform.memory[n], "allocatable")
  <1>1. /\ n \in Nat \ {0} /\ n <= Len(platform.memory) /\ platform.memory \in Seq(Extent)
        /\ phase = "ram" /\ n' = n + 1
    BY DEF Inv, TypeOK, AddRam, Platform
  <1>2. platform.memory[n] \in Extent /\ Len(platform.memory) \in Nat
    BY <1>1, SeqDomain
  <1>3. r \in Region /\ (~Dropped(r) => WellFormed(r))
    BY <1>2, ExtentRegionType DEF Kinds
  <1>4. MaxRam \in Nat /\ MergeTypeOK /\ WholePages(arr)
    BY CapAssumption DEF Inv, TypeOK
  <1>5. AddRegion(MaxRam, r) /\ UNCHANGED <<i, out, stage, ram, platform>> /\ stage = "idle"
    BY DEF AddRam
  <1>6. BankCover(platform, n) = BankCover(platform, n - 1) \cup {a \in Addr : Inside(a, r)}
    <2>1. PICK k \in Nat : k = n - 1 /\ n = k + 1
      BY <1>1
    <2> QED
      BY <2>1, BankStep
  <1> HIDE DEF r
  <1>7. /\ phase' \in {"ram", "failed"}
        /\ phase' # "failed" => LiveCover' = LiveCover \cup {a \in Addr : Inside(a, r)}
    BY <1>1, <1>3, <1>4, <1>5, AddRegionFacts
  <1>8. LiveCover = BankCover(platform, n - 1)
    BY <1>1 DEF BankInv
  <1>9. phase' = "ram" => LiveCover' = BankCover(platform, n - 1)'
    BY <1>1, <1>5, <1>6, <1>7, <1>8 DEF BankCover
  <1>10. (n <= Len(platform.memory) + 1)'
    BY <1>1, <1>2, <1>5
  <1> QED
    BY <1>7, <1>9, <1>10 DEF BankInv

\* The merged list covers the same addresses, and no later step touches it.
LEMMA NextBanks ==
    ASSUME Inv, BankInv, [Next]_vars
    PROVE  BankInv'
  <1>1. CASE KeepRam
    <2>1. /\ phase = "ram" /\ phase' = "own" /\ ram' = Merged /\ platform' = platform /\ stage = "merged"
          /\ MergeTypeOK /\ MergeInv /\ WholePages(arr)
          /\ n > Len(platform.memory)
      BY <1>1 DEF KeepRam, NextList, Inv, TypeOK, PhaseInv
    <2>2. Cover(ram)' = LiveCover
      BY <2>1, MergedFacts DEF Cover
    <2>3. n - 1 = Len(platform.memory)
      <3>1. platform.memory \in Seq(Extent) /\ n \in Nat
        BY DEF Inv, TypeOK, Platform
      <3>2. Len(platform.memory) \in Nat
        BY <3>1, SeqDomain
      <3> QED
        BY <2>1, <3>1, <3>2 DEF BankInv
    <2> QED
      BY <2>1, <2>2, <2>3 DEF BankInv, BankCover
  <1>2. CASE CallMerge \/ RunMerge
    <2>1. UNCHANGED <<phase, n, ram, platform>> /\ LiveCover' = LiveCover
      BY <1>2, CallMergeInv, RunMergeInv DEF CallMerge, RunMerge, mapVars
    <2> QED
      BY <2>1 DEF BankInv, BankCover, Cover
  <1>3. CASE ReserveOwn \/ ReadReserved \/ ReserveDtb \/ ReserveMmio \/ KeepReserved \/ Sweep
             \/ SweepTail \/ KeepFree \/ Clip \/ Crash \/ Publish
    <2>1. phase # "ram" /\ phase' # "ram" /\ UNCHANGED <<ram, platform>> /\ phase # "failed"
      BY <1>3 DEF ReserveOwn, ReadReserved, ReserveDtb, ReserveMmio, KeepReserved, Sweep,
         SweepTail, KeepFree, Clip, Crash, Publish, AddRegion, NextList
    <2> QED
      BY <2>1 DEF BankInv, BankCover, Cover
  <1>4. CASE UNCHANGED vars
    BY <1>4 DEF BankInv, BankCover, Cover, LiveCover, Live, vars
  <1> QED
    BY <1>1, <1>2, <1>3, <1>4, AddRamBanks DEF Next, Returned

\* An address of a bank's region lies in a page that the bank begins in or reaches
\* into.
LEMMA BankPage ==
    ASSUME NEW e \in Extent, NEW a \in Addr, Inside(a, ExtentRegion(e, "allocatable"))
    PROVE  \E x \in 0 .. PageSize - 1 :
             mm_align_down(a) + x = e.base \/ Spans(e, mm_align_down(a) + x)
  <1> DEFINE w == WrapAdd(e.base, e.size)
             d == mm_align_down(a)
             b == mm_align_down(e.base)
  <1>1. /\ e.base \in Nat /\ e.size \in Nat /\ a \in Nat /\ PageSize \in Nat \ {0}
        /\ AddrSpan \in Nat \ {0}
    BY PageAssumption DEF Extent, Addr
  <1>2. b <= a /\ a < mm_align_up(w)
    BY DEF ExtentRegion, NewRegion, Inside
  <1>3. w \in Addr /\ w \in Nat /\ w <= e.base + e.size
    <2>1. PICK v \in Nat : v = e.base + e.size
      BY <1>1
    <2>2. w = v % AddrSpan
      BY <2>1 DEF WrapAdd
    <2>3. w \in Addr
      BY <1>1, WrapAddType
    <2>4. PICK k \in Nat, r \in 0 .. AddrSpan - 1 : v = AddrSpan * k + r /\ r = v % AddrSpan
      BY <1>1, <2>1, DivMod
    <2>5. AddrSpan * k \in Nat
      BY <1>1
    <2>6. r <= v
      BY <1>1, <2>4, <2>5
    <2> QED
      BY <1>1, <2>1, <2>2, <2>3, <2>4, <2>6 DEF Addr
  <1>4. d \in Nat /\ d <= a /\ IsAligned(d) /\ b \in Nat /\ IsAligned(b) /\ e.base < b + PageSize
    BY <1>1, AlignDown
  <1>5. d \in Addr /\ b <= d
    BY <1>1, <1>2, <1>4, AlignDownStops DEF Addr
  <1>6. mm_align_up(w) \in Nat
    BY <1>1, <1>3, AlignUpType DEF Addr
  <1>7. d < w
    BY <1>1, <1>2, <1>3, <1>4, <1>5, <1>6, AlignUpStops
  <1> HIDE DEF w, d, b
  <1>8. CASE d <= e.base
    <2>1. e.base - d \in 0 .. PageSize - 1 /\ d + (e.base - d) = e.base
      BY <1>1, <1>4, <1>5, <1>8
    <2> QED
      BY <2>1 DEF d
  <1>9. CASE e.base < d
    <2>1. 0 \in 0 .. PageSize - 1 /\ d + 0 = d
      BY <1>1, <1>4
    <2>2. Spans(e, d)
      BY <1>1, <1>3, <1>4, <1>7, <1>9 DEF Spans
    <2> QED
      BY <2>1, <2>2 DEF d
  <1> QED
    BY <1>1, <1>4, <1>8, <1>9

\* Free memory lies in such pages.
LEMMA FreeIsBanks ==
    ASSUME BoardState, Inv, BankInv
    PROVE  FreeIsMemory
  <1> SUFFICES ASSUME Built, NEW a \in Cover(free)
               PROVE  \E e \in ExtentsOf(board.tree, MemoryNodes(board.tree)) :
                        \E x \in 0 .. PageSize - 1 :
                          mm_align_down(a) + x = e.base \/ Spans(e, mm_align_down(a) + x)
    BY DEF FreeIsMemory
  <1>1. a \in BankCover(platform, Len(platform.memory))
    BY DEF Inv, FreeExact, Built, BankInv
  <1>2. PICK q \in 1 .. Len(platform.memory) :
          a \in Addr /\ Inside(a, ExtentRegion(platform.memory[q], "allocatable"))
    BY <1>1 DEF BankCover
  <1>3. platform.memory \in Seq(Extent)
    BY BoardFacts DEF Platform
  <1>4. q \in DOMAIN platform.memory /\ platform.memory[q] \in Extent
    BY <1>2, <1>3, SeqDomain
  <1> QED
    BY <1>2, <1>4, BanksSaid, BankPage

-----------------------------------------------------------------------------
(* Devices.                                                                 *)

\* A block is skipped or all its addresses are covered, unless its end wraps.
Kept(e, covered) == Skipped(e) \/ Asked(e) \subseteq covered

\* The blocks gone through so far are kept, and all of them from then on.
BlockInv ==
    /\ phase = "mmio" => \A k \in DOMAIN platform.mmio : k < n => Kept(platform.mmio[k], LiveCover)
    /\ phase \in {"sweep", "clip", "done"} =>
         \A k \in DOMAIN platform.mmio : Kept(platform.mmio[k], Cover(reserved))

\* The region made of a block covers it.
LEMMA BlockCovers ==
    ASSUME NEW e \in Extent
    PROVE  Asked(e) \subseteq {a \in Addr : Inside(a, NewRegion(e.base, MmioEnd(e), "mmio"))}
  <1>1. CASE NoWrap(e)
    <2>1. /\ e.base \in Addr /\ e.base \in Nat /\ e.size \in Nat /\ PageSize \in Nat \ {0}
          /\ AddrSpan \in Nat /\ e.base + e.size + PageSize <= AddrSpan
      BY <1>1, PageAssumption DEF NoWrap, Extent, Addr
    <2>2. MmioEnd(e) = e.base + e.size
      BY <2>1 DEF MmioEnd, UINT64_MAX
    <2>3. e.base + e.size \in Addr
      BY <2>1 DEF Addr
    <2>4. "mmio" \in Kinds
      BY DEF Kinds
    <2> QED
      BY <1>1, <2>1, <2>2, <2>3, <2>4, RoundingCovers DEF Asked
  <1>2. CASE ~NoWrap(e)
    BY <1>2 DEF Asked
  <1> QED
    BY <1>1, <1>2

\* The loop over the register blocks.
LEMMA ReserveMmioBlocks ==
    ASSUME Inv, BlockInv, ReserveMmio
    PROVE  BlockInv'
  <1> DEFINE e == platform.mmio[n]
             r == NewRegion(e.base, MmioEnd(e), "mmio")
  <1>1. /\ n \in Nat \ {0} /\ n <= Len(platform.mmio) /\ platform.mmio \in Seq(Extent)
        /\ phase = "mmio" /\ stage = "idle" /\ n' = n + 1
        /\ UNCHANGED <<i, out, stage, platform, ram>>
    BY DEF Inv, TypeOK, ReserveMmio, Platform
  <1>2. e \in Extent /\ Len(platform.mmio) \in Nat /\ DOMAIN platform.mmio = 1 .. Len(platform.mmio)
    BY <1>1, SeqDomain
  <1>3. e.base \in Addr /\ MmioEnd(e) \in Addr
    BY <1>2, PageAssumption, SMTT(30) DEF MmioEnd, Extent, Addr, UINT64_MAX
  <1>4. r \in Region /\ (~Dropped(r) => WellFormed(r)) /\ Asked(e) \subseteq {a \in Addr : Inside(a, r)}
    BY <1>2, <1>3, NewRegionType, BlockCovers DEF Kinds
  <1>5. IF Skipped(e) THEN UNCHANGED <<arr, phase>> ELSE AddRegion(WorkspaceCap, r)
    BY DEF ReserveMmio
  <1> HIDE DEF r, e
  <1>6. /\ phase' \in {"mmio", "failed"}
        /\ phase' # "failed" => LiveCover \subseteq LiveCover' /\ Kept(e, LiveCover')
    <2>1. CASE Skipped(e)
      BY <1>1, <1>5, <2>1 DEF Kept, LiveCover, Live
    <2>2. CASE ~Skipped(e)
      <3>1. AddRegion(WorkspaceCap, r) /\ UNCHANGED <<i, out, stage>>
        BY <1>1, <1>5, <2>2
      <3>2. /\ phase' \in {phase, "failed"}
            /\ phase' # "failed" => LiveCover' = LiveCover \cup {a \in Addr : Inside(a, r)}
        BY <1>1, <1>4, <3>1, ReserveAdds
      <3> QED
        BY <1>1, <1>4, <3>2 DEF Kept
    <2> QED
      BY <2>1, <2>2
  <1>7. \A x : Skipped(x)' <=> Skipped(x)
    BY <1>1 DEF Skipped
  <1>8. ASSUME phase' = "mmio", NEW k \in DOMAIN platform.mmio, k < n'
        PROVE  Kept(platform.mmio[k], LiveCover)'
    <2>1. k < n \/ k = n
      BY <1>1, <1>2, <1>8
    <2>2. Kept(platform.mmio[k], LiveCover')
      BY <1>1, <1>6, <1>8, <2>1 DEF BlockInv, Kept, e
    <2> QED
      BY <1>1, <1>7, <2>2 DEF Kept
  <1> QED
    BY <1>1, <1>6, <1>8 DEF BlockInv

\* Merging keeps the blocks, and the list that is taken over has them.
LEMMA NextBlocks ==
    ASSUME Inv, BlockInv, [Next]_vars
    PROVE  BlockInv'
  <1>1. CASE KeepReserved
    <2>1. /\ phase = "mmio" /\ phase' = "sweep" /\ reserved' = Merged /\ UNCHANGED <<platform, ram>>
          /\ stage = "merged" /\ MergeTypeOK /\ MergeInv /\ WholePages(arr)
          /\ n > Len(platform.mmio)
      BY <1>1 DEF KeepReserved, NextList, Inv, TypeOK, PhaseInv
    <2>2. Cover(reserved)' = LiveCover
      BY <2>1, MergedFacts DEF Cover
    <2>3. \A k \in DOMAIN platform.mmio : k < n
      <3>1. platform.mmio \in Seq(Extent) /\ n \in Nat
        BY DEF Inv, TypeOK, Platform
      <3>2. DOMAIN platform.mmio = 1 .. Len(platform.mmio) /\ Len(platform.mmio) \in Nat
        BY <3>1, SeqDomain
      <3> QED
        BY <2>1, <3>1, <3>2
    <2>4. \A k \in DOMAIN platform.mmio : Kept(platform.mmio[k], LiveCover)
      BY <2>1, <2>3 DEF BlockInv
    <2> QED
      BY <2>1, <2>2, <2>4 DEF BlockInv, Kept, Skipped
  <1>2. CASE CallMerge \/ RunMerge
    <2>1. UNCHANGED <<phase, n, ram, reserved, platform>> /\ LiveCover' = LiveCover
      BY <1>2, CallMergeInv, RunMergeInv DEF CallMerge, RunMerge, mapVars
    <2> QED
      BY <2>1 DEF BlockInv, Kept, Skipped, Cover
  <1>3. CASE ReserveDtb
    <2>1. phase = "dtb" /\ phase' \in {"dtb", "mmio", "failed"} /\ (phase' = "mmio" => n' = 1)
          /\ platform' = platform
      BY <1>3 DEF ReserveDtb, AddRegion
    <2>2. platform.mmio \in Seq(Extent)
      BY DEF Inv, TypeOK, Platform
    <2>3. \A k \in DOMAIN platform.mmio : ~(k < 1)
      BY <2>2, SeqDomain
    <2> QED
      BY <2>1, <2>3 DEF BlockInv
  <1>4. CASE AddRam \/ KeepRam \/ ReserveOwn \/ ReadReserved
    <2>1. phase' \notin {"mmio", "sweep", "clip", "done"}
      BY <1>4 DEF AddRam, KeepRam, ReserveOwn, ReadReserved, AddRegion, NextList
    <2> QED
      BY <2>1 DEF BlockInv
  <1>5. CASE Sweep \/ SweepTail \/ KeepFree \/ Clip \/ Crash \/ Publish
    <2>1. /\ phase \in {"sweep", "clip"} /\ phase' \in {"sweep", "clip", "done", "failed", "crashed"}
          /\ UNCHANGED <<ram, reserved, platform>>
      BY <1>5 DEF Sweep, SweepTail, KeepFree, Clip, Crash, Publish, AddRegion, NextList
    <2> QED
      BY <2>1 DEF BlockInv, Kept, Skipped, Cover
  <1>6. CASE UNCHANGED vars
    BY <1>6 DEF BlockInv, Kept, Skipped, Cover, LiveCover, Live, vars
  <1> QED
    BY <1>1, <1>2, <1>3, <1>4, <1>5, <1>6, ReserveMmioBlocks DEF Next, Returned

\* A device's registers are in the reserved list unless they overlap RAM.
LEMMA DevicesAreKept ==
    ASSUME BoardState, Inv, BlockInv
    PROVE  DevicesKept
  <1> SUFFICES ASSUME Built, NEW e \in ExtentsOf(board.tree, Devices(board.tree)),
                      e.size > 0, NoWrap(e),
                      ~mm_region_overlaps_any(e.base, e.base + e.size, ram),
                      NEW a \in e.base .. e.base + e.size - 1
               PROVE  a \in Cover(reserved)
    BY DEF DevicesKept
  <1>1. PICK q \in DOMAIN platform.mmio : platform.mmio[q] = e
    BY BlocksSeen
  <1>2. e \in Extent
    <2>1. platform.mmio \in Seq(Extent)
      BY BoardFacts DEF Platform
    <2> QED
      BY <1>1, <2>1, SeqDomain
  <1>3. Kept(e, Cover(reserved))
    BY <1>1 DEF BlockInv, Built
  <1>4. ~Skipped(e)
    <2>1. /\ e.base \in Nat /\ e.size \in Nat /\ PageSize \in Nat \ {0} /\ AddrSpan \in Nat
          /\ e.base + e.size + PageSize <= AddrSpan
      BY <1>2, PageAssumption DEF NoWrap, Extent, Addr
    <2>2. MmioEnd(e) = e.base + e.size
      BY <2>1 DEF MmioEnd, UINT64_MAX
    <2> QED
      BY <2>1, <2>2 DEF Skipped
  <1> QED
    BY <1>3, <1>4 DEF Kept, Asked

-----------------------------------------------------------------------------
(* The total.                                                               *)

\* f[k] is the sum of the first k sizes.
AddsUp(f, list, m) == f[0] = 0 /\ \A k \in 1 .. m : f[k] = (f[k - 1] + list[k].size) % AddrSpan

\* dtb_memory_total satisfies the recursion it is written as.
LEMMA TotalRuns ==
    ASSUME NEW t, NEW list \in Seq(Extent), dtb_memory_regions(t, DTB_MAX_MEM_REGIONS).list = list
    PROVE  \E f : AddsUp(f, list, Len(list)) /\ dtb_memory_total(t) = f[Len(list)]
  <1>1. PICK m \in Nat : m = Len(list)
    BY SeqDomain
  <1>2. \A k \in 1 .. m : list[k].size \in Int
    <2> TAKE k \in 1 .. m
    <2>1. list[k] \in Extent
      BY <1>1, SeqDomain
    <2> QED
      BY <2>1, PageAssumption DEF Extent, Addr
  <1>3. AddrSpan \in Nat \ {0} /\ AddrSpan = CellSpan * CellSpan
    BY PageAssumption, BoardAssumption
  <1>4. PICK h \in [1 .. m -> [Int -> Int]] :
           \A k \in 1 .. m : \A x \in Int : h[k][x] = (x + list[k].size) % AddrSpan
    <2> DEFINE g == [k \in 1 .. m |-> [x \in Int |-> (x + list[k].size) % AddrSpan]]
    <2>1. /\ g \in [1 .. m -> [Int -> Int]]
          /\ \A k \in 1 .. m : \A x \in Int : g[k][x] = (x + list[k].size) % AddrSpan
      BY <1>2, <1>3
    <2> HIDE DEF g
    <2> QED
      BY <2>1
  <1>5. PICK f \in [0 .. m -> Int] : Runs(f, 0, h, m)
    <2>1. PICK T : T = Int
      OBVIOUS
    <2>2. PICK base \in T : base = 0
      BY <2>1
    <2>3. h \in [1 .. m -> [T -> T]]
      BY <2>1
    <2>4. \E f \in [0 .. m -> T] : Runs(f, base, h, m)
      BY <2>3, Recursion
    <2> QED
      BY <2>1, <2>2, <2>4
  <1>6. f[0] = 0 /\ \A k \in 1 .. m : f[k] = (f[k - 1] + list[k].size) % AddrSpan
    <2>1. \A k \in 1 .. m : f[k - 1] \in Int
      OBVIOUS
    <2> QED
      BY <1>4, <1>5, <2>1 DEF Runs
  <1> DEFINE step(g) == [k \in 0 .. m |-> IF k = 0 THEN 0 ELSE (g[k - 1] + list[k].size) % AddrSpan]
             total == CHOOSE g : g = step(g)
  <1>7. dtb_memory_total(t) = total[m]
    BY <1>1, <1>3 DEF dtb_memory_total
  <1>8. f = step(f)
    <2>1. \A k \in 0 .. m : f[k] = step(f)[k]
      <3> TAKE k \in 0 .. m
      <3>1. k = 0 \/ k \in 1 .. m
        OBVIOUS
      <3> QED
        BY <1>6, <3>1
    <2> QED
      BY <2>1
  <1>9. total = step(total)
    <2> HIDE DEF step
    <2> QED
      BY <1>8
  <1> HIDE DEF total
  <1>10. AddsUp(total, list, m)
    <2>1. step(total)[0] = 0
      OBVIOUS
    <2>2. ASSUME NEW k \in 1 .. m
          PROVE  step(total)[k] = (total[k - 1] + list[k].size) % AddrSpan
      <3>1. k \in 0 .. m /\ k # 0
        OBVIOUS
      <3> QED
        BY <3>1
    <2> HIDE DEF step
    <2> QED
      BY <1>9, <2>1, <2>2 DEF AddsUp
  <1> QED
    BY <1>1, <1>7, <1>10

\* A bank of whole pages that does not reach the top is its region, and its size is
\* that of its pages.
LEMMA PlainBank ==
    ASSUME NEW e \in Extent, NoWrap(e), IsAligned(e.base), IsAligned(e.size)
    PROVE  /\ {a \in Addr : Inside(a, ExtentRegion(e, "allocatable"))} = Span(e.base, e.base + e.size)
           /\ PageSize * PageCount(Span(e.base, e.base + e.size)) = e.size
  <1>1. /\ e.base \in Addr /\ e.base \in Nat /\ e.size \in Nat /\ PageSize \in Nat \ {0}
        /\ AddrSpan \in Nat \ {0} /\ e.base + e.size + PageSize <= AddrSpan
    BY PageAssumption DEF NoWrap, Extent, Addr
  <1>2. PICK end \in Addr : end = e.base + e.size
    BY <1>1 DEF Addr
  <1>3. PICK k \in Nat, m \in Nat : e.base = PageSize * k /\ e.size = PageSize * m
    BY <1>1, AlignedMultiple
  <1>4. IsAligned(end)
    <2>1. end = PageSize * (k + m)
      BY <1>1, <1>2, <1>3
    <2> QED
      BY <2>1, MultipleAligned
  <1>5. WrapAdd(e.base, e.size) = end
    <2>1. end \in 0 .. AddrSpan - 1 /\ AddrSpan * 0 + end = end
      BY <1>1, <1>2 DEF Addr
    <2>2. (AddrSpan * 0 + end) % AddrSpan = end
      BY <1>1, <2>1, ModUnique
    <2> QED
      BY <1>2, <2>1, <2>2 DEF WrapAdd
  <1>6. ExtentRegion(e, "allocatable") = [start |-> e.base, end |-> end, kind |-> "allocatable"]
    <2>1. "allocatable" \in Kinds
      BY DEF Kinds
    <2> QED
      BY <1>1, <1>4, <1>5, <2>1, NewRegionExact DEF ExtentRegion
  <1>7. {a \in Addr : Inside(a, ExtentRegion(e, "allocatable"))} = Span(e.base, end)
    BY <1>6 DEF Inside, Span
  <1>8. PageSize * PageCount(Span(e.base, end)) = e.size
    <2>1. CASE e.size = 0
      <3>1. Span(e.base, end) = {}
        BY <1>1, <1>2, <2>1, PageAssumption DEF Span, Addr
      <3>2. PageSize * 0 = 0
        BY <1>1
      <3> QED
        BY <2>1, <3>1, <3>2, CountFacts
    <2>2. CASE e.size # 0
      <3>1. e.base < end /\ end - e.base = e.size
        BY <1>1, <1>2, <2>2
      <3>2. mm_pages_u64(e.base, end) = m
        <4>1. (PageSize * m) \div PageSize = m
          BY <1>1, DivUnique
        <4>2. end > e.base
          BY <1>1, <1>2, <3>1
        <4> QED
          BY <1>3, <3>1, <4>1, <4>2 DEF mm_pages_u64
      <3> QED
        BY <1>1, <1>3, <1>4, <3>1, <3>2, SpanCount
    <2> QED
      BY <2>1, <2>2
  <1> QED
    BY <1>2, <1>7, <1>8

\* Pages below the last one take less than the address space.
LEMMA CountBound ==
    ASSUME NEW A \in SUBSET Addr, \A a \in A : a + PageSize < AddrSpan
    PROVE  PageCount(A) \in Nat /\ PageSize * PageCount(A) < AddrSpan
  <1>1. PageSize \in Nat \ {0} /\ AddrSpan \in Nat \ {0} /\ IsAligned(AddrSpan)
    BY PageAssumption DEF IsAligned
  <1>2. PICK m \in Nat : AddrSpan = PageSize * m
    BY <1>1, AlignedMultiple
  <1>3. m >= 1
    BY <1>1, <1>2
  <1>4. ASSUME NEW x \in PagesOf(A)
        PROVE  x \in 0 .. m - 2
    <2>1. x \in Nat /\ PageSize * x \in A
      BY PageAssumption DEF PagesOf
    <2>2. PageSize * x + PageSize = PageSize * (x + 1)
      BY <1>1, <2>1
    <2>3. PageSize * (x + 1) < PageSize * m
      BY <1>2, <2>1, <2>2
    <2>4. x + 1 < m
      BY <2>1, <2>3, PageOrder
    <2> QED
      BY <1>3, <2>1, <2>4
  <1>5. /\ IsFiniteSet(0 .. m - 2)
        /\ Cardinality(0 .. m - 2) = m - 1
    <2>1. 0 \in Int /\ m - 2 \in Int
      BY <1>3
    <2> QED
      BY <1>3, <2>1, FS_Interval
  <1>6. PageCount(A) <= m - 1 /\ PageCount(A) \in Nat
    <2>1. PagesOf(A) \subseteq 0 .. m - 2
      BY <1>4
    <2>2. Cardinality(PagesOf(A)) <= Cardinality(0 .. m - 2)
      BY <1>5, <2>1, FS_Subset
    <2> QED
      BY <1>5, <2>2, CountFacts DEF PageCount
  <1>7. PageCount(A) < m
    BY <1>3, <1>6
  <1>8. PageSize * PageCount(A) < PageSize * m
    BY <1>6, <1>7, PageOrder
  <1> QED
    BY <1>2, <1>6, <1>8

\* When the banks are plain, the sum of their sizes never wraps and is that of the
\* pages they cover.
LEMMA PlainTotals ==
    ASSUME NEW p \in Platform, PlainMemory(p), NEW f, AddsUp(f, p.memory, Len(p.memory))
    PROVE  f[Len(p.memory)] = PageSize * PageCount(BankCover(p, Len(p.memory)))
  <1>1. PICK m \in Nat : m = Len(p.memory) /\ DOMAIN p.memory = 1 .. m
    BY SeqDomain DEF Platform
  <1>2. \A k \in 1 .. m : p.memory[k] \in Extent
    BY <1>1, SeqDomain DEF Platform
  <1>3. \A k \in 1 .. m : LET e == p.memory[k]
                          IN  NoWrap(e) /\ IsAligned(e.base) /\ IsAligned(e.size)
    BY <1>1 DEF PlainMemory
  <1> DEFINE S == {k \in Nat : k <= m => f[k] = PageSize * PageCount(BankCover(p, k))}
  <1>4. 0 \in S
    <2>1. BankCover(p, 0) = {} /\ PageCount({}) = 0
      BY BankStep, CountFacts
    <2>2. PageSize * PageCount(BankCover(p, 0)) = 0
      BY <2>1, PageAssumption, SMTT(30)
    <2> QED
      BY <2>2 DEF AddsUp
  <1>5. ASSUME NEW k \in Nat, k \in S
        PROVE  k + 1 \in S
    <2> SUFFICES ASSUME k + 1 <= m
                 PROVE  f[k + 1] = PageSize * PageCount(BankCover(p, k + 1))
      OBVIOUS
    <2>1. k + 1 \in 1 .. m /\ (k + 1) - 1 = k /\ k <= m
      OBVIOUS
    <2>2. PICK e \in Extent : e = p.memory[k + 1]
      BY <1>2, <2>1
    <2>3. PICK span : span = Span(e.base, e.base + e.size)
      OBVIOUS
    <2>4. PICK A : A = BankCover(p, k)
      OBVIOUS
    <2>5. NoWrap(e) /\ IsAligned(e.base) /\ IsAligned(e.size)
      BY <1>3, <2>1, <2>2
    <2>6. /\ {a \in Addr : Inside(a, ExtentRegion(e, "allocatable"))} = span
          /\ PageSize * PageCount(span) = e.size
      BY <2>3, <2>5, PlainBank
    <2>7. BankCover(p, k + 1) = A \cup span
      <3>1. BankCover(p, k + 1) = BankCover(p, k)
              \cup {a \in Addr : Inside(a, ExtentRegion(p.memory[k + 1], "allocatable"))}
        BY BankStep, Zenon
      <3> QED
        BY <2>2, <2>4, <2>6, <3>1, Zenon
    <2>8. ASSUME NEW q \in 1 .. k, NEW a \in Addr,
                 Inside(a, ExtentRegion(p.memory[q], "allocatable"))
          PROVE  a \notin span
      <3>1. q \in 1 .. m /\ q < k + 1 /\ q \in DOMAIN p.memory /\ k + 1 \in DOMAIN p.memory
        BY <1>1, <2>1
      <3>2. PICK c \in Extent : c = p.memory[q]
        BY <1>2, <3>1
      <3>3. a \in Span(c.base, c.base + c.size)
        BY <1>3, <2>8, <3>1, <3>2, PlainBank
      <3>4. ~mm_ranges_overlap(c.base, c.base + c.size, e.base, e.base + e.size)
        BY <2>2, <3>1, <3>2 DEF PlainMemory
      <3>5. /\ a \in Nat /\ c.base \in Nat /\ c.size \in Nat /\ e.base \in Nat /\ e.size \in Nat
        BY <3>2, PageAssumption DEF Extent, Addr
      <3>6. c.base <= a /\ a < c.base + c.size
        BY <3>3 DEF Span
      <3> QED
        BY <2>3, <3>4, <3>5, <3>6 DEF Span, mm_ranges_overlap
    <2>9. A \cap span = {}
      BY <2>4, <2>8 DEF BankCover
    <2>10. PageCount(A \cup span) = PageCount(A) + PageCount(span)
           /\ PageCount(A) \in Nat /\ PageCount(span) \in Nat
      BY <2>9, CountFacts
    <2>11. PageSize * PageCount(A \cup span) = PageSize * PageCount(A) + e.size
      BY <2>6, <2>10, PageAssumption
    <2>12. PageSize * PageCount(A \cup span) < AddrSpan
      <3>1. A \cup span \in SUBSET Addr
        BY <2>3, <2>4 DEF BankCover, Span
      <3>2. ASSUME NEW a \in A \cup span
            PROVE  a + PageSize < AddrSpan
        <4>1. PICK q \in 1 .. k + 1 : Inside(a, ExtentRegion(p.memory[q], "allocatable"))
          BY <2>7 DEF BankCover
        <4>2. q \in 1 .. m
          BY <2>1
        <4>3. PICK c \in Extent : c = p.memory[q]
          BY <1>2, <4>2
        <4>4. NoWrap(c) /\ IsAligned(c.base) /\ IsAligned(c.size)
          BY <1>3, <4>2, <4>3
        <4>5. a \in Span(c.base, c.base + c.size)
          BY <3>1, <4>1, <4>3, <4>4, PlainBank
        <4>6. /\ a \in Nat /\ c.base \in Nat /\ c.size \in Nat /\ PageSize \in Nat /\ AddrSpan \in Nat
          BY <3>1, PageAssumption DEF Extent, Addr
        <4> QED
          BY <4>4, <4>5, <4>6 DEF NoWrap, Span
      <3> QED
        BY <3>1, <3>2, CountBound
    <2>13. f[k] = PageSize * PageCount(A)
      BY <1>5, <2>1, <2>4
    <2>14. f[k + 1] = (f[k] + e.size) % AddrSpan
      BY <1>1, <2>1, <2>2 DEF AddsUp
    <2>15. PICK v \in Nat : v = PageSize * PageCount(A \cup span)
      BY <2>10, <2>12, PageAssumption, CountFacts
    <2>16. v % AddrSpan = v
      <3>1. v \in 0 .. AddrSpan - 1 /\ AddrSpan * 0 + v = v
        BY <2>12, <2>15, PageAssumption
      <3> QED
        BY <3>1, ModUnique, PageAssumption
    <2> QED
      BY <2>7, <2>11, <2>13, <2>14, <2>15, <2>16
  <1> HIDE DEF S
  <1>6. m \in S
    BY <1>4, <1>5, Induction
  <1> QED
    BY <1>1, <1>6 DEF S

\* The total of the tree is that of the published pages.
LEMMA TotalsAreTrees ==
    ASSUME BoardState, Inv, BankInv, RangesInv
    PROVE  TotalsFromTree
  <1> SUFFICES ASSUME Built, PlainMemory(platform)
               PROVE  mm_state.ram_pages * PageSize = dtb_memory_total(board.tree)
    BY DEF TotalsFromTree
  <1>1. platform \in Platform /\ platform.memory \in Seq(Extent)
        /\ dtb_memory_regions(board.tree, DTB_MAX_MEM_REGIONS).list = platform.memory
    BY BoardFacts DEF Platform
  <1>2. PICK f : /\ AddsUp(f, platform.memory, Len(platform.memory))
                 /\ dtb_memory_total(board.tree) = f[Len(platform.memory)]
    BY <1>1, TotalRuns
  <1>3. mm_state.ram_pages = PageCount(BankCover(platform, Len(platform.memory)))
    BY DEF Built, RangesInv, BankInv
  <1>4. f[Len(platform.memory)] = PageSize * mm_state.ram_pages
    BY <1>1, <1>2, <1>3, PlainTotals
  <1>5. mm_state.ram_pages \in Nat
    BY <1>3, CountFacts
  <1> QED
    BY <1>2, <1>4, <1>5, PageAssumption

-----------------------------------------------------------------------------
(* The theorems.                                                            *)

\* The inductive invariant of a board: the map's, and what ties it to the tree.
BoardInv ==
    /\ BoardState /\ Inv
    /\ RequestInv /\ RangesInv /\ BankInv /\ BlockInv

\* It holds when mm_stage2_build is entered on a board.
LEMMA BoardInvInit ==
    ASSUME BoardInit
    PROVE  BoardInv
  <1>1. PICK b \in Boards : board = b /\ InitOn(PlatformOf(b))
    BY DEF BoardInit
  <1>2. BoardState
    BY <1>1 DEF BoardState, InitOn
  <1>3. Init
    BY <1>1, BoardAssumption DEF Init
  <1>4. RequestInv /\ RangesInv /\ BlockInv
    BY <1>1 DEF InitOn, RequestInv, RequestsReserved, RangesInv, TotalsAgree, BlockInv
  <1>5. BankInv
    <2>1. phase = "ram" /\ n = 1 /\ Live = {}
      BY <1>1 DEF InitOn, Live
    <2>2. LiveCover = {} /\ BankCover(platform, n - 1) = {}
      BY <2>1, BankStep DEF LiveCover, CoverOf
    <2>3. platform.memory \in Seq(Extent)
      BY <1>2, BoardFacts DEF Platform
    <2>4. n <= Len(platform.memory) + 1
      BY <2>1, <2>3, SeqDomain
    <2> QED
      BY <2>1, <2>2, <2>4 DEF BankInv
  <1> QED
    BY <1>2, <1>3, <1>4, <1>5, InitInv DEF BoardInv

\* Every step of the build keeps it.
LEMMA BoardInvNext ==
    ASSUME BoardInv, [BoardNext]_boardVars
    PROVE  BoardInv'
  <1>1. [Next]_vars /\ board' = board
    BY DEF BoardNext, boardVars
  <1>2. platform' = platform
    BY <1>1 DEF Next, vars, mapVars, AddRam, KeepRam, ReserveOwn, ReadReserved, ReserveDtb,
       ReserveMmio, KeepReserved, Sweep, SweepTail, KeepFree, CallMerge, RunMerge, Clip, Crash,
       Publish, Returned
  <1>3. BoardState'
    BY <1>1, <1>2 DEF BoardInv, BoardState
  <1> QED
    BY <1>1, <1>3, NextInv, NextRequest, NextRanges, NextBanks, NextBlocks DEF BoardInv

\* The invariant holds on every board.
THEOREM BoardInvHolds == BoardSpec => []BoardInv
  BY BoardInvInit, BoardInvNext, PTL DEF BoardSpec

\* Memory that the tree reserves below the last page of the address space is never
\* free when the buffers hold every reservation of the tree, for all trees, capacities
\* and page sizes: through the node lists, the list of the tree, rounding, merging and
\* the sweep.
THEOREM ReservationsAreHeld == BoardSpec => []ReservationsHeld
  <1>1. BoardInv => ReservationsHeld
    BY ReservedIsHeld DEF BoardInv
  <1> QED
    BY <1>1, BoardInvHolds, PTL

\* The registers of a device stay out of free memory unless they overlap RAM or its
\* entries do not fit.
THEOREM DevicesAreReserved == BoardSpec => []DevicesKept
  <1>1. BoardInv => DevicesKept
    BY DevicesAreKept DEF BoardInv
  <1> QED
    BY <1>1, BoardInvHolds, PTL

\* Free memory is memory of the tree, to a page.
THEOREM FreeIsTreeMemory == BoardSpec => []FreeIsMemory
  <1>1. BoardInv => FreeIsMemory
    BY FreeIsBanks DEF BoardInv
  <1> QED
    BY <1>1, BoardInvHolds, PTL

\* The page count of the map and dtb_memory_total agree on plain memory: neither the
\* 64-bit sum of the sizes nor the rounding of the regions loses anything.
THEOREM TotalsAgreeWithTree == BoardSpec => []TotalsFromTree
  <1>1. BoardInv => TotalsFromTree
    BY TotalsAreTrees DEF BoardInv
  <1> QED
    BY <1>1, BoardInvHolds, PTL
=============================================================================
