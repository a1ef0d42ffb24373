------------------------------ MODULE BoardMap ------------------------------
(***************************************************************************)
(* The memory map of a board that is given by its device tree: the calls   *)
(* of mm_stage2_build into libs/dtb (memory_map.c:576, 616, 630) joined to *)
(* the build itself.  A board is a tree and the place of the blob.  Only   *)
(* boards that init_dtb lets through get here.                             *)
(***************************************************************************)
EXTENDS MemoryMap, Dtb

CONSTANT Boards

VARIABLE board

boardVars == <<vars, board>>

\* What mm_stage2_build reads from the tree.
PlatformOf(b) ==
    LET res == dtb_reserved_memory_regions(b.tree, DTB_MAX_MEM_REGIONS)
    IN  [memory       |-> dtb_memory_regions(b.tree, DTB_MAX_MEM_REGIONS).list,
         reserved_err |-> IF res.err \in {"ok", "nospace", "notfound"} THEN res.err ELSE "other",
         reserved     |-> res.list,
         mmio         |-> MmioBlocks(b.tree),
         fdt          |-> b.fdt]

\* init_dtb goes on only when the tree has memory that can be listed.
Accepted(b) == dtb_get_memory(b.tree).err = "ok"

ASSUME BoardAssumption ==
    /\ AddrSpan = CellSpan * CellSpan
    /\ MaxRam = DTB_MAX_MEM_REGIONS
    /\ \A b \in Boards : IsTree(b.tree) /\ Accepted(b)
    /\ {PlatformOf(b) : b \in Boards} \subseteq Platforms

BoardInit == \E b \in Boards : board = b /\ InitOn(PlatformOf(b))

BoardNext == Next /\ UNCHANGED board

BoardSpec == BoardInit /\ [][BoardNext]_boardVars /\ WF_boardVars(BoardNext)

-----------------------------------------------------------------------------
(* What the tree says, whether or not the code reads it.                    *)

\* Every entry of the reg properties of the nodes in S.
ExtentsOf(t, S) ==
    UNION {{EntryAt(t, k, q) : q \in 0 .. RegEntries(t, k) - 1} :
              k \in {m \in S : RegError(t, m) = "ok" /\ HasProp(t, m, "reg")}}

Spans(e, a) == e.base <= a /\ a < e.base + e.size

ReservedExtents(t) ==
    IF fdt_path_offset(t, "reserved-memory") = NoOffset THEN {} ELSE ExtentsOf(t, ReservedNodes(t))

\* The buffers hold every reservation of the tree.
ReservationsFit(t) ==
    /\ \A k \in ReservedNodes(t) : decode_reg_list(t, k, DTB_MAX_REGS).err = "ok"
    /\ dtb_reserved_memory_regions(t, DTB_MAX_MEM_REGIONS).err = "ok"

Built == phase = "done"

\* As long as the buffers hold them, memory that the tree reserves is not free,
\* through two levels of lists, rounding, merging with other kinds and the sweep.
ReservationsHeld ==
    Built /\ ReservationsFit(board.tree) =>
        \A e \in ReservedExtents(board.tree) :
            NoWrap(e) => \A a \in Cover(free) : ~Spans(e, a)

\* No free address lies in a device's registers, as the tree lists them, unless
\* the block lies in RAM or past what the buffers hold.
Devices(t) == {k \in DOMAIN t : node_is_device(t, k)
                                /\ decode_reg_list(t, k, DTB_MAX_REGS).err = "ok"}

DevicesKept ==
    Built => \A e \in ExtentsOf(board.tree, Devices(board.tree)) :
        e.size > 0 /\ NoWrap(e) =>
            \/ mm_region_overlaps_any(e.base, e.base + e.size, ram)
            \/ \A a \in e.base .. e.base + e.size - 1 : a \in Cover(reserved)

\* Free memory consists of pages that a memory node of the tree begins in or reaches
\* into: an empty entry that begins inside a page makes RAM of that page, since
\* mm_region_add rounds its two equal ends apart (memory_map.c:139).
FreeIsMemory ==
    Built => \A a \in Cover(free) :
        \E e \in ExtentsOf(board.tree, MemoryNodes(board.tree)) :
            \E x \in 0 .. PageSize - 1 :
                LET byte == mm_align_down(a) + x IN byte = e.base \/ Spans(e, byte)

\* hw->mem_total (platform_init.c:51) and the pages of the map agree when the
\* memory of the tree is whole pages that neither overlap nor reach the top.
PlainMemory(p) ==
    /\ \A q \in DOMAIN p.memory :
        NoWrap(p.memory[q]) /\ IsAligned(p.memory[q].base) /\ IsAligned(p.memory[q].size)
    /\ \A q, r \in DOMAIN p.memory : q < r =>
        ~mm_ranges_overlap(p.memory[q].base, p.memory[q].base + p.memory[q].size,
                           p.memory[r].base, p.memory[r].base + p.memory[r].size)

TotalsFromTree ==
    Built /\ PlainMemory(platform) =>
        mm_state.ram_pages * PageSize = dtb_memory_total(board.tree)

-----------------------------------------------------------------------------
(* Statements of the repository that the code does not keep.                *)

\* The reservations of the tree are excluded from allocation (dtb.c:1281), and no
\* free range meets a reserved one (Etap2_MapaFizyczna_Reserved.md:56).
ReservationsNeverFree ==
    Built => \A e \in ReservedExtents(board.tree) :
        NoWrap(e) => \A a \in Cover(free) : ~Spans(e, a)

\* Frames of the firmware, which lies below the kernel in the kernel's bank, are
\* never handed out (MemoryContract_v0.md:41); free memory starts at
\* first_free_frame (MemoryContract_v0.md:45).
FirmwareNeverFree ==
    Built => \A e \in Range(platform.memory) :
        Spans(e, KernelStart) => \A a \in e.base .. KernelStart - 1 : a \notin Cover(free)
=============================================================================
