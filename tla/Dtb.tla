-------------------------------- MODULE Dtb --------------------------------
(***************************************************************************)
(* The queries of src/libs/dtb/dtb.c, as functions of the tree.  An answer *)
(* is a record: err, "ok" or the name of the libfdt error, and what the    *)
(* call stored.  A cell is a number below CellSpan (2^32 in the program).  *)
(***************************************************************************)
EXTENDS DeviceTree, SequencesExt

CONSTANTS
    CellSpan,            \* number of values of a cell
    DTB_MAX_REGS,
    DTB_MAX_MEM_REGIONS

ASSUME DtbAssumption ==
    /\ CellSpan \in Nat \ {0, 1}
    /\ DTB_MAX_REGS \in Nat \ {0}
    /\ DTB_MAX_MEM_REGIONS \in Nat \ {0}

min_int(a, b) == IF a < b THEN a ELSE b

compat_has(t, node, needle) == \E q \in DOMAIN CompatOf(t, node) : CompatOf(t, node)[q] = needle

node_is_device(t, node) == CompatOf(t, node) # <<>>

node_is_enabled(t, node) == HasProp(t, node, "status") => Prop(t, node, "status") # "disabled"

node_is_cpu(t, node) == HasProp(t, node, "device_type") /\ Prop(t, node, "device_type") = "cpu"

node_is_memory(t, node) == HasProp(t, node, "device_type") /\ Prop(t, node, "device_type") = "memory"

-----------------------------------------------------------------------------
(* The reg property.  It is an array of entries, each as many cells as the  *)
(* parent says: one or two for the address, none to two for the size.       *)

\* read_cells_u64 of one or two cells.
read_cells_u64(cells, first, count) ==
    IF count = 1 THEN cells[first] ELSE cells[first] * CellSpan + cells[first + 1]

Naddr(t, node) == fdt_address_cells(t, fdt_parent_offset(t, node))
Nsize(t, node) == fdt_size_cells(t, fdt_parent_offset(t, node))

\* What makes both decoders give up before they look at reg.
RegError(t, node) ==
    CASE fdt_parent_offset(t, node) = NoOffset -> "notfound"
      [] fdt_parent_offset(t, node) # NoOffset
         /\ ~(Naddr(t, node) \in 1 .. 2 /\ Nsize(t, node) \in 0 .. 2) -> "badncells"
      [] OTHER -> "ok"

RegEntries(t, node) == Len(Prop(t, node, "reg")) \div (Naddr(t, node) + Nsize(t, node))

Failed(error) == [err |-> error, base |-> 0, size |-> 0]

\* decode_reg_entry_with_parent and dtb_decode_reg; index counts from 0.
dtb_decode_reg(t, node, index) ==
    IF RegError(t, node) # "ok" THEN Failed(RegError(t, node))
    ELSE IF ~HasProp(t, node, "reg") THEN Failed("notfound")
    ELSE IF index >= RegEntries(t, node) THEN Failed("notfound")
    ELSE LET reg   == Prop(t, node, "reg")
             naddr == Naddr(t, node)
             nsize == Nsize(t, node)
             entry == index * (naddr + nsize) + 1
         IN  [err |-> "ok", base |-> read_cells_u64(reg, entry, naddr),
              size |-> IF nsize = 0 THEN 0 ELSE read_cells_u64(reg, entry + naddr, nsize)]

EntryAt(t, node, index) ==
    LET e == dtb_decode_reg(t, node, index) IN [base |-> e.base, size |-> e.size]

\* decode_reg_list with a buffer of cap entries: no reg at all is no error.
decode_reg_list(t, node, cap) ==
    IF RegError(t, node) # "ok" THEN [err |-> RegError(t, node), list |-> <<>>]
    ELSE IF ~HasProp(t, node, "reg") THEN [err |-> "ok", list |-> <<>>]
    ELSE LET entries == RegEntries(t, node)
         IN  [err  |-> IF entries > cap THEN "nospace" ELSE "ok",
              list |-> [q \in 1 .. min_int(entries, cap) |-> EntryAt(t, node, q - 1)]]

-----------------------------------------------------------------------------
(* Memory, reservations and devices of the whole tree.                      *)

\* Mistake to be noticed: of every node only the first entry is read.
RegsOfAll_firstEntry(t, S) ==
    FlattenSeq([k \in DOMAIN t |-> IF k \in S THEN decode_reg_list(t, k, 1).list ELSE <<>>])

\* Of every node of S, in the order of the tree, the first DTB_MAX_REGS entries.
RegsOfAll(t, S) ==
    FlattenSeq([k \in DOMAIN t |->
        IF k \in S THEN decode_reg_list(t, k, DTB_MAX_REGS).list ELSE <<>>])

\* Collecting stops at the first node of S whose error is not tolerated; what
\* does not fit is counted and dropped.
Collected(t, S, tolerated, cap) ==
    LET fatal == {k \in S : decode_reg_list(t, k, DTB_MAX_REGS).err \notin tolerated}
        all   == RegsOfAll(t, S)
    IN  IF fatal # {} THEN [err |-> decode_reg_list(t, Min(fatal), DTB_MAX_REGS).err, list |-> <<>>]
        ELSE [err |-> IF Len(all) > cap THEN "nospace" ELSE "ok",
              list |-> SubSeq(all, 1, min_int(Len(all), cap))]

MemoryNodes(t) == {k \in DOMAIN t : node_is_memory(t, k)}

\* dtb_memory_regions; a disabled node counts like any other.
dtb_memory_regions(t, cap) == Collected(t, MemoryNodes(t), {"ok", "nospace"}, cap)

ReservedNodes(t) == Children(t, fdt_path_offset(t, "reserved-memory"))

\* dtb_reserved_memory_regions.
dtb_reserved_memory_regions(t, cap) ==
    IF fdt_path_offset(t, "reserved-memory") = NoOffset THEN [err |-> "notfound", list |-> <<>>]
    ELSE Collected(t, ReservedNodes(t), {"ok", "nospace", "notfound"}, cap)

\* dtb_get_memory: the first region stands for the main bank.
dtb_get_memory(t) ==
    LET m == dtb_memory_regions(t, DTB_MAX_MEM_REGIONS)
    IN  IF m.err # "ok" THEN Failed(m.err)
        ELSE IF m.list = <<>> THEN Failed("notfound")
        ELSE [err |-> "ok", base |-> m.list[1].base, size |-> m.list[1].size]

\* Mistake to be noticed: only the main bank counts.
dtb_memory_total_mainBank(t) == dtb_get_memory(t).size

\* dtb_memory_total: the sum wraps.  total[k] is *bytes after k regions.
dtb_memory_total(t) ==
    LET regs == dtb_memory_regions(t, DTB_MAX_MEM_REGIONS).list
        total[k \in 0 .. Len(regs)] ==
            IF k = 0 THEN 0 ELSE (total[k - 1] + regs[k].size) % (CellSpan * CellSpan)
    IN  total[Len(regs)]

\* The register blocks that mm_collect_dtb_mmio_regions looks at: the first
\* DTB_MAX_REGS of every node with a compatible string, disabled or not.
MmioBlocks(t) == RegsOfAll(t, {k \in DOMAIN t : node_is_device(t, k)})
=============================================================================
