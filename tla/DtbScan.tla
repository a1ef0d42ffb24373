------------------------------ MODULE DtbScan ------------------------------
(***************************************************************************)
(* The calls of src/libs/dtb/dtb.c that walk the tree, one action per node *)
(* they come to.  A call is chosen once and runs to its end; the devices   *)
(* call is the loop of dtb_device_first and dtb_device_next by which a     *)
(* client sees all devices, and the compatible call that of                *)
(* dtb_find_compatible and dtb_find_compatible_n.                          *)
(***************************************************************************)
EXTENDS DtbDevice

CONSTANTS
    Inputs,   \* the [tree, call, cap, node, addr] a run starts from
    BootHart, \* the hartid that dtb_cpu_find_hart looks for
    Needle    \* the string that dtb_find_compatible looks for

Calls == {"memory", "reserved", "controllers", "cpu_count", "cpu_list", "find_hart",
          "devices", "compatible", "bus", "interrupts", "translate"}

ASSUME InputAssumption ==
    \A in \in Inputs :
        /\ IsTree(in.tree) /\ in.call \in Calls /\ in.cap \in Nat \ {0}
        /\ IsNode(in.tree, in.node) /\ in.addr \in 0 .. CellSpan * CellSpan - 1

\* Interrupts and windows are given in cells.
ASSUME ScanCellsAssumption ==
    \A in \in Inputs : \A k \in DOMAIN in.tree :
        \A name \in {"interrupts", "interrupt-parent", "#interrupt-cells", "ranges"} :
            HasProp(in.tree, k, name) => Prop(in.tree, k, name) \in Seq(0 .. CellSpan - 1)

VARIABLES
    tree, call, cap,  \* the input
    node, addr,       \* the node and the address a call about one node is given
    off,              \* the offset the loop is at
    depth,            \* the depth counter handed to fdt_next_node
    n,                \* how many were found, those that did not fit included; in
                      \* dtb_translate_ranges the loop index
    arr,              \* what was stored
    status            \* "start", "loop", "found" between two calls, or the result

inputVars == <<tree, call, cap, node, addr>>
scanVars == <<tree, call, cap, node, addr, off, depth, n, arr, status>>

Results == {"ok", "nospace", "notfound", "badncells"}

Returned == status \in Results

ScanInit ==
    /\ \E in \in Inputs : /\ tree = in.tree /\ call = in.call /\ cap = in.cap
                        /\ node = in.node /\ addr = in.addr
    /\ off = NoOffset /\ depth = -1 /\ n = 0 /\ arr = <<>> /\ status = "start"

-----------------------------------------------------------------------------
(* Stepping through the tree.                                               *)

ByNextNode == {"memory", "controllers", "devices"}
ByPath == {"reserved", "bus", "cpu_count", "cpu_list", "find_hart"}

Parent(c) == CASE c = "reserved" -> "reserved-memory"
               [] c = "bus" -> "soc"
               [] OTHER -> "cpus"

\* The first offset: the root, or the first child of the node looked up by path.
Start ==
    /\ status = "start" /\ call \in ByNextNode \cup ByPath
    /\ IF call \in ByNextNode
       THEN /\ off' = fdt_next_node(tree, NoOffset, -1).off
            /\ depth' = fdt_next_node(tree, NoOffset, -1).depth
            /\ status' = "loop"
       ELSE LET top == fdt_path_offset(tree, Parent(call))
            IN  /\ status' = IF top = NoOffset THEN "notfound" ELSE "loop"
                /\ off' = IF top = NoOffset THEN NoOffset ELSE fdt_first_subnode(tree, top)
                /\ UNCHANGED depth
    /\ UNCHANGED <<n, arr>> /\ UNCHANGED inputVars

NextNode == /\ off' = fdt_next_node(tree, off, depth).off
            /\ depth' = fdt_next_node(tree, off, depth).depth

NextSubnode == off' = fdt_next_subnode(tree, off) /\ UNCHANGED depth

Go == status = "loop" /\ off # NoOffset

\* Mistakes to be noticed: the buffer's length is not looked at; what does not
\* fit is not counted.
Store_unbounded(entries) == arr' = arr \o entries /\ n' = n + Len(entries)
Store_countsStored(entries) ==
    /\ arr' = SubSeq(arr \o entries, 1, min_int(Len(arr) + Len(entries), cap))
    /\ n' = Len(arr')

\* Entries that do not fit are counted and not stored.
Store(entries) ==
    /\ arr' = SubSeq(arr \o entries, 1, min_int(Len(arr) + Len(entries), cap))
    /\ n' = n + Len(entries)

Nothing == UNCHANGED <<n, arr>>

StoreRegs(tolerated) ==
    LET regs == decode_reg_list(tree, off, DTB_MAX_REGS)
    IN  IF regs.err \in tolerated THEN Store(regs.list) /\ UNCHANGED status
        ELSE Nothing /\ status' = regs.err

\* dtb_memory_regions: a node.
MemoryNode ==
    /\ Go /\ call = "memory"
    /\ IF node_is_memory(tree, off) THEN StoreRegs({"ok", "nospace"}) ELSE Nothing /\ UNCHANGED status
    /\ NextNode
    /\ UNCHANGED inputVars

\* dtb_reserved_memory_regions: a child of /reserved-memory.
ReservedNode ==
    /\ Go /\ call = "reserved"
    /\ StoreRegs({"ok", "nospace", "notfound"})
    /\ NextSubnode
    /\ UNCHANGED inputVars

\* dtb_interrupt_controllers_scan: a node.
ControllerNode ==
    /\ Go /\ call = "controllers"
    /\ IF HasProp(tree, off, "interrupt-controller") THEN Store(<<dtb_interrupt_controller_read(tree, off)>>) ELSE Nothing
    /\ NextNode
    /\ UNCHANGED status /\ UNCHANGED inputVars

\* dtb_get_cpu_count: a child of /cpus.
CpuCounted ==
    /\ Go /\ call = "cpu_count"
    /\ n' = IF node_is_cpu(tree, off) /\ node_is_enabled(tree, off) THEN n + 1 ELSE n
    /\ NextSubnode
    /\ UNCHANGED <<arr, status>> /\ UNCHANGED inputVars

\* dtb_cpu_list: a child of /cpus.
CpuListed ==
    /\ Go /\ call = "cpu_list"
    /\ IF node_is_cpu(tree, off) /\ node_is_enabled(tree, off)
       THEN Store(<<dtb_cpu_read(tree, off)>>) ELSE Nothing
    /\ NextSubnode
    /\ UNCHANGED status /\ UNCHANGED inputVars

\* Mistake to be noticed: a cpu whose reg cannot be decoded is tried again.
CpuTried_triesAgain ==
    /\ Go /\ call = "find_hart"
    /\ IF IsHart(tree, off, BootHart)
       THEN Store(<<off>>) /\ status' = "ok" /\ UNCHANGED <<off, depth>>
       ELSE /\ IF dtb_decode_reg(tree, off, 0).err = "ok" THEN NextSubnode
               ELSE UNCHANGED <<off, depth>>
            /\ Nothing /\ UNCHANGED status
    /\ UNCHANGED inputVars

\* dtb_cpu_find_hart: a child of /cpus, disabled or not.
CpuTried ==
    /\ Go /\ call = "find_hart"
    /\ IF IsHart(tree, off, BootHart)
       THEN Store(<<off>>) /\ status' = "ok" /\ UNCHANGED <<off, depth>>
       ELSE NextSubnode /\ Nothing /\ UNCHANGED status
    /\ UNCHANGED inputVars

\* A node in dtb_device_first or dtb_device_next.
DeviceTried ==
    /\ Go /\ call = "devices"
    /\ IF node_is_device(tree, off) /\ node_is_enabled(tree, off)
       THEN Store(<<off>>) /\ status' = "found" /\ UNCHANGED <<off, depth>>
       ELSE NextNode /\ Nothing /\ UNCHANGED status
    /\ UNCHANGED inputVars

\* Mistake to be noticed: the search begins with the last device itself.
DeviceNext_again ==
    /\ status = "found" /\ call = "devices"
    /\ status' = "loop"
    /\ UNCHANGED <<off, depth, n, arr>> /\ UNCHANGED inputVars

\* dtb_device_next is entered with the last device: its depth counter is new.
DeviceNext ==
    /\ status = "found" /\ call = "devices"
    /\ off' = fdt_next_node(tree, off, 0).off
    /\ depth' = fdt_next_node(tree, off, 0).depth
    /\ status' = "loop"
    /\ UNCHANGED <<n, arr>> /\ UNCHANGED inputVars

\* dtb_bus_walk: a child of the bus, each found by a call of its own.
BusChild ==
    /\ Go /\ call = "bus"
    /\ Store(<<off>>)
    /\ NextSubnode
    /\ UNCHANGED status /\ UNCHANGED inputVars

\* dtb_find_compatible, and dtb_find_compatible_n from its last answer.
CompatibleTried ==
    /\ status \in {"start", "found"} /\ call = "compatible"
    /\ LET next == fdt_node_offset_by_compatible(tree, off, Needle)
       IN  IF next = NoOffset THEN status' = "ok" /\ UNCHANGED off /\ Nothing
           ELSE status' = "found" /\ off' = next /\ Store(<<next>>)
    /\ UNCHANGED depth /\ UNCHANGED inputVars

-----------------------------------------------------------------------------
(* dtb_interrupt_map_device of node.                                        *)

\* Mistake to be noticed: the device's own interrupt-parent is passed over.
StartInterrupts_fromParent ==
    /\ status = "start" /\ call = "interrupts"
    /\ LET err == decode_reg_list(tree, node, DTB_MAX_REGS).err
       IN  IF err \in {"ok", "nospace"} THEN status' = "loop" /\ off' = fdt_parent_offset(tree, node)
           ELSE status' = err /\ UNCHANGED off
    /\ Nothing /\ UNCHANGED depth /\ UNCHANGED inputVars

\* dtb_device_read up to get_interrupt_parent, which begins at the node itself.
StartInterrupts ==
    /\ status = "start" /\ call = "interrupts"
    /\ LET err == decode_reg_list(tree, node, DTB_MAX_REGS).err
       IN  IF err \in {"ok", "nospace"} THEN status' = "loop" /\ off' = node
           ELSE status' = err /\ UNCHANGED off
    /\ Nothing /\ UNCHANGED depth /\ UNCHANGED inputVars

\* get_interrupt_parent: a node without the property, and on to its parent.
AskAbove ==
    /\ Go /\ call = "interrupts"
    /\ get_u32_prop(tree, off, "interrupt-parent").err = "notfound"
    /\ off' = fdt_parent_offset(tree, off)
    /\ Nothing /\ UNCHANGED <<depth, status>> /\ UNCHANGED inputVars

\* The rest of dtb_device_read, and what dtb_interrupt_map_device hands out of it.
MapInterrupts(parent) ==
    LET cells == IF parent.err = "ok" THEN InterruptCells(tree, parent.val) ELSE 1
        irqs == DeviceRead(tree, node, parent.val, cells).irqs
    IN  /\ Store(irqs)
        /\ status' = IF Len(irqs) > cap THEN "nospace" ELSE "ok"

\* The walk has found the property, readable or not, or has left the root.
InterruptsRead ==
    /\ call = "interrupts" /\ status = "loop"
    /\ off = NoOffset \/ get_u32_prop(tree, off, "interrupt-parent").err # "notfound"
    /\ MapInterrupts(get_u32_prop(tree, off, "interrupt-parent"))
    /\ UNCHANGED <<off, depth>> /\ UNCHANGED inputVars

-----------------------------------------------------------------------------
(* dtb_translate_ranges of addr on the bus node.                            *)

AddressSpan == CellSpan * CellSpan

\* Without windows an address is the same on both sides.
StartTranslate ==
    /\ status = "start" /\ call = "translate"
    /\ LET err == TranslateError(tree, node)
           plain == PropOf(tree, node, "ranges", <<>>) = <<>>
       IN  /\ status' = IF err # "ok" \/ plain THEN err ELSE "loop"
           /\ arr' = IF err = "ok" /\ plain THEN <<addr>> ELSE arr
    /\ UNCHANGED <<off, depth, n>> /\ UNCHANGED inputVars

\* Mistake to be noticed: the first address behind a window belongs to it.
InWindow_closedEnd(w) == w.cbase <= addr /\ addr <= (w.cbase + w.size) % AddressSpan

\* The end wraps.
InWindow(w) == w.cbase <= addr /\ addr < (w.cbase + w.size) % AddressSpan

WindowTried ==
    /\ status = "loop" /\ call = "translate" /\ n < Len(Windows(tree, node))
    /\ LET w == Windows(tree, node)[n + 1]
       IN  IF InWindow(w)
           THEN /\ arr' = <<(w.pbase + (addr - w.cbase)) % AddressSpan>> /\ status' = "ok"
                /\ UNCHANGED n
           ELSE n' = n + 1 /\ UNCHANGED <<arr, status>>
    /\ UNCHANGED <<off, depth>> /\ UNCHANGED inputVars

NoWindow ==
    /\ status = "loop" /\ call = "translate" /\ n = Len(Windows(tree, node))
    /\ status' = "notfound"
    /\ UNCHANGED <<off, depth, n, arr>> /\ UNCHANGED inputVars

-----------------------------------------------------------------------------
\* The loop has run out of nodes: the count is cut to what was stored.
Return ==
    /\ status = "loop" /\ off = NoOffset /\ call \in ByNextNode \cup ByPath
    /\ status' = CASE call = "find_hart" -> "notfound"
                   [] call \in {"cpu_count", "devices", "bus"} -> "ok"
                   [] OTHER -> IF n > cap THEN "nospace" ELSE "ok"
    /\ UNCHANGED <<off, depth, n, arr>> /\ UNCHANGED inputVars

Finished == Returned /\ UNCHANGED scanVars

ScanNext ==
    \/ Start \/ MemoryNode \/ ReservedNode \/ ControllerNode \/ CpuCounted \/ CpuListed
    \/ CpuTried \/ DeviceTried \/ DeviceNext \/ BusChild \/ CompatibleTried \/ Return
    \/ StartInterrupts \/ AskAbove \/ InterruptsRead
    \/ StartTranslate \/ WindowTried \/ NoWindow
    \/ Finished

ScanSpec == ScanInit /\ [][ScanNext]_scanVars /\ WF_scanVars(ScanNext)

-----------------------------------------------------------------------------
Stored == CASE call \in {"memory", "reserved"} -> [base : Nat, size : Nat]
            [] call = "interrupts" -> [irq : Nat, parent_phandle : Nat, cells : Nat \ {0}]
            [] call = "controllers" -> {dtb_interrupt_controller_read(tree, k) : k \in DOMAIN tree}
            [] call = "cpu_list" -> {dtb_cpu_read(tree, k) : k \in DOMAIN tree}
            [] OTHER -> Nat

ScanTypeOK ==
    /\ IsTree(tree) /\ call \in Calls /\ cap \in Nat \ {0}
    /\ off \in {NoOffset} \cup 1 .. Len(tree) + 1
    /\ depth \in Int
    /\ n \in Nat /\ Len(arr) <= IF call = "translate" THEN 1 ELSE min_int(n, cap)
    /\ arr \in Seq(Stored)
    /\ status \in Results \cup {"start", "loop", "found"}

Cut(s) == SubSeq(s, 1, min_int(Len(s), cap))

InTreeOrder(S, read(_)) ==
    FlattenSeq([k \in DOMAIN tree |-> IF k \in S THEN <<read(k)>> ELSE <<>>])

InOrder(S) == InTreeOrder(S, LAMBDA k : k)

\* A call that fails gives no count, so what it stored is not seen.
Handed == IF status \in {"ok", "nospace"} THEN arr ELSE <<>>

ControllersOf(t) == {k \in DOMAIN t : HasProp(t, k, "interrupt-controller")}

\* The answer is all of it, cut to the buffer, and NOSPACE exactly when it was cut.
Gives(all) == arr = Cut(all) /\ status = IF Len(all) > cap THEN "nospace" ELSE "ok"

\* No node of S has more reg entries than one node may have.
NodesFit(S) == \A k \in S : decode_reg_list(tree, k, DTB_MAX_REGS).err # "nospace"

NoneDisabled(S) == \A k \in S : node_is_enabled(tree, k)

\* A scan with the depth counter of the code, which is thrown away, still comes
\* to every node of the tree: the loops over fdt_next_node and over subnodes
\* answer what the whole tree holds, cut to the buffer, with NOSPACE exactly when
\* it was.  Nothing is said where comments of the repository ask for another
\* answer: of the result when one node alone has too many entries (dtb.h:8-12), and
\* of disabled children of /reserved-memory or disabled cpus sought (dtb.c:370).
ScansAnswer ==
    /\ Returned /\ call = "memory" /\ NodesFit(MemoryNodes(tree)) =>
        dtb_memory_regions(tree, cap) = [err |-> status, list |-> Handed]
    /\ Returned /\ call = "reserved" /\ NodesFit(ReservedNodes(tree)) /\ NoneDisabled(ReservedNodes(tree)) =>
        dtb_reserved_memory_regions(tree, cap) = [err |-> status, list |-> Handed]
    /\ Returned /\ call = "controllers" =>
        Gives(InTreeOrder(ControllersOf(tree), LAMBDA k : dtb_interrupt_controller_read(tree, k)))
    /\ Returned /\ call = "cpu_count" => dtb_get_cpu_count(tree) = [err |-> status, count |-> n]
    /\ Returned /\ call = "cpu_list" =>
        IF fdt_path_offset(tree, "cpus") = NoOffset THEN status = "notfound" /\ arr = <<>>
        ELSE Gives(InTreeOrder(EnabledCpus(tree), LAMBDA k : dtb_cpu_read(tree, k)))
    /\ Returned /\ call = "find_hart" /\ NoneDisabled({k \in Cpus(tree) : IsHart(tree, k, BootHart)}) =>
        arr = (IF status = "ok" THEN <<dtb_cpu_find_hart(tree, BootHart)>> ELSE <<>>)
        /\ (status = "notfound" <=> dtb_cpu_find_hart(tree, BootHart) = NoOffset)
    /\ status = "ok" /\ call = "bus" => arr = Cut(InOrder(Children(tree, fdt_path_offset(tree, "soc"))))
    /\ status = "ok" /\ call = "compatible" =>
        arr = Cut(InOrder({k \in DOMAIN tree : compat_has(tree, k, Needle)}))

\* Asking for the next device never goes back and never repeats one: a client's
\* loop over all devices ends.
DevicesAscend ==
    call = "devices" =>
        /\ \A p, q \in DOMAIN arr : p < q => arr[p] < arr[q]
        /\ \A p \in DOMAIN arr : node_is_device(tree, arr[p]) /\ node_is_enabled(tree, arr[p])

\* The interrupts of a device are cut into groups as its controller says, the
\* controller being the one named by the nearest node at or above the device, and
\* agree with the cell count that the controller scan reports for it; where the
\* name leads to no node or no count is given a group is one cell (dtb.c:206-225),
\* and where the count is no positive int there is none (dtb.c:653).
\* What the caller's buffer does not hold is reported.  Nothing is said of the
\* result for a device with more interrupts than DTB_MAX_IRQS: dtb.h:8-12 and
\* dtb.c:803 ask for NOSPACE, dtb.c:656 and 829 cut them off without a word.
AtOrAbove(k) == {a \in 1 .. k : \A b \in a + 1 .. k : tree[b].depth > tree[a].depth}

Naming == {a \in AtOrAbove(node) : HasProp(tree, a, "interrupt-parent")}

\* The name: 0, which names nothing, where none is given.
Name == IF Naming = {} THEN 0
        ELSE LET cells == Prop(tree, Max(Naming), "interrupt-parent")
             IN  IF cells = <<>> THEN 0 ELSE cells[1]

Named == {k \in DOMAIN tree : /\ Name \notin {0, CellSpan - 1}
                              /\ PropOf(tree, k, "phandle", <<>>) = <<Name>>}

Group == IF Named = {} \/ PropOf(tree, Min(Named), "#interrupt-cells", <<>>) = <<>> THEN 1
         ELSE dtb_interrupt_controller_read(tree, Min(Named)).interrupt_cells

InterruptsGrouped ==
    call = "interrupts" /\ status \in {"ok", "nospace"} =>
        LET cells  == PropOf(tree, node, "interrupts", <<>>)
            groups == IF Group \in 1 .. CellSpan \div 2 - 1 THEN Len(cells) \div Group ELSE 0
            kept   == min_int(groups, DTB_MAX_IRQS)
        IN  /\ [q \in DOMAIN arr |-> arr[q].irq] =
                   [q \in 1 .. min_int(kept, cap) |-> cells[(q - 1) * Group + 1]]
            /\ groups <= DTB_MAX_IRQS => (status = "nospace" <=> groups > cap)

\* An address is translated by a window that holds it, and by no other, and is not
\* found where none does; by the earliest of those windows, if the end of none of
\* them wraps.  Nothing is said of which, if any, takes an address held by a window
\* that reaches the top of the address space: dtb.c:468 has it found there, dtb.c:544
\* passes the window over.  A bus without windows leaves an address as it is.
Holds(w, a) == w.cbase <= a /\ a < w.cbase + w.size

ReachesTop(w) == w.cbase + w.size >= AddressSpan

Through(w) == (w.pbase + (addr - w.cbase)) % AddressSpan

Holding == {q \in DOMAIN Windows(tree, node) : Holds(Windows(tree, node)[q], addr)}

TranslationRight ==
    call = "translate" /\ status \in {"ok", "notfound"} /\ fdt_parent_offset(tree, node) # NoOffset =>
        IF ~dtb_bus_info(tree, node).has_ranges \/ Prop(tree, node, "ranges") = <<>>
        THEN status = "ok" /\ arr = <<addr>>
        ELSE /\ status = "ok" => \E q \in Holding : arr = <<Through(Windows(tree, node)[q])>>
             /\ Holding # {} /\ (\A q \in Holding : ~ReachesTop(Windows(tree, node)[q])) =>
                  status = "ok" /\ arr = <<Through(Windows(tree, node)[Min(Holding)])>>

\* Every call returns, whatever the shape of the tree.
ScansReturn == <>Returned

-----------------------------------------------------------------------------
\* The loop of dtb_device_first and dtb_device_next sees every enabled device of
\* the tree (dtb.c:558, dtb.c:587-589).
SeesEveryDevice ==
    Returned /\ call = "devices" =>
        n = Cardinality({k \in DOMAIN tree : node_is_device(tree, k) /\ node_is_enabled(tree, k)})
=============================================================================
