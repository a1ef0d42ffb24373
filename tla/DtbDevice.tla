----------------------------- MODULE DtbDevice -----------------------------
(***************************************************************************)
(* The queries of src/libs/dtb/dtb.c about single nodes: cpus, devices and *)
(* their interrupts, interrupt controllers, timers, clocks and buses.  As  *)
(* in Dtb an answer is a record with err; a field the C code leaves NULL   *)
(* is Null.                                                                *)
(***************************************************************************)
EXTENDS Dtb

CONSTANTS
    DTB_MAX_IRQS,
    DTB_MAX_REFS

\* Half of the values of a cell are negative as ints.
ASSUME DeviceAssumption ==
    /\ DTB_MAX_IRQS \in Nat \ {0} /\ DTB_MAX_REFS \in Nat \ {0}
    /\ CellSpan % 2 = 0 /\ CellSpan # 2

Null == "null"

\* get_u32_prop: the first cell.
get_u32_prop(t, node, name) ==
    LET cells == PropOf(t, node, name, <<>>)
    IN  CASE ~HasProp(t, node, name) -> [err |-> "notfound", val |-> 0]
          [] HasProp(t, node, name) /\ cells = <<>> -> [err |-> "badvalue", val |-> 0]
          [] OTHER -> [err |-> "ok", val |-> cells[1]]

prop_exists(t, node, name) == HasProp(t, node, name)

\* first_compat.
first_compat(t, node) == IF CompatOf(t, node) = <<>> THEN Null ELSE CompatOf(t, node)[1]

\* find_any_compatible: the first string of the list that some node has decides.
find_any_compatible(t, strings) ==
    LET hits == {q \in DOMAIN strings : fdt_node_offset_by_compatible(t, NoOffset, strings[q]) # NoOffset}
    IN  IF hits = {} THEN NoOffset
        ELSE fdt_node_offset_by_compatible(t, NoOffset, strings[Min(hits)])

dtb_detect_plic(t) == find_any_compatible(t, <<"riscv,plic0", "sifive,plic-1.0.0">>)
dtb_detect_clint(t) == find_any_compatible(t, <<"riscv,clint0", "sifive,clint0">>)
dtb_detect_imsic(t) == find_any_compatible(t, <<"riscv,imsics">>)
dtb_get_timer_node(t) ==
    find_any_compatible(t, <<"riscv,timer", "riscv,clint0", "riscv,aclint-mtimer">>)

\* dtb_get_timebase.
dtb_get_timebase(t) == get_u32_prop(t, fdt_path_offset(t, "cpus"), "timebase-frequency")

-----------------------------------------------------------------------------
(* Cpus.                                                                    *)

\* The hartid is 0 when the reg cannot be decoded, and its low 32 bits otherwise.
HartidOf(t, node) == dtb_decode_reg(t, node, 0).base % CellSpan

\* dtb_cpu_read of a node that node_is_cpu accepts.
dtb_cpu_read(t, node) ==
    [hartid |-> HartidOf(t, node),
     isa |-> PropOf(t, node, "isa", Null),
     mmu_type |-> PropOf(t, node, "mmu-type", Null),
     riscv_isa |-> PropOf(t, node, "riscv,isa", Null),
     svinval |-> prop_exists(t, node, "riscv,svinval"),
     status |-> PropOf(t, node, "status", "okay")]

Cpus(t) == {k \in Children(t, fdt_path_offset(t, "cpus")) : node_is_cpu(t, k)}

EnabledCpus(t) == {k \in Cpus(t) : node_is_enabled(t, k)}

\* dtb_get_cpu_count.
dtb_get_cpu_count(t) ==
    IF fdt_path_offset(t, "cpus") = NoOffset THEN [err |-> "notfound", count |-> 0]
    ELSE [err |-> "ok", count |-> Cardinality(EnabledCpus(t))]

IsHart(t, node, hartid) ==
    /\ node_is_cpu(t, node)
    /\ dtb_decode_reg(t, node, 0).err = "ok"
    /\ HartidOf(t, node) = hartid

\* dtb_cpu_find_hart: also a disabled cpu.
dtb_cpu_find_hart(t, hartid) == FirstOf({k \in Cpus(t) : IsHart(t, k, hartid)})

-----------------------------------------------------------------------------
(* Interrupts and other references of a device.                             *)

\* A uint32_t brought into an int.
ToInt(cell) == IF 2 * cell >= CellSpan THEN cell - CellSpan ELSE cell

\* get_interrupt_cells_for_parent as dtb_device_read uses it: its error is not
\* looked at, and irq_cells stays 1.
InterruptCells(t, phandle) ==
    LET node == fdt_node_offset_by_phandle(t, phandle, CellSpan - 1)
        read == get_u32_prop(t, node, "#interrupt-cells")
    IN  IF read.err = "ok" THEN ToInt(read.val) ELSE 1

\* The irqs of dtb_device_read: the cells of "interrupts" in groups, of which the
\* first cell is the number; what DTB_MAX_IRQS does not hold is left out.
DeviceIrqs(t, node, phandle, cells) ==
    LET interrupts == PropOf(t, node, "interrupts", <<>>)
        groups == IF cells > 0 THEN Len(interrupts) \div cells ELSE 0
    IN  [q \in 1 .. min_int(groups, DTB_MAX_IRQS) |->
            [irq |-> interrupts[(q - 1) * cells + 1], parent_phandle |-> phandle, cells |-> cells]]

\* read_ref_list.
read_ref_list(t, node, name, cap) ==
    LET cells == PropOf(t, node, name, <<>>)
    IN  [err |-> IF Len(cells) > cap THEN "nospace" ELSE "ok",
         list |-> SubSeq(cells, 1, min_int(Len(cells), cap))]

\* dtb_get_device_clocks.
dtb_get_device_clocks(t, node, cap) == read_ref_list(t, node, "clocks", cap)

\* dtb_device_read, given what its walk to the interrupt parent found.
DeviceRead(t, node, phandle, cells) ==
    LET refs(name) == read_ref_list(t, node, name, DTB_MAX_REFS).list
    IN  [node |-> node, name |-> t[node].name, compatible |-> first_compat(t, node),
         regs |-> decode_reg_list(t, node, DTB_MAX_REGS).list,
         irqs |-> DeviceIrqs(t, node, phandle, cells),
         clocks |-> refs("clocks"), resets |-> refs("resets"),
         dmas |-> refs("dmas"), gpios |-> refs("gpios")]

-----------------------------------------------------------------------------
(* Interrupt controllers.                                                   *)

ControllerType(t, node) ==
    CASE compat_has(t, node, "riscv,plic0") \/ compat_has(t, node, "sifive,plic-1.0.0") -> "plic"
      [] compat_has(t, node, "riscv,clint0") -> "clint"
      [] compat_has(t, node, "riscv,imsics") -> "imsic"
      [] OTHER -> "unknown"

\* dtb_interrupt_controller_read of a node with "interrupt-controller"; a missing
\* phandle or cell count is 0.
dtb_interrupt_controller_read(t, node) ==
    [node |-> node, type |-> ControllerType(t, node),
     phandle |-> get_u32_prop(t, node, "phandle").val,
     interrupt_cells |-> get_u32_prop(t, node, "#interrupt-cells").val,
     regs |-> decode_reg_list(t, node, DTB_MAX_REGS).list]

-----------------------------------------------------------------------------
(* Buses.                                                                   *)

dtb_is_simple_bus(t, node) == compat_has(t, node, "simple-bus")

\* dtb_bus_info.
dtb_bus_info(t, node) ==
    [err |-> IF BadCells \in {fdt_address_cells(t, node), fdt_size_cells(t, node)}
             THEN "badncells" ELSE "ok",
     addr_cells |-> fdt_address_cells(t, node), size_cells |-> fdt_size_cells(t, node),
     has_ranges |-> prop_exists(t, node, "ranges")]

\* The windows of "ranges": child base, parent base and size, in cells of the bus,
\* of its parent, and of the bus.
WindowCells(t, node) ==
    [child |-> fdt_address_cells(t, node),
     parent |-> fdt_address_cells(t, fdt_parent_offset(t, node)),
     size |-> fdt_size_cells(t, node)]

Windows(t, node) ==
    LET c == WindowCells(t, node)
        ranges == PropOf(t, node, "ranges", <<>>)
        stride == c.child + c.parent + c.size
        window(first) == [cbase |-> read_cells_u64(ranges, first, c.child),
                          pbase |-> read_cells_u64(ranges, first + c.child, c.parent),
                          size |-> read_cells_u64(ranges, first + c.child + c.parent, c.size)]
    IN  [q \in 1 .. Len(ranges) \div stride |-> window((q - 1) * stride + 1)]

\* What makes dtb_translate_ranges give up before it looks at ranges.
TranslateError(t, node) ==
    CASE fdt_parent_offset(t, node) = NoOffset -> "notfound"
      [] fdt_parent_offset(t, node) # NoOffset
         /\ \E cells \in Range(WindowCells(t, node)) : cells \notin 1 .. 2 -> "badncells"
      [] OTHER -> "ok"
=============================================================================
