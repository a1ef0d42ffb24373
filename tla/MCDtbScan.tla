----------------------------- MODULE MCDtbScan -----------------------------
(***************************************************************************)
(* Trees for the scans: for the device loop every shape of up to five nodes*)
(* with every choice of devices among them; for the other calls some trees *)
(* with memory, reservations, controllers and cpus at different depths,    *)
(* more entries than fit, and wrong cell counts.                           *)
(***************************************************************************)
EXTENDS DtbScan, TLC

Node(d, name, props) == [depth |-> d, name |-> name, props |-> props]

NoProps == [x \in {} |-> 0]

\* Every tree of five nodes; the nodes are devices, disabled devices or neither.
MCShapes == {s \in [1 .. 5 -> 0 .. 4] : s[1] = 0 /\ \A k \in 2 .. 5 : s[k] \in 1 .. s[k - 1] + 1}

MCProps == {NoProps, "compatible" :> <<"dev">>,
            ("compatible" :> <<"dev">>) @@ ("status" :> "disabled")}

MCDeviceTrees ==
    {[k \in 1 .. 5 |-> Node(s[k], "node", IF k = 1 THEN NoProps ELSE p[k])] :
        s \in MCShapes, p \in [2 .. 5 -> MCProps]}

Cells(a, s) == ("#address-cells" :> <<a>>) @@ ("#size-cells" :> <<s>>)
Memory(reg) == ("device_type" :> "memory") @@ ("reg" :> reg)
Cpu(reg) == ("device_type" :> "cpu") @@ ("reg" :> reg)
Off(props) == props @@ ("status" :> "disabled")

\* Two cells of address and one of size at the root; the cpus have no sizes.
MCBoard(memA, memB, resA, resB) ==
    <<Node(0, "", Cells(2, 1)),
      Node(1, "memory", Memory(memA)),
      Node(1, "reserved-memory", Cells(1, 1)),
      Node(2, "res", "reg" :> resA),
      Node(2, "res", Off("reg" :> resB)),
      Node(1, "cpus", Cells(1, 0)),
      Node(2, "cpu", Cpu(<<1>>) @@ ("isa" :> "rv64imac") @@ ("riscv,svinval" :> <<>>)),
      Node(3, "intc", "interrupt-controller" :> <<>>),
      Node(2, "cpu", Cpu(<<>>)),
      Node(2, "cpu", Off(Cpu(<<0>>))),
      Node(2, "map", NoProps),
      Node(1, "soc", NoProps),
      Node(2, "plic", ("interrupt-controller" :> <<>>) @@ ("compatible" :> <<"sifive,plic-1.0.0">>)
                      @@ ("#interrupt-cells" :> <<1>>) @@ ("reg" :> <<0, 1, 2>>)),
      Node(3, "deep", Memory(<<1, 1, 1>>)),
      Node(1, "memory", Off(Memory(memB)))>>

MCRegs == {<<>>, <<0, 1, 2>>, <<0, 1, 2, 3, 0, 1, 2>>, <<1, 1, 1, 2, 2, 2, 3, 3, 3>>}

\* A board without the nodes that are looked up by path, and wrong cell counts.
MCBare == <<Node(0, "", Cells(2, 3)), Node(1, "memory", Memory(<<1, 1, 1>>))>>
MCWrong == <<Node(0, "", Cells(1, 1)), Node(1, "reserved-memory", Cells(3, 1)),
             Node(2, "res", "reg" :> <<1, 1, 1, 1>>)>>

\* A device below a bus below the root, two controllers, and a clint; the names of
\* interrupt parents and the sizes of groups vary.  Seven is -1 as an int.
MCParents == {NoProps, "interrupt-parent" :> <<1>>, "interrupt-parent" :> <<2>>,
              "interrupt-parent" :> <<7>>, "interrupt-parent" :> <<>>}
MCOddParents == {"interrupt-parent" :> <<0>>, "interrupt-parent" :> <<2, 1>>}
MCGroups == {NoProps} \cup {"#interrupt-cells" :> <<>>}
            \cup {"#interrupt-cells" :> <<c>> : c \in {0, 1, 2, 3, 7}}
MCInterrupts == {NoProps, "interrupts" :> <<1, 2, 3>>, "interrupts" :> <<3, 0, 2, 1, 1, 2>>}
Controller(phandle, type) ==
    ("interrupt-controller" :> <<>>) @@ ("phandle" :> <<phandle>>) @@ ("compatible" :> <<type>>)

MCIrqTree(rootParent, devParent, group, interrupts) ==
    <<Node(0, "", rootParent), Node(1, "soc", "compatible" :> <<"simple-bus">>),
      Node(2, "dev", devParent @@ interrupts @@ ("clocks" :> <<1, 2, 3>>)),
      Node(2, "plic", Controller(1, "riscv,plic0") @@ group),
      Node(1, "clint", Controller(2, "riscv,clint0") @@ ("#interrupt-cells" :> <<2>>))>>

\* Windows that overlap, end at the top, end past it, or are empty.
MCRanges == {NoProps, "ranges" :> <<>>,
             "ranges" :> <<0, 1, 2, 0, 0, 2,  0, 2, 1, 0, 0, 3>>,
             "ranges" :> <<7, 0, 0, 1, 1, 0,  7, 2, 3, 3, 0, 1,  1, 1, 0, 0, 0, 0>>,
             "ranges" :> <<6, 0, 7, 3, 7, 0,  6, 2, 0, 2, 0, 2>>}
MCBus(root, bus, ranges) ==
    <<Node(0, "", root), Node(1, "soc", bus @@ ranges @@ ("compatible" :> <<"simple-bus">>))>>

Input(t, c, l, k, a) == [tree |-> t, call |-> c, cap |-> l, node |-> k, addr |-> a]

MCInputs ==
    {Input(t, "devices", 9, 1, 0) : t \in MCDeviceTrees}
    \cup
    {Input(MCBoard(a, b, b, a), c, l, 1, 0) :
        a \in MCRegs, b \in MCRegs, c \in (ByNextNode \cup ByPath) \ {"devices", "bus"}, l \in {1, 3}}
    \cup
    {Input(t, c, 9, Len(t), 0) :
        t \in {MCBare, MCWrong, MCBoard(<<>>, <<>>, <<>>, <<>>)}, c \in Calls}
    \cup
    {Input(MCIrqTree(r, d, g, i), c, l, 3, 0) :
        r \in MCParents, d \in MCParents \cup MCOddParents, g \in MCGroups, i \in MCInterrupts,
        c \in {"interrupts", "controllers", "compatible"}, l \in {1, 3}}
    \cup
    {Input(MCBus(c, b, w), "translate", 1, k, a) :
        c \in {NoProps, Cells(1, 1)}, b \in {Cells(2, 2), Cells(1, 2), Cells(2, 0)},
        w \in MCRanges, k \in 1 .. 2, a \in {0, 1, 2, 4, 5, 50, 51, 52, 56, 58, 63}}
=============================================================================
