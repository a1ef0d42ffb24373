------------------------------ MODULE MCKernel ------------------------------
(***************************************************************************)
(* Boards on which everything works, and boards on which one query of the  *)
(* tree, the UART or the firmware fails.                                   *)
(***************************************************************************)
EXTENDS Kernel

Node(d, name, props) == [depth |-> d, name |-> name, props |-> props]

NoProps == [x \in {} |-> 0]

Cpu(hartid) == ("device_type" :> "cpu") @@ ("reg" :> <<0, hartid, 1>>)

MCBoard(cpus, timebase, memory, uart, clock) ==
    <<Node(0, "", NoProps), Node(1, cpus, "timebase-frequency" :> timebase)>>
    \o [q \in 1 .. 2 |-> Node(2, "cpu", Cpu(q - 1))]
    \o <<Node(1, "memory", ("device_type" :> "memory") @@ ("reg" :> memory)),
         Node(1, "serial", ("compatible" :> <<uart>>) @@ ("reg" :> <<0, 2, 1>>)),
         Node(1, "clock", "compatible" :> <<clock>>)>>

Answers(fails, cpus, uart) == [fails |-> fails, cpus |-> cpus, uart |-> uart]

\* Each tree, and what the queries are to answer on it.
MCFacts ==
    (<<>> :> Answers({"dtb_init"}, 0, FALSE))
    @@ (MCBoard("cpus", <<1>>, <<0, 1, 2>>, "ns16550a", "riscv,timer") :> Answers({}, 2, TRUE))
    @@ (MCBoard("harts", <<1>>, <<0, 1, 2>>, "ns16550a", "riscv,timer") :>
            Answers({"cpu_count", "find_hart", "timebase"}, 0, TRUE))
    @@ (MCBoard("cpus", <<0>>, <<0, 1, 2>>, "ns16550a", "riscv,clint0") :> Answers({"timebase"}, 2, TRUE))
    @@ (MCBoard("cpus", <<1>>, <<>>, "ns16550a", "riscv,timer") :>
            Answers({"memory", "memory_total"}, 2, TRUE))
    @@ (MCBoard("cpus", <<1>>, <<0, 1, 2>>, "pl011", "riscv,timer") :> Answers({}, 2, FALSE))
    @@ (MCBoard("cpus", <<1>>, <<0, 1, 2>>, "ns16550", "rtc") :> Answers({"timer_node"}, 2, TRUE))

MCTrees == DOMAIN MCFacts

MCExts == {{"TIME", "HSM", "IPI", "RFENCE", "SRST"}, {"TIME", "HSM", "IPI", "RFENCE"},
           {"TIME", "SRST"}, {"SRST"}}

MCFirmwares ==
    {[hartid |-> 0, exts |-> e, fails |-> f] : e \in MCExts, f \in {{}, {"build"}, {"set_timer", "reset"}}}
    \cup {[hartid |-> 1, exts |-> {}, fails |-> {}], [hartid |-> 0, exts |-> {}, fails |-> {"dtb_pointer"}]}

MCText == ("uart_initialized" :> <<<<"u">>>>) @@ ("validation" :> <<<<"v">>>>)
          @@ ("sbi_ready" :> <<<<"s">>>>) @@ ("map" :> <<<<"m">>>>)
          @@ ("timer_ready" :> <<<<"t", "lf">>>>)
          @@ ("panic" :> <<<<"lf", "p">>, <<"q">>, <<"lf">>>>)

MCStrings == {}
=============================================================================
