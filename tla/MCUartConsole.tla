--------------------------- MODULE MCUartConsole ---------------------------
(***************************************************************************)
(* Boards for the console: the UART named by stdout-path, by an alias, or  *)
(* found by compatible; no UART, registers at 0, a width nobody knows,     *)
(* clocks that give a divisor in range, above it, and above 32 bits.       *)
(***************************************************************************)
EXTENDS UartConsole

Node(d, name, props) == [depth |-> d, name |-> name, props |-> props]

NoProps == [x \in {} |-> 0]

Reg(base) == "reg" :> <<0, base, 1>>
Uart(props) == Node(1, "serial", ("compatible" :> <<"ns16550a">>) @@ props)

To(path, alias, speed) == "stdout-path" :> [path |-> path, alias |-> alias, speed |-> speed]

MCBoard(uart, chosen) ==
    <<Node(0, "", NoProps), uart, Node(1, "rtc", Reg(0)),
      Node(1, "aliases", "serial0" :> <<"serial">>), Node(1, "chosen", chosen)>>

MCTrees ==
    {<<>>,
     MCBoard(Uart(Reg(2)), NoProps),
     MCBoard(Uart(Reg(2) @@ ("clock-frequency" :> <<33>>)), To(<<"serial">>, "", 1)),
     MCBoard(Uart(Reg(2) @@ ("clock-frequency" :> <<16, 0>>)), To(<<>>, "serial0", NoSpeed)),
     MCBoard(Uart(Reg(2) @@ ("clock-frequency" :> <<1, 0>>) @@ ("current-speed" :> <<2>>)),
             To(<<"chosen">>, "", 3)),
     MCBoard(Uart(Reg(2) @@ ("reg-io-width" :> <<3>>)), NoProps),
     MCBoard(Uart(NoProps), NoProps),
     MCBoard(Uart(Reg(2)), To(<<"rtc">>, "", NoSpeed)),
     <<Node(0, "", NoProps)>>}

MCStrings == {<<"a">>, <<"b", "lf">>}
=============================================================================
