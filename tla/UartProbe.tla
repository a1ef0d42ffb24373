------------------------------ MODULE UartProbe ------------------------------
(***************************************************************************)
(* How the console finds its UART in the device tree: the queries of       *)
(* src/libs/dtb/dtb.c that it uses and uart_console_probe_from_dtb         *)
(* (src/drivers/uart/uart_console.c:98-142).                               *)
(*                                                                         *)
(* The value of stdout-path is a record: path, the names along a path from *)
(* the root; alias, the name used instead when the path is empty; speed,   *)
(* the number after the colon, or NoSpeed when there is none that fits.    *)
(***************************************************************************)
EXTENDS Dtb

CONSTANT DefaultBaud  \* 115200

ASSUME BaudAssumption == DefaultBaud \in Nat \ {0}

NoSpeed == -1

\* fdt_path_offset for a path of several names.
NodeAt(t, path) ==
    FoldLeft(LAMBDA off, name : FirstOf({k \in Children(t, off) : t[k].name = name}), 1, path)

NoStdout == [path |-> <<>>, alias |-> "", speed |-> NoSpeed]

Stdout(t) == PropOf(t, fdt_path_offset(t, "chosen"), "stdout-path", NoStdout)

\* dtb_chosen_stdout.
dtb_chosen_stdout(t) ==
    LET alias == PropOf(t, fdt_path_offset(t, "aliases"), Stdout(t).alias, <<>>)
    IN  IF Stdout(t).path # <<>> THEN NodeAt(t, Stdout(t).path)
        ELSE IF alias # <<>> THEN NodeAt(t, alias)
        ELSE NoOffset

\* dtb_get_u32: the first cell, or what the caller had.
dtb_get_u32(t, node, name, default) ==
    LET cells == PropOf(t, node, name, <<>>) IN IF cells = <<>> THEN default ELSE cells[1]

\* dtb_get_clock_frequency: one cell or two; 0 stands for no answer.
dtb_get_clock_frequency(t, node) ==
    LET cells == PropOf(t, node, "clock-frequency", <<>>)
    IN  IF cells = <<>> THEN 0 ELSE read_cells_u64(cells, 1, min_int(Len(cells), 2))

\* dtb_uart_ns16550a: the node, or NoOffset.
dtb_uart_ns16550a(t) ==
    LET exact == fdt_node_offset_by_compatible(t, NoOffset, "ns16550a")
    IN  IF exact # NoOffset THEN exact ELSE fdt_node_offset_by_compatible(t, NoOffset, "ns16550")

\* The node the console is on: the one stdout-path names if its registers can be
\* decoded, and the first NS16550A otherwise.
UartNode(t) ==
    LET stdout == dtb_chosen_stdout(t)
    IN  IF stdout # NoOffset /\ dtb_decode_reg(t, stdout, 0).err = "ok" THEN stdout
        ELSE dtb_uart_ns16550a(t)

\* uart_console_parse_baud_from_stdout_path: 0 when it gives no number.
BaudFromStdout(t) == IF Stdout(t).speed = NoSpeed THEN 0 ELSE Stdout(t).speed

Baud(t, node) ==
    LET speed == IF PropOf(t, node, "current-speed", <<>>) # <<>>
                 THEN dtb_get_u32(t, node, "current-speed", 0) ELSE BaudFromStdout(t)
    IN  IF speed = 0 THEN DefaultBaud ELSE speed

\* uart_console_probe_from_dtb.
uart_console_probe_from_dtb(t) ==
    LET node == UartNode(t)
        reg  == dtb_decode_reg(t, node, 0)
        failed(error) == [err |-> error, node |-> NoOffset, clock |-> 0, baud |-> 0, width |-> 1]
    IN  IF node = NoOffset \/ reg.err # "ok" THEN failed("uart_not_found")
        ELSE IF reg.base = 0 THEN failed("reg_invalid")
        ELSE [err |-> "ok", node |-> node, clock |-> dtb_get_clock_frequency(t, node),
              baud |-> Baud(t, node), width |-> dtb_get_u32(t, node, "reg-io-width", 1)]
=============================================================================
