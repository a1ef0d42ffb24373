------------------------------- MODULE Kernel -------------------------------
(***************************************************************************)
(* The kernel on its board: the boot of module Boot with a real device     *)
(* tree in place of steps that fail, and the console of UartConsole, with  *)
(* its driver and its chip, in place of a flag.  A message of Boot is the  *)
(* strings Text gives it, each written by a call that returns before the   *)
(* kernel goes on; the chip sends at its own pace, and not at all once the *)
(* firmware has switched the power off.                                    *)
(***************************************************************************)
EXTENDS UartConsole, DtbDevice

CONSTANTS
    Text,       \* the strings of each message
    Facts,      \* what the queries of kmain answer on each tree
    Firmwares   \* hartid, exts and fails, as in Boot, of what is not the tree and not the UART

\* What the kernel says on the console.
Messages == {"uart_initialized", "validation", "sbi_ready", "map", "timer_ready", "panic"}

ASSUME KernelTextAssumption == Text \in [Messages -> Seq(Seq(STRING))]

\* Whether the UART fails is up to the tree and the chip.
ASSUME FirmwareAssumption == \A f \in Firmwares : "uart" \notin f.fails

VARIABLES
    board,       \* of Boot: what the tree, the chip and the firmware come to
    phase, step, map, timer, found, used, said,  \* of Boot
    left         \* the strings of the current message that are still to be written

kernelVars == <<board, phase, step, map, timer, found, used, said, left>>
allVars == <<uartVars, kernelVars>>

-----------------------------------------------------------------------------
(* The board of Boot that this tree, chip and firmware make.                *)

\* init_dtb: the queries that make it panic.  Only hart 0 comes here.
QueryFails(t, query) ==
    CASE query = "cpu_count" -> dtb_get_cpu_count(t).err # "ok" \/ dtb_get_cpu_count(t).count <= 0
      [] query = "find_hart" -> dtb_cpu_find_hart(t, 0) = NoOffset
      [] query \in {"memory", "memory_total"} -> dtb_get_memory(t).err # "ok"
      [] query = "timebase" -> dtb_get_timebase(t).err # "ok" \/ dtb_get_timebase(t).val = 0
      [] query = "timer_node" -> dtb_get_timer_node(t) = NoOffset

Queries == {"cpu_count", "find_hart", "memory", "memory_total", "timebase", "timer_node"}

\* The tree names a UART that the driver knows how to drive.
NamesUart(t) ==
    /\ uart_console_probe_from_dtb(t).err = "ok"
    /\ ns16550a_valid_width(uart_console_probe_from_dtb(t).width)

TreeFacts ==
    [t \in Trees |->
        IF t = <<>> THEN [fails |-> {"dtb_init"}, cpus |-> 0, uart |-> FALSE]
        ELSE [fails |-> {q \in Queries : QueryFails(t, q)}, cpus |-> dtb_get_cpu_count(t).count,
              uart |-> NamesUart(t)]]

ASSUME KernelFactsAssumption == Facts = TreeFacts

\* The UART works if the tree names it and the chip answers.
BoardOf(t, answers, f) ==
    [hartid |-> f.hartid, exts |-> f.exts, cpus |-> Facts[t].cpus,
     fails |-> Facts[t].fails \cup f.fails
               \cup IF Facts[t].uart /\ answers THEN {} ELSE {"uart"}]

KernelBoards == {BoardOf(t, a, f) : t \in Trees, a \in BOOLEAN, f \in Firmwares}

B == INSTANCE Boot WITH
    Boards  <- KernelBoards,
    console <- uart_console_is_ready

-----------------------------------------------------------------------------
\* Memory holds whatever an earlier kernel left in the .bss.
KernelInit ==
    /\ AtRest
    /\ uart_ready \in BOOLEAN /\ console_ready \in BOOLEAN
    /\ backend \in {"none"} \cup Backends
    /\ \E f \in Firmwares : board = BoardOf(tree, alive, f)
    /\ phase = "entry" /\ step = 1 /\ map = FALSE /\ timer = FALSE
    /\ found = {} /\ used = {} /\ said = <<>> /\ left = <<>>

\* The last call has returned and the message is complete.
Quiet == at = "idle" /\ left = <<>>

\* clear_bss, which clears what lies between _bss_start and _bss_end.  In kernel.elf that
\* is g_uart as well as the console's flag and backend; a build that put small variables
\* into .sbss, which linker.ld:35-41 does not gather, would leave those two as they were,
\* and the console would be as unready, because g_uart is cleared.
ClearBss ==
    /\ phase = "entry"
    /\ uart_ready' = FALSE /\ console_ready' = FALSE /\ backend' = "none"
    /\ UNCHANGED <<cfg, at, spin, todo, lost, unanswered>> /\ UNCHANGED chipVars
    /\ UNCHANGED <<tree, other_ready, result, got, calls, asked, initialised>>
    /\ UNCHANGED <<board, left>>
    /\ B!EnterKmain

\* Steps of the boot that write nothing.
Silent ==
    /\ Quiet
    /\ UNCHANGED uartVars /\ UNCHANGED <<board, left>>
    /\ \/ B!InitDtb \/ B!ReadSpecVersion \/ B!RequireExtension \/ B!BuildMap \/ B!CheckHart
       \/ B!Idle \/ B!StopOtherHarts \/ B!ShutDown

\* Steps that begin with or end in a message: where something was said, its strings
\* are what is left to write.
Telling ==
    /\ Quiet
    /\ UNCHANGED uartVars /\ UNCHANGED board
    /\ \/ B!Validate \/ B!SbiReady \/ B!DumpMap \/ B!InitTimer \/ B!SayPanic
    /\ left' = IF said' = said THEN <<>> ELSE Text[Last(said')]

\* One uart_console_puts of a message.
Speak ==
    /\ at = "idle" /\ left # <<>>
    /\ Output(Head(left)) /\ UNCHANGED <<tree, calls>>
    /\ left' = Tail(left)
    /\ UNCHANGED <<board, phase, step, map, timer, found, used, said>>

\* uart_console_init_from_dtb is called; without a UART it returns at once.
BeginUart ==
    /\ Quiet /\ B!Running /\ B!Now = "uart"
    /\ BeginInit /\ UNCHANGED <<tree, calls>>
    /\ phase' = IF at' = "idle" THEN "panic" ELSE phase
    /\ UNCHANGED <<board, step, map, timer, found, used, said, left>>

\* The driver's init is over: kmain panics, or tells of the UART.
UartReturns ==
    /\ InitReturns
    /\ IF result' = "ok"
       THEN /\ step' = step + 1 /\ UNCHANGED phase
            /\ said' = Append(said, "uart_initialized") /\ left' = Text["uart_initialized"]
       ELSE phase' = "panic" /\ UNCHANGED <<step, said, left>>
    /\ UNCHANGED <<board, map, timer, found, used>>

KernelStep == ClearBss \/ Silent \/ Telling \/ Speak \/ BeginUart \/ UartReturns

UartStep == DriverStep /\ UNCHANGED kernelVars

Powered == phase # "off"

BoardStep == Powered /\ ChipStep /\ UNCHANGED kernelVars

KernelNext == KernelStep \/ UartStep \/ BoardStep \/ (B!Ended /\ UNCHANGED allVars)

KernelSpec == KernelInit /\ [][KernelNext]_allVars /\ WF_allVars(KernelStep \/ UartStep)

-----------------------------------------------------------------------------
(* Properties.                                                              *)

\* The kernel on its board behaves as Boot says, and comes to an end, with the
\* console's flag, which Boot takes for a variable, computed from driver and backend:
\* it is up from the moment the UART is set up until the end, whatever the chip
\* does, and the UART's step fails just when the tree or the chip gives no UART.
StepsAsBoot == B!BootInit /\ [][B!BootNext]_(B!bootVars)

ImplementsBoot == StepsAsBoot /\ <>B!Ended

\* Between two messages, and when the power goes off right after a panic
\* (panic.c:44), the line spells the messages in their order, without the bytes
\* that ran into the timeout; at most the last of the others is not out yet.
Spelled(messages) ==
    FlattenSeq([q \in DOMAIN messages |->
        FlattenSeq([r \in DOMAIN Text[messages[q]] |-> Raw(Text[messages[q]][r])])])

LineSpellsMessages ==
    Quiet =>
        LET chars == Spelled(said)
            bytes == line \o thr
        IN  /\ asked = Len(chars)
            /\ Positions(bytes) = (1 .. asked) \ lost
            /\ \A p, q \in DOMAIN bytes : p < q => bytes[p].pos < bytes[q].pos
            /\ \A q \in DOMAIN bytes : bytes[q].char = chars[bytes[q].pos]
            /\ Len(thr) <= 1
=============================================================================
