---------------------------- MODULE UartConsole ----------------------------
(***************************************************************************)
(* The console of src/drivers/uart/uart_console.c over the driver of       *)
(* Ns16550a: finding the UART, choosing a backend, and passing calls on    *)
(* while the console is ready.  The client is any sequence of MaxCalls     *)
(* calls.  A second backend, which a client may install, is external: its  *)
(* init and its readiness are answers.                                     *)
(***************************************************************************)
EXTENDS Ns16550a, UartProbe

CONSTANTS
    Trees,     \* the device trees; <<>> stands for a dtb library not initialised
    Strings,   \* what may be written, as sequences of characters
    MaxString, \* the most bytes one of them makes
    MaxCalls   \* bound: calls of the client

ASSUME ConsoleAssumption ==
    /\ WordSpan = CellSpan
    /\ \A t \in Trees : t = <<>> \/ IsTree(t)
    /\ \A chars \in Strings : chars \in Seq(STRING) /\ Len(Raw(chars)) <= MaxString
    /\ MaxString \in Nat /\ MaxCalls \in Nat

\* Numbers in the device tree are cells; a speed is a number or NoSpeed.
ASSUME TreeCellsAssumption ==
    \A t \in Trees : \A k \in DOMAIN t :
        /\ \A name \in {"clock-frequency", "current-speed"} :
              HasProp(t, k, name) => Prop(t, k, name) \in Seq(0 .. CellSpan - 1)
        /\ HasProp(t, k, "stdout-path") => Prop(t, k, "stdout-path").speed \in Nat \cup {NoSpeed}

VARIABLES
    tree,
    console_ready,  \* g_uart_console_ready
    backend,        \* g_uart_console_backend
    other_ready,    \* what is_ready of the other backend answers
    result,         \* of the last call
    got,            \* what try_getc gave out
    calls,
    asked,          \* number of bytes the driver was asked to write
    initialised     \* the backend whose init was the last to succeed, and since then none failed

consoleVars == <<tree, console_ready, backend, other_ready, result, got, calls, asked, initialised>>
uartVars == <<chip, alive, thr, line, rx, received, uart_ready, cfg, at, spin, todo, lost,
              unanswered, tree, console_ready, backend, other_ready, result, got, calls, asked,
              initialised>>

Backends == {"ns16550a", "other"}

\* Nothing is written, read or being done; what the driver's and the console's own
\* variables hold is another matter.
AtRest ==
    /\ chip = [dlab |-> FALSE, ier |-> 1, dll |-> 1, dlm |-> 1]
    /\ alive \in BOOLEAN
    /\ thr = <<>> /\ line = <<>> /\ rx = <<>> /\ received = 0
    /\ at = "idle" /\ spin = 0 /\ todo = <<>>
    /\ cfg = [err |-> "none", node |-> NoOffset, clock |-> 0, baud |-> 0, width |-> 1]
    /\ lost = {} /\ unanswered = 0
    /\ tree \in Trees
    /\ other_ready \in BOOLEAN
    /\ result = "none" /\ got = <<>> /\ calls = 0 /\ asked = 0 /\ initialised = "none"

UartInit == AtRest /\ uart_ready = FALSE /\ console_ready = FALSE /\ backend = "none"

-----------------------------------------------------------------------------
uart_console_is_ready ==
    /\ console_ready
    /\ backend \in Backends
    /\ IF backend = "ns16550a" THEN uart_ready ELSE other_ready

Call == at = "idle" /\ calls < MaxCalls /\ calls' = calls + 1 /\ UNCHANGED tree

Chosen == IF backend = "none" THEN "ns16550a" ELSE backend

Probed == IF tree = <<>> THEN [err |-> "dtb_not_ready"] ELSE uart_console_probe_from_dtb(tree)

\* uart_console_init_from_dtb up to the backend's init.
BeginInit ==
    /\ backend' = Chosen
    /\ UNCHANGED <<got, asked>> /\ UNCHANGED chipVars
    /\ \/ /\ Probed.err # "ok"
          /\ console_ready' = FALSE /\ initialised' = "none" /\ result' = Probed.err
          /\ UNCHANGED other_ready /\ UNCHANGED driverVars
       \/ /\ Probed.err = "ok" /\ Chosen = "ns16550a"
          /\ console_ready' = FALSE
          /\ EnterInit(Probed)
          /\ UNCHANGED <<other_ready, initialised, result>>
       \/ /\ Probed.err = "ok" /\ Chosen = "other"
          /\ \E ok \in BOOLEAN :
                /\ console_ready' = ok /\ other_ready' = ok
                /\ initialised' = IF ok THEN "other" ELSE "none"
                /\ result' = IF ok THEN "ok" ELSE "uart_init_failed"
          /\ UNCHANGED driverVars

InitFromDtb == Call /\ BeginInit

\* ns16550a_init has returned to uart_console_init_from_dtb.
InitReturns ==
    /\ at \in {"init_ok", "init_failed"}
    /\ at' = "idle"
    /\ console_ready' = (at = "init_ok")
    /\ initialised' = IF at = "init_ok" THEN "ns16550a" ELSE "none"
    /\ result' = IF at = "init_ok" THEN "ok" ELSE "uart_init_failed"
    /\ UNCHANGED <<uart_ready, cfg, spin, todo, lost, unanswered>> /\ UNCHANGED chipVars
    /\ UNCHANGED <<tree, backend, other_ready, got, calls, asked>>

\* Mistake to be noticed: the console stays ready.
SetBackend_staysReady ==
    /\ Call
    /\ \E b \in Backends \cup {"null", "partial"} :
          IF b \in Backends THEN backend' = b /\ result' = "ok" /\ UNCHANGED console_ready
          ELSE result' = "badvalue" /\ UNCHANGED <<backend, console_ready>>
    /\ UNCHANGED <<other_ready, got, asked, initialised>>
    /\ UNCHANGED driverVars /\ UNCHANGED chipVars

\* uart_console_set_backend: NULL is refused, and so is "partial", a backend that lacks
\* one of the functions that uart_console.c:148-150 tests.  put_dec_u64 is not among them:
\* a backend without it is accepted like any other.
SetBackend ==
    /\ Call
    /\ \E b \in Backends \cup {"null", "partial"} :
          IF b \in Backends THEN backend' = b /\ console_ready' = FALSE /\ result' = "ok"
          ELSE result' = "badvalue" /\ UNCHANGED <<backend, console_ready>>
    /\ UNCHANGED <<other_ready, got, asked, initialised>>
    /\ UNCHANGED driverVars /\ UNCHANGED chipVars

Numbered(chars) == [q \in DOMAIN Raw(chars) |-> [pos |-> asked + q, char |-> Raw(chars)[q]]]

\* uart_console_putc, _puts, _write and the _put_ calls: what they write differs.
Output(chars) ==
    /\ IF uart_console_is_ready /\ backend = "ns16550a"
       THEN todo' = Numbered(chars) /\ asked' = asked + Len(Raw(chars)) /\ at' = "put"
       ELSE UNCHANGED <<todo, asked, at>>
    /\ result' = IF uart_console_is_ready THEN "ok" ELSE "not_ready"
    /\ UNCHANGED <<console_ready, backend, other_ready, got, initialised>>
    /\ UNCHANGED <<uart_ready, cfg, spin, lost, unanswered>> /\ UNCHANGED chipVars

Puts == Call /\ \E chars \in Strings : Output(chars)

\* uart_console_try_getc.
TryGetc ==
    /\ Call
    /\ \/ ~uart_console_is_ready /\ result' = "not_ready" /\ UNCHANGED <<got, rx>>
       \/ /\ uart_console_is_ready /\ backend = "other"
          /\ result' \in {"ok", "no_data"} /\ UNCHANGED <<got, rx>>
       \/ /\ uart_console_is_ready /\ backend = "ns16550a" /\ rx = <<>>
          /\ result' = "no_data" /\ UNCHANGED <<got, rx>>
       \/ /\ uart_console_is_ready /\ backend = "ns16550a" /\ rx # <<>>
          /\ got' = Append(got, Head(rx)) /\ rx' = Tail(rx) /\ result' = "ok"
    /\ UNCHANGED <<console_ready, backend, other_ready, asked, initialised>>
    /\ UNCHANGED driverVars /\ UNCHANGED <<chip, alive, thr, line, received>>

CallStep == InitFromDtb \/ SetBackend \/ Puts \/ TryGetc

DriverStep == (InitStep \/ PutStep) /\ UNCHANGED consoleVars

ChipStep == (ChipSends \/ ChipReceives) /\ UNCHANGED consoleVars

ClientDone == at = "idle" /\ calls = MaxCalls /\ UNCHANGED uartVars

UartNext == CallStep \/ DriverStep \/ InitReturns \/ ChipStep \/ ClientDone

UartSpec == UartInit /\ [][UartNext]_uartVars /\ WF_uartVars(DriverStep \/ InitReturns)

-----------------------------------------------------------------------------
(* Properties.                                                              *)

UartTypeOK ==
    /\ chip.dlab \in BOOLEAN /\ chip.dlm \in 0 .. ByteSpan - 1 /\ chip.ier \in 0 .. ByteSpan - 1
    /\ at \in {"idle", "ier", "divisor", "format", "settle", "init_ok", "init_failed", "put", "poll"}
    /\ spin \in 0 .. TX_TIMEOUT /\ unanswered \in 0 .. TX_TIMEOUT + 1
    /\ at = "poll" => todo # <<>>
    /\ backend \in Backends \cup {"none"}
    /\ Len(thr) <= 1

PositionSeq(s) == [q \in DOMAIN s |-> s[q].pos]

\* Every byte the kernel wrote is sent at most once and in the order of writing;
\* it is on the line, in the chip, still to be written, or one of those that a
\* timeout or an init gave up, however calls, timeouts and inits follow each other.
InFlight == line \o thr \o todo

OutputInOrder ==
    /\ \A p, q \in DOMAIN InFlight : p < q => InFlight[p].pos < InFlight[q].pos
    /\ Positions(InFlight) \cup lost = 1 .. asked
    /\ Positions(InFlight) \cap lost = {}

\* Where a line feed is on the line its carriage return is just before it, unless
\* that byte alone ran into the timeout (ns16550a.c:146-148).
ReturnBeforeFeed ==
    \A q \in DOMAIN line : line[q].char = "lf" =>
        \/ q > 1 /\ line[q - 1].char = "cr" /\ line[q - 1].pos = line[q].pos - 1
        \/ line[q].pos - 1 \in lost

\* A call that writes gives a byte up only after more than TX_TIMEOUT reads made for
\* that byte, with the chip busy at each of them: what an earlier byte waited does not
\* count.
GivesUpLate ==
    [][at = "poll" /\ lost' # lost => unanswered' = TX_TIMEOUT + 1]_uartVars

\* The console passes calls on only to the backend whose init was the last to
\* succeed: changing backends, or an init that fails, stops output until then.
ReadyBackend == uart_console_is_ready => backend = initialised

\* While the console is ready on the NS16550A its interrupts are off, writes reach
\* the transmitter and not the divisor latch, and the divisor is the one for the
\* tree's clock and baud, or the firmware's where the tree has no clock.
ReadyChip ==
    uart_console_is_ready /\ backend = "ns16550a" =>
        /\ ~chip.dlab /\ chip.ier = 0
        /\ <<chip.dll, chip.dlm>> =
               IF cfg.clock = 0 THEN <<1, 1>>
               ELSE <<Divisor(cfg.clock, cfg.baud) % ByteSpan, Divisor(cfg.clock, cfg.baud) \div ByteSpan>>

\* The console implements ByteStream: whatever is done with inits, backends and
\* timeouts, a timeout costs the byte that waited, not the one in the chip and not the
\* rest of the string; only a console that is not ready throws an accepted byte away,
\* and then at most one; and input is read in the order in which it came.
Stream == INSTANCE ByteStream WITH
    MaxWrite <- MaxString,
    written  <- asked,
    waiting  <- PositionSeq(todo),
    accepted <- PositionSeq(thr),
    sent     <- PositionSeq(line),
    open     <- uart_console_is_ready /\ backend = "ns16550a",
    arrived  <- received,
    inbox    <- rx,
    read     <- got

ImplementsStream == Stream!StreamSpec

\* Every call returns, also when the chip never sends what it holds.
CallsReturn == at # "idle" ~> at = "idle"
=============================================================================
