------------------------------ MODULE Ns16550a ------------------------------
(***************************************************************************)
(* The driver of src/drivers/uart/ns16550a.c and the chip, as far as the   *)
(* driver looks at it.  The chip is a second process: it may send the byte *)
(* it holds, or receive one, between any two accesses of the driver, and   *)
(* it may never answer.                                                    *)
(*                                                                         *)
(* Bytes are written as [pos, char]: pos numbers them in the order in      *)
(* which the kernel asked for them, so that order and loss can be stated.  *)
(***************************************************************************)
EXTENDS Integers, SequencesExt

CONSTANTS
    TX_TIMEOUT,   \* NS16550A_TX_TIMEOUT: 1000000
    ByteSpan,     \* number of values of a byte
    WordSpan,     \* number of values of a uint32_t
    MaxReceived   \* bound: bytes that come in

ASSUME UartAssumption ==
    /\ TX_TIMEOUT \in Nat
    /\ ByteSpan \in Nat \ {0, 1}
    /\ WordSpan \in Nat \ {0}
    /\ MaxReceived \in Nat

VARIABLES
    chip,        \* registers: dlab, ier, dll, dlm
    alive,       \* the chip is there and sends
    thr,         \* the bytes it holds and has not sent
    line,        \* the bytes it has sent
    rx,          \* the bytes it has received and nobody has read
    received,    \* how many came in
    uart_ready,  \* g_uart.ready
    cfg,         \* the configuration the driver works with
    at,          \* where the driver is
    spin,        \* its countdown
    todo,        \* what is left of the string being written
    lost,        \* positions of bytes that will never be sent
    unanswered   \* reads of LSR for the byte being written that found the transmitter busy

chipVars == <<chip, alive, thr, line, rx, received>>
driverVars == <<uart_ready, cfg, at, spin, todo, lost, unanswered>>

Positions(s) == {s[q].pos : q \in DOMAIN s}

MaxDivisor == ByteSpan * ByteSpan - 1

-----------------------------------------------------------------------------
(* The chip.                                                                *)

ChipSends ==
    /\ alive /\ thr # <<>>
    /\ line' = Append(line, Head(thr)) /\ thr' = Tail(thr)
    /\ unanswered' = 0
    /\ UNCHANGED <<chip, alive, rx, received, uart_ready, cfg, at, spin, todo, lost>>

ChipReceives ==
    /\ alive /\ received < MaxReceived
    /\ received' = received + 1 /\ rx' = Append(rx, received + 1)
    /\ UNCHANGED <<chip, alive, thr, line>> /\ UNCHANGED driverVars

\* The THRE bit of LSR: nothing waits to be sent.
TransmitterEmpty == alive /\ thr = <<>>

\* The register at offset 1 is the divisor's high byte while DLAB is set.
WriteReg1(value) ==
    IF chip.dlab THEN [chip EXCEPT !.dlm = value] ELSE [chip EXCEPT !.ier = value]

-----------------------------------------------------------------------------
(* ns16550a_init.                                                           *)

ns16550a_valid_width(width) == width \in {1, 2, 4}

\* The quotient is cut to 32 bits before it is brought into range.
Divisor(clock, baud) ==
    LET quotient == (clock \div (16 * baud)) % WordSpan
    IN  CASE quotient = 0 -> 1
          [] quotient > MaxDivisor -> MaxDivisor
          [] OTHER -> quotient

\* Readiness goes first; a width the driver does not know ends the call.
EnterInit(config) ==
    /\ uart_ready' = FALSE
    /\ IF ns16550a_valid_width(config.width) THEN cfg' = config /\ at' = "ier"
                                             ELSE UNCHANGED cfg /\ at' = "init_failed"
    /\ UNCHANGED <<spin, todo, lost, unanswered>>

\* Interrupts off.
ClearIer ==
    /\ at = "ier"
    /\ chip' = WriteReg1(0)
    /\ at' = "divisor"
    /\ UNCHANGED <<alive, thr, line, rx, received, uart_ready, cfg, spin, todo, lost, unanswered>>

\* Without a clock in the device tree the divisor the firmware chose stays.
SetDivisor ==
    /\ at = "divisor"
    /\ chip' = IF cfg.clock = 0 THEN chip
               ELSE [chip EXCEPT !.dlab = TRUE,
                                 !.dll = Divisor(cfg.clock, cfg.baud) % ByteSpan,
                                 !.dlm = Divisor(cfg.clock, cfg.baud) \div ByteSpan]
    /\ at' = "format"
    /\ UNCHANGED <<alive, thr, line, rx, received, uart_ready, cfg, spin, todo, lost, unanswered>>

\* Mistake to be noticed: the divisor latch stays open.
SetFormat_latchOpen ==
    /\ at = "format"
    /\ thr' = <<>> /\ rx' = <<>>
    /\ lost' = lost \cup Positions(thr)
    /\ spin' = TX_TIMEOUT /\ unanswered' = 0
    /\ at' = "settle"
    /\ UNCHANGED <<chip, alive, line, received, uart_ready, cfg, todo>>

\* LCR = 3 closes the divisor latch; FCR = 7 empties both FIFOs.
SetFormat ==
    /\ at = "format"
    /\ chip' = [chip EXCEPT !.dlab = FALSE]
    /\ thr' = <<>> /\ rx' = <<>>
    /\ lost' = lost \cup Positions(thr)
    /\ spin' = TX_TIMEOUT /\ unanswered' = 0
    /\ at' = "settle"
    /\ UNCHANGED <<alive, line, received, uart_ready, cfg, todo>>

\* Mistake to be noticed: a chip that does not answer is taken for ready.
Settle_timeoutIsReady ==
    /\ at = "settle"
    /\ uart_ready' = (TransmitterEmpty \/ spin = 0)
    /\ at' = IF TransmitterEmpty \/ spin = 0 THEN "init_ok" ELSE at
    /\ spin' = IF TransmitterEmpty \/ spin = 0 THEN spin ELSE spin - 1
    /\ UNCHANGED <<cfg, todo, lost, unanswered>> /\ UNCHANGED chipVars

\* The transmitter must become empty before the countdown ends.
Settle ==
    /\ at = "settle"
    /\ uart_ready' = TransmitterEmpty
    /\ at' = IF TransmitterEmpty THEN "init_ok" ELSE IF spin = 0 THEN "init_failed" ELSE at
    /\ spin' = IF TransmitterEmpty \/ spin = 0 THEN spin ELSE spin - 1
    /\ UNCHANGED <<cfg, todo, lost, unanswered>> /\ UNCHANGED chipVars

-----------------------------------------------------------------------------
(* ns16550a_putc, ns16550a_puts, ns16550a_write: todo holds the bytes.      *)

\* Mistake to be noticed: the carriage return follows the line feed.
Raw_crLast(chars) ==
    FlattenSeq([q \in DOMAIN chars |-> IF chars[q] = "lf" THEN <<"lf", "cr">> ELSE <<chars[q]>>])

\* The bytes of a string: a carriage return before every line feed.
Raw(chars) ==
    FlattenSeq([q \in DOMAIN chars |-> IF chars[q] = "lf" THEN <<"cr", "lf">> ELSE <<chars[q]>>])

\* Mistake to be noticed: one countdown for the whole string.
BeginChar_oneCountdown ==
    /\ at = "put" /\ todo # <<>>
    /\ IF uart_ready THEN at' = "poll" /\ unanswered' = 0 /\ UNCHANGED <<todo, lost>>
       ELSE todo' = Tail(todo) /\ lost' = lost \cup {Head(todo).pos} /\ UNCHANGED <<at, unanswered>>
    /\ UNCHANGED <<uart_ready, cfg, spin>> /\ UNCHANGED chipVars

\* ns16550a_putc_raw up to its loop.
BeginChar ==
    /\ at = "put" /\ todo # <<>>
    /\ IF uart_ready
       THEN at' = "poll" /\ spin' = TX_TIMEOUT /\ unanswered' = 0 /\ UNCHANGED <<todo, lost>>
       ELSE todo' = Tail(todo) /\ lost' = lost \cup {Head(todo).pos} /\ UNCHANGED <<at, spin, unanswered>>
    /\ UNCHANGED <<uart_ready, cfg>> /\ UNCHANGED chipVars

\* Mistake to be noticed: the byte is written whatever LSR says.
WriteChar_blind ==
    /\ at = "poll"
    /\ thr' = Append(thr, Head(todo)) /\ UNCHANGED <<chip, lost>>
    /\ todo' = Tail(todo) /\ at' = "put" /\ unanswered' = 0
    /\ UNCHANGED <<alive, line, rx, received, uart_ready, cfg, spin>>

\* THRE is set: the byte goes to the register at offset 0.
WriteChar ==
    /\ at = "poll" /\ TransmitterEmpty
    /\ IF chip.dlab
       THEN chip' = [chip EXCEPT !.dll = Head(todo).char] /\ lost' = lost \cup {Head(todo).pos}
            /\ UNCHANGED thr
       ELSE thr' = Append(thr, Head(todo)) /\ UNCHANGED <<chip, lost>>
    /\ todo' = Tail(todo) /\ at' = "put" /\ unanswered' = 0
    /\ UNCHANGED <<alive, line, rx, received, uart_ready, cfg, spin>>

\* One more read that found it busy.
Busy == unanswered' = IF unanswered > TX_TIMEOUT THEN unanswered ELSE unanswered + 1

\* Mistake to be noticed: the loop does not count.
SpinOn_forever ==
    /\ at = "poll" /\ ~TransmitterEmpty /\ spin > 0
    /\ Busy
    /\ UNCHANGED <<uart_ready, cfg, at, spin, todo, lost>> /\ UNCHANGED chipVars

SpinOn ==
    /\ at = "poll" /\ ~TransmitterEmpty /\ spin > 0
    /\ spin' = spin - 1 /\ Busy
    /\ UNCHANGED <<uart_ready, cfg, at, todo, lost>> /\ UNCHANGED chipVars

\* Mistakes to be noticed: the byte is tried again; the rest of the string is given
\* up with it.
DropChar_keeps ==
    /\ at = "poll" /\ ~TransmitterEmpty /\ spin = 0
    /\ lost' = lost \cup {Head(todo).pos} /\ at' = "put" /\ Busy
    /\ UNCHANGED <<uart_ready, cfg, spin, todo>> /\ UNCHANGED chipVars

DropChar_restOfString ==
    /\ at = "poll" /\ ~TransmitterEmpty /\ spin = 0
    /\ lost' = lost \cup Positions(todo) /\ todo' = <<>> /\ at' = "put" /\ Busy
    /\ UNCHANGED <<uart_ready, cfg, spin>> /\ UNCHANGED chipVars

\* The countdown is over: this byte is given up, the next one is tried.
DropChar ==
    /\ at = "poll" /\ ~TransmitterEmpty /\ spin = 0
    /\ lost' = lost \cup {Head(todo).pos} /\ todo' = Tail(todo) /\ at' = "put" /\ Busy
    /\ UNCHANGED <<uart_ready, cfg, spin>> /\ UNCHANGED chipVars

PutsReturn ==
    /\ at = "put" /\ todo = <<>>
    /\ at' = "idle"
    /\ UNCHANGED <<uart_ready, cfg, spin, todo, lost, unanswered>> /\ UNCHANGED chipVars

InitStep == ClearIer \/ SetDivisor \/ SetFormat \/ Settle
PutStep == BeginChar \/ WriteChar \/ SpinOn \/ DropChar \/ PutsReturn

=============================================================================
