---------------------------- MODULE KernelProofs ----------------------------
(***************************************************************************)
(* The kernel on its board, for every tree, firmware, chip and text of the *)
(* messages: its steps are those of Boot, and the line spells what it      *)
(* said.                                                                   *)
(***************************************************************************)
EXTENDS Kernel, UartProofs

-----------------------------------------------------------------------------
(* The order of the steps.                                                  *)

\* Where x stands in a sequence.
Where(x, s) == {k \in DOMAIN s : s[k] = x}

LEMMA WhereConcat ==
    ASSUME NEW T, NEW s \in Seq(T), NEW t \in Seq(T), NEW x, NEW a, a = Len(s)
    PROVE  \A k \in Where(x, s \o t) : k \in Where(x, s) \/ k - a \in Where(x, t)
  <1>1. PICK u \in Seq(T) : u = s \o t
    BY ConcatFacts
  <1>2. /\ DOMAIN u = 1 .. Len(u) /\ Len(u) = a + Len(t) /\ DOMAIN s = 1 .. a /\ DOMAIN t = 1 .. Len(t)
        /\ a \in Nat /\ Len(t) \in Nat
        /\ \A k \in 1 .. a : u[k] = s[k]
        /\ \A k \in 1 .. Len(t) : u[a + k] = t[k]
    BY <1>1, ConcatFacts, SeqDomain
  <1> SUFFICES ASSUME NEW k \in DOMAIN u, u[k] = x
               PROVE  k \in Where(x, s) \/ k - a \in Where(x, t)
    BY <1>1 DEF Where
  <1>3. CASE k \in 1 .. a
    BY <1>2, <1>3 DEF Where
  <1>4. CASE k \notin 1 .. a
    <2>1. PICK j \in 1 .. Len(t) : j = k - a
      BY <1>2, <1>4
    <2>2. a + j = k
      BY <1>2, <2>1
    <2>3. u[a + j] = t[j]
      BY <1>2
    <2> QED
      BY <1>2, <2>1, <2>2, <2>3 DEF Where
  <1> QED
    BY <1>3, <1>4

\* kmain sets the UART up once, after the queries.
LEMMA UartStepIs ==
    /\ \A k : k \in DOMAIN B!Steps /\ B!Steps[k] = "uart" => k = 9
    /\ B!Steps[9] = "uart" /\ 9 <= Len(B!Steps) /\ Len(B!Steps) \in Nat
    /\ DOMAIN B!Steps = 1 .. Len(B!Steps)
    /\ "uart" \notin B!ToSet(B!DtbSteps) /\ "uart" \notin B!ToSet(B!Required)
  <1> DEFINE T == {B!DtbSteps[k] : k \in DOMAIN B!DtbSteps} \cup {B!Required[k] : k \in DOMAIN B!Required}
                  \cup {"uart", "validate", "spec_version", "sbi_ready", "build", "dump",
                        "hart_status", "set_timer"}
             early == <<"uart", "validate", "spec_version">>
             late == <<"sbi_ready", "build", "dump", "hart_status", "set_timer">>
             head == B!DtbSteps \o early
             mid == head \o B!Required
  <1>1. B!DtbSteps \in Seq(T) /\ Len(B!DtbSteps) = 8 /\ Where("uart", B!DtbSteps) = {}
    BY DEF B!DtbSteps, Where
  <1>2. early \in Seq(T) /\ Len(early) = 3 /\ early[1] = "uart" /\ \A k \in Where("uart", early) : k = 1
    BY DEF Where
  <1>3. B!Required \in Seq(T) /\ Len(B!Required) = 4 /\ Where("uart", B!Required) = {}
    BY DEF B!Required, Where
  <1>4. late \in Seq(T) /\ Len(late) = 5 /\ Where("uart", late) = {}
    BY DEF Where
  <1>5. B!Steps = mid \o late
    BY DEF B!Steps
  <1> HIDE DEF early, late, T
  <1>6. head \in Seq(T) /\ Len(head) = 11 /\ head[9] = "uart"
    <2>1. B!DtbSteps \in Seq(T) /\ early \in Seq(T)
      BY <1>1, <1>2
    <2>2. /\ head \in Seq(T) /\ Len(head) = Len(B!DtbSteps) + Len(early)
          /\ \A q \in 1 .. Len(early) : head[Len(B!DtbSteps) + q] = early[q]
      BY <2>1, ConcatFacts
    <2> HIDE DEF head
    <2>3. 1 \in 1 .. Len(early) /\ Len(B!DtbSteps) + 1 = 9
      BY <1>1, <1>2
    <2>4. head[9] = early[1]
      BY <2>2, <2>3
    <2> QED
      BY <1>1, <1>2, <2>2, <2>4
  <1>7. ASSUME NEW k \in Where("uart", head) PROVE k = 9
    <2>1. k - 8 \in Where("uart", early)
      BY <1>1, <1>2, <1>7, WhereConcat
    <2>2. k - 8 = 1 /\ k \in Nat
      <3>1. k \in 1 .. 11
        BY <1>6, SeqDomain DEF Where
      <3> QED
        BY <1>2, <2>1, <3>1
    <2> QED
      BY <2>2
  <1> HIDE DEF head
  <1>8. mid \in Seq(T) /\ Len(mid) = 15 /\ mid[9] = "uart"
    <2>1. head \in Seq(T) /\ B!Required \in Seq(T)
      BY <1>3, <1>6
    <2>2. /\ mid \in Seq(T) /\ Len(mid) = Len(head) + Len(B!Required)
          /\ \A q \in 1 .. Len(head) : mid[q] = head[q]
      BY <2>1, ConcatFacts
    <2> HIDE DEF mid
    <2>3. 9 \in 1 .. Len(head)
      BY <1>6
    <2> QED
      BY <1>3, <1>6, <2>2, <2>3
  <1>9. ASSUME NEW k \in Where("uart", mid) PROVE k = 9
    BY <1>3, <1>6, <1>7, <1>9, WhereConcat
  <1> HIDE DEF mid
  <1>10. ASSUME NEW k \in Where("uart", mid \o late) PROVE k = 9
    BY <1>4, <1>8, <1>9, <1>10, WhereConcat
  <1>11. /\ B!Steps[9] = "uart" /\ 9 <= Len(B!Steps) /\ Len(B!Steps) \in Nat
         /\ DOMAIN B!Steps = 1 .. Len(B!Steps)
    <2> DEFINE all == mid \o late
    <2>0. mid \in Seq(T) /\ late \in Seq(T)
      BY <1>4, <1>8
    <2>1. all \in Seq(T) /\ Len(all) = Len(mid) + Len(late)
          /\ \A q \in 1 .. Len(mid) : all[q] = mid[q]
      BY <2>0, ConcatFacts
    <2>4. all = B!Steps
      BY <1>5
    <2> HIDE DEF all
    <2>2. DOMAIN all = 1 .. Len(all) /\ Len(all) \in Nat
      BY <2>1, SeqDomain
    <2>3. 9 \in 1 .. Len(mid) /\ 9 <= Len(all)
      BY <1>4, <1>8, <2>1, <2>2
    <2> QED
      BY <1>8, <2>1, <2>2, <2>3, <2>4
  <1>12. "uart" \notin B!ToSet(B!DtbSteps) /\ "uart" \notin B!ToSet(B!Required)
    BY <1>1, <1>3 DEF B!ToSet, Where
  <1> QED
    BY <1>5, <1>10, <1>11, <1>12 DEF Where

-----------------------------------------------------------------------------
(* The text.                                                                *)

\* What a sequence of strings is written as.
Chars(strings) == FlattenSeq([r \in DOMAIN strings |-> Raw(strings[r])])

LEMMA StringIsLetters ==
    ASSUME NEW chars \in Seq(STRING)
    PROVE  chars \in Seq(Letter) /\ Raw(chars) \in Seq(Letter)
  <1>1. chars \in Seq(Letter)
    BY SeqGrows DEF Letter
  <1> QED
    BY <1>1, RawIsFed

\* The bytes of each string.
Pieces(strings) == [r \in DOMAIN strings |-> Raw(strings[r])]

LEMMA PiecesType ==
    ASSUME NEW m \in Nat, NEW strings \in Seq(Seq(STRING)), Len(strings) = m
    PROVE  /\ Pieces(strings) \in [1 .. m -> Seq(Letter)]
           /\ Len(Pieces(strings)) = m
           /\ \A r \in 1 .. m : Pieces(strings)[r] = Raw(strings[r])
  <1>1. DOMAIN strings = 1 .. m /\ \A r \in 1 .. m : strings[r] \in Seq(STRING)
    BY SeqDomain
  <1>2. \A r \in 1 .. m : Raw(strings[r]) \in Seq(Letter)
    BY <1>1, StringIsLetters
  <1>3. Pieces(strings) = [r \in 1 .. m |-> Raw(strings[r])]
    BY <1>1 DEF Pieces
  <1> QED
    BY <1>2, <1>3

LEMMA CharsType ==
    ASSUME NEW strings \in Seq(Seq(STRING))
    PROVE  Chars(strings) \in Seq(Letter) /\ (strings = <<>> => Chars(strings) = <<>>)
  <1>1. PICK m \in Nat : m = Len(strings)
    BY SeqDomain
  <1>2. Pieces(strings) \in [1 .. m -> Seq(Letter)] /\ Len(Pieces(strings)) = m
    BY <1>1, PiecesType
  <1>3. FlattenSeq(Pieces(strings)) \in Seq(Letter)
    BY <1>2, FlattenMembers
  <1>4. ASSUME strings = <<>> PROVE FlattenSeq(Pieces(strings)) = <<>>
    <2>1. Pieces(<<>>) = <<>> /\ Len(<<>>) = 0
      BY DEF Pieces
    <2>2. FlattenSeq(<<>>) = <<>>
      BY <2>1, Zenon DEF FlattenSeq
    <2> QED
      BY <1>4, <2>1, <2>2
  <1> QED
    BY <1>3, <1>4 DEF Chars, Pieces

\* The first string goes first.
LEMMA CharsHead ==
    ASSUME NEW strings \in Seq(Seq(STRING)), strings # <<>>
    PROVE  /\ Head(strings) \in Seq(STRING) /\ Tail(strings) \in Seq(Seq(STRING))
           /\ Chars(strings) = Raw(Head(strings)) \o Chars(Tail(strings))
  <1>1. PICK h \in Seq(STRING), rest \in Seq(Seq(STRING)) :
           /\ h = Head(strings) /\ rest = Tail(strings)
           /\ Len(strings) = Len(rest) + 1
           /\ h = strings[1] /\ \A k \in 1 .. Len(rest) : rest[k] = strings[k + 1]
    <2>1. PICK D : D = Seq(STRING)
      OBVIOUS
    <2>2. strings \in Seq(D)
      BY <2>1
    <2>3. /\ Head(strings) \in D /\ Tail(strings) \in Seq(D) /\ Len(Tail(strings)) = Len(strings) - 1
          /\ \A k \in 1 .. Len(Tail(strings)) : Tail(strings)[k] = strings[k + 1]
      BY <2>2, HeadTailProperties
    <2>4. Head(strings) = strings[1] /\ Len(strings) \in Nat
      BY <2>2
    <2>5. PICK h, rest : h = Head(strings) /\ rest = Tail(strings)
      OBVIOUS
    <2>6. h \in Seq(STRING) /\ rest \in Seq(Seq(STRING))
      BY <2>1, <2>3, <2>5, Zenon
    <2>7. Len(strings) = Len(rest) + 1
      <3>1. Len(rest) = Len(strings) - 1
        BY <2>3, <2>5, Zenon
      <3> QED
        BY <2>4, <3>1
    <2>8. \A k \in 1 .. Len(rest) : rest[k] = strings[k + 1]
      BY <2>3, <2>5, Zenon
    <2> QED
      BY <2>4, <2>5, <2>6, <2>7, <2>8, Zenon
  <1>2. PICK m \in Nat : m = Len(rest)
    BY SeqDomain
  <1>3. PICK ss \in [1 .. m + 1 -> Seq(Letter)] :
           ss = Pieces(strings) /\ \A r \in 1 .. m + 1 : ss[r] = Raw(strings[r])
    <2>1. PICK p \in Nat : p = m + 1
      OBVIOUS
    <2>2. Len(strings) = p
      BY <1>1, <1>2, <2>1
    <2>3. /\ Pieces(strings) \in [1 .. p -> Seq(Letter)]
          /\ \A r \in 1 .. p : Pieces(strings)[r] = Raw(strings[r])
      BY <2>2, PiecesType, Zenon
    <2> QED
      BY <2>1, <2>3, Zenon
  <1>4. PICK tt \in [1 .. m -> Seq(Letter)] :
           tt = Pieces(rest) /\ \A r \in 1 .. m : tt[r] = Raw(rest[r])
    BY <1>2, PiecesType
  <1>5. \A k \in 1 .. m : tt[k] = ss[k + 1]
    <2>1. ASSUME NEW k \in 1 .. m PROVE tt[k] = ss[k + 1]
      <3>1. k + 1 \in 1 .. m + 1
        OBVIOUS
      <3>2. rest[k] = strings[k + 1]
        BY <1>1, <1>2
      <3> QED
        BY <1>3, <1>4, <3>1, <3>2
    <2> QED
      BY <2>1
  <1>6. FlattenSeq(ss) = ss[1] \o FlattenSeq(tt)
    BY <1>5, FlattenCons, Zenon
  <1>7. ss[1] = Raw(h)
    <2>1. 1 \in 1 .. m + 1
      OBVIOUS
    <2> QED
      BY <1>1, <1>3, <2>1
  <1> QED
    BY <1>1, <1>3, <1>4, <1>6, <1>7 DEF Chars, Pieces

\* What each message is written as.
MessageChars(messages) == [q \in DOMAIN messages |-> Chars(Text[messages[q]])]

LEMMA MessageType ==
    ASSUME NEW m \in Nat, NEW messages \in Seq(Messages), Len(messages) = m
    PROVE  /\ MessageChars(messages) \in [1 .. m -> Seq(Letter)]
           /\ Len(MessageChars(messages)) = m
           /\ \A q \in 1 .. m : MessageChars(messages)[q] = Chars(Text[messages[q]])
  <1>1. DOMAIN messages = 1 .. m /\ \A q \in 1 .. m : messages[q] \in Messages
    BY SeqDomain
  <1>2. \A q \in 1 .. m : Chars(Text[messages[q]]) \in Seq(Letter)
    BY <1>1, CharsType, KernelTextAssumption
  <1>3. MessageChars(messages) = [q \in 1 .. m |-> Chars(Text[messages[q]])]
    BY <1>1 DEF MessageChars
  <1> QED
    BY <1>2, <1>3

LEMMA SpelledIs ==
    ASSUME NEW messages
    PROVE  Spelled(messages) = FlattenSeq(MessageChars(messages))
  BY DEF Spelled, MessageChars, Chars

LEMMA SpelledType ==
    ASSUME NEW messages \in Seq(Messages)
    PROVE  Spelled(messages) \in Seq(Letter)
  <1>1. PICK m \in Nat : m = Len(messages)
    BY SeqDomain
  <1>2. MessageChars(messages) \in [1 .. m -> Seq(Letter)] /\ Len(MessageChars(messages)) = m
    BY <1>1, MessageType
  <1> QED
    BY <1>2, FlattenMembers, SpelledIs

LEMMA SpelledNothing == Spelled(<<>>) = <<>>
  <1>1. MessageChars(<<>>) = <<>> /\ Len(<<>>) = 0
    BY DEF MessageChars
  <1>2. FlattenSeq(<<>>) = <<>>
    BY <1>1, Zenon DEF FlattenSeq
  <1> QED
    BY <1>1, <1>2, SpelledIs

\* One message more.
LEMMA SpelledAppend ==
    ASSUME NEW messages \in Seq(Messages), NEW m \in Messages
    PROVE  /\ Append(messages, m) \in Seq(Messages)
           /\ Spelled(Append(messages, m)) = Spelled(messages) \o Chars(Text[m])
  <1>1. PICK more \in Seq(Messages) :
           /\ more = Append(messages, m) /\ Len(more) = Len(messages) + 1
           /\ more[Len(messages) + 1] = m
           /\ \A q \in 1 .. Len(messages) : more[q] = messages[q]
    <2>1. /\ Append(messages, m) \in Seq(Messages) /\ Len(Append(messages, m)) = Len(messages) + 1
          /\ Append(messages, m)[Len(messages) + 1] = m
          /\ \A q \in 1 .. Len(messages) : Append(messages, m)[q] = messages[q]
      BY AppendProperties
    <2> QED
      BY <2>1
  <1>2. PICK n \in Nat : n = Len(messages)
    BY SeqDomain
  <1>3. PICK ss \in [1 .. n + 1 -> Seq(Letter)] :
           ss = MessageChars(more) /\ \A q \in 1 .. n + 1 : ss[q] = Chars(Text[more[q]])
    <2>1. PICK p \in Nat : p = n + 1
      OBVIOUS
    <2>2. Len(more) = p
      BY <1>1, <1>2, <2>1
    <2>3. /\ MessageChars(more) \in [1 .. p -> Seq(Letter)]
          /\ \A q \in 1 .. p : MessageChars(more)[q] = Chars(Text[more[q]])
      BY <2>2, MessageType, Zenon
    <2> QED
      BY <2>1, <2>3, Zenon
  <1>4. PICK tt \in [1 .. n -> Seq(Letter)] :
           tt = MessageChars(messages) /\ \A q \in 1 .. n : tt[q] = Chars(Text[messages[q]])
    BY <1>2, MessageType
  <1>5. \A k \in 1 .. n : tt[k] = ss[k]
    <2>1. ASSUME NEW k \in 1 .. n PROVE tt[k] = ss[k]
      <3>1. k \in 1 .. n + 1
        OBVIOUS
      <3>2. more[k] = messages[k]
        BY <1>1, <1>2
      <3> QED
        BY <1>3, <1>4, <3>1, <3>2
    <2> QED
      BY <2>1
  <1>6. FlattenSeq(ss) = FlattenSeq(tt) \o ss[n + 1]
    BY <1>5, FlattenSnoc, Zenon
  <1>7. ss[n + 1] = Chars(Text[m])
    <2>1. n + 1 \in 1 .. n + 1 /\ more[n + 1] = m
      BY <1>1, <1>2
    <2> QED
      BY <1>3, <2>1
  <1> QED
    BY <1>1, <1>3, <1>4, <1>6, <1>7, SpelledIs
-----------------------------------------------------------------------------
(* The inductive invariant.  Until clear_bss the flags and the backend are  *)
(* whatever memory held; from then on Inv1 holds, as in UartProofs.         *)

\* The UART is set up at its step and at no other, and nothing is written before.
PlaceInv ==
    /\ step \in Nat \ {0}
    /\ backend \in {"none", "ns16550a"}
    /\ console_ready <=> step > 9
    /\ at \in InitAts \cup ReturnAts => phase = "run" /\ step = 9
    /\ step <= 9 => said = <<>> /\ left = <<>> /\ asked = 0

\* The init succeeds just when tree and chip give a UART.
FailsInv ==
    /\ "uart" \in board.fails <=> ~(Facts[tree].uart /\ alive)
    /\ at \in InitAts \cup ReturnAts => (Facts[tree].uart \/ at = "init_failed")
    /\ at = "init_ok" => alive
    /\ at = "init_failed" => ~(Facts[tree].uart /\ alive)

\* What was asked for is all but the rest of the text, and each byte is the one at
\* its position.
Spells(full, rest, count, bytes) ==
    \E w \in Seq(Letter) :
        /\ full = w \o rest /\ Len(w) = count
        /\ \A b \in bytes : b.pos \in 1 .. count /\ b.char = w[b.pos]

TextInv ==
    /\ said \in Seq(Messages) /\ left \in Seq(Seq(STRING))
    /\ Spells(Spelled(said), Chars(left), asked, Bytes)

\* Until clear_bss.
Starting ==
    /\ phase = "entry" /\ step = 1 /\ said = <<>> /\ left = <<>> /\ asked = 0
    /\ at = "idle" /\ line = <<>> /\ thr = <<>> /\ todo = <<>> /\ lost = {}
    /\ ~chip.dlab
    /\ ChipInv /\ DriverInv /\ ClientInv /\ FailsInv

Going == phase # "entry" /\ Inv1 /\ OrderInv /\ PlaceInv /\ FailsInv /\ TextInv

KernelInv == Starting \/ Going

\* What fails on a board, of the tree and of the UART.
LEMMA BoardFails ==
    ASSUME NEW t \in Trees, NEW a \in BOOLEAN, NEW f \in Firmwares
    PROVE  "uart" \in BoardOf(t, a, f).fails <=> ~(Facts[t].uart /\ a)
  <1>1. "uart" \notin f.fails
    BY FirmwareAssumption
  <1>2. "uart" \notin Facts[t].fails
    <2>1. CASE t = <<>>
      BY <2>1, KernelFactsAssumption DEF TreeFacts
    <2>2. CASE t # <<>>
      <3>1. Facts[t].fails = {q \in Queries : QueryFails(t, q)}
        BY <2>2, KernelFactsAssumption DEF TreeFacts
      <3>2. "uart" \notin Queries
        BY DEF Queries
      <3> QED
        BY <3>1, <3>2
    <2> QED
      BY <2>1, <2>2
  <1>3. "uart" \in BoardOf(t, a, f).fails <=> "uart" \in (IF Facts[t].uart /\ a THEN {} ELSE {"uart"})
    BY <1>1, <1>2 DEF BoardOf
  <1> QED
    BY <1>3

\* A tree has a UART for the kernel just when the probe finds one whose width the
\* driver knows.
LEMMA UartOfTree ==
    ASSUME NEW t \in Trees, t = tree
    PROVE  Facts[t].uart <=> Probed.err = "ok" /\ ns16550a_valid_width(Probed.width)
  <1>1. CASE t = <<>>
    <2>1. Facts[t].uart = FALSE
      BY <1>1, KernelFactsAssumption DEF TreeFacts
    <2>2. Probed.err # "ok"
      BY <1>1 DEF Probed
    <2> QED
      BY <2>1, <2>2
  <1>2. CASE t # <<>>
    <2>1. Facts[t].uart = NamesUart(t)
      BY <1>2, KernelFactsAssumption DEF TreeFacts
    <2>2. Probed = uart_console_probe_from_dtb(t)
      BY <1>2 DEF Probed
    <2> QED
      BY <2>1, <2>2 DEF NamesUart
  <1> QED
    BY <1>1, <1>2

LEMMA KernelStarts == KernelInit => Starting
  <1> SUFFICES ASSUME KernelInit PROVE Starting
    OBVIOUS
  <1> USE UartAssumption DEF KernelInit, AtRest
  <1>1. ChipInv
    BY DEF ChipInv, Byte
  <1>2. DriverInv
    <2>1. cfg.clock = 0 /\ cfg.baud = 0 /\ todo \in Seq(Char)
      OBVIOUS
    <2>2. spin \in 0 .. TX_TIMEOUT /\ unanswered \in 0 .. TX_TIMEOUT + 1
      OBVIOUS
    <2> QED
      BY <2>1, <2>2 DEF DriverInv, InitAts, PutAts
  <1>3. ClientInv
    <2>1. got \in Seq(Nat)
      OBVIOUS
    <2> QED
      BY <2>1 DEF ClientInv, Backends
  <1>4. FailsInv
    <2>1. PICK f \in Firmwares : board = BoardOf(tree, alive, f)
      OBVIOUS
    <2>2. "uart" \in board.fails <=> ~(Facts[tree].uart /\ alive)
      BY <2>1, BoardFails
    <2> QED
      BY <2>2 DEF FailsInv, InitAts, ReturnAts
  <1> QED
    BY <1>1, <1>2, <1>3, <1>4 DEF Starting

-----------------------------------------------------------------------------
(* Steps.                                                                   *)

\* The bytes and the text stay as they are.
LEMMA SameText ==
    ASSUME TextInv, UNCHANGED <<said, left, asked>>, Bytes' \subseteq Bytes
    PROVE  TextInv'
  BY DEF TextInv, Spells

LEMMA QuietBytes ==
    ASSUME UNCHANGED <<line, thr, todo>>
    PROVE  Bytes' = Bytes
  BY DEF Bytes, BytesOf

\* Before clear_bss only the chip does anything.
LEMMA StartingSteps ==
    ASSUME Starting, [KernelNext]_allVars
    PROVE  \/ ClearBss
           \/ ChipReceives /\ UNCHANGED consoleVars /\ UNCHANGED kernelVars
           \/ UNCHANGED allVars
  <1> USE DEF Starting
  <1>1. ~Silent
    BY DEF Silent, B!InitDtb, B!ReadSpecVersion, B!RequireExtension, B!BuildMap, B!CheckHart,
           B!Idle, B!StopOtherHarts, B!ShutDown, B!Running
  <1>2. ~Telling
    BY DEF Telling, B!Validate, B!SbiReady, B!DumpMap, B!InitTimer, B!SayPanic, B!Running
  <1>3. ~Speak /\ ~BeginUart /\ ~UartReturns
    BY DEF Speak, BeginUart, UartReturns, InitReturns, B!Running
  <1>4. ~UartStep
    BY DEF UartStep, DriverStep, InitStep, PutStep, ClearIer, SetDivisor, SetFormat, Settle,
           BeginChar, WriteChar, SpinOn, DropChar, PutsReturn
  <1>5. ~ChipSends
    BY DEF ChipSends
  <1> QED
    BY <1>1, <1>2, <1>3, <1>4, <1>5 DEF KernelNext, KernelStep, BoardStep, ChipStep

LEMMA StartingReceives ==
    ASSUME Starting, ChipReceives, UNCHANGED consoleVars, UNCHANGED kernelVars
    PROVE  Starting'
  <1> USE DEF Starting, ChipReceives, consoleVars, kernelVars, driverVars
  <1>1. ChipInv'
    BY DEF ChipInv, Byte
  <1>2. DriverInv'
    BY DEF DriverInv
  <1>3. ClientInv'
    BY DEF ClientInv
  <1>4. FailsInv'
    BY DEF FailsInv
  <1> QED
    BY <1>1, <1>2, <1>3, <1>4
LEMMA NothingSpelled ==
    ASSUME said = <<>>, left = <<>>, asked = 0, line = <<>>, thr = <<>>, todo = <<>>
    PROVE  TextInv
  <1>1. said \in Seq(Messages) /\ left \in Seq(Seq(STRING))
    OBVIOUS
  <1>2. Spelled(said) = <<>> /\ Chars(left) = <<>>
    BY <1>1, SpelledNothing, CharsType
  <1>3. Bytes = {}
    BY DEF Bytes, BytesOf
  <1>4. <<>> \in Seq(Letter) /\ Len(<<>>) = 0
    OBVIOUS
  <1>5. <<>> = <<>> \o <<>>
    OBVIOUS
  <1> QED
    BY <1>1, <1>2, <1>3, <1>4, <1>5 DEF TextInv, Spells

LEMMA NothingOrdered ==
    ASSUME asked = 0, line = <<>>, thr = <<>>, todo = <<>>, lost = {}
    PROVE  OrderInv
  <1>1. Positions(line) = {} /\ Positions(thr) = {} /\ Positions(todo) = {} /\ 1 .. asked = {}
    BY DEF Positions
  <1> QED
    BY <1>1 DEF OrderInv, Ascending, Before

\* From clear_bss on the flags are what the kernel makes them.
LEMMA ClearBssGoes ==
    ASSUME Starting, ClearBss
    PROVE  Going'
  <1> USE DEF Starting, ClearBss, B!EnterKmain
  <1>1. /\ uart_ready' = FALSE /\ console_ready' = FALSE /\ backend' = "none"
        /\ UNCHANGED <<cfg, at, spin, todo, lost, unanswered>> /\ UNCHANGED chipVars
        /\ UNCHANGED <<tree, other_ready, result, got, calls, asked, initialised>>
        /\ UNCHANGED <<board, left, step, said>>
        /\ phase' \in {"run", "idle"}
    OBVIOUS
  <1>2. ChipInv'
    BY <1>1 DEF ChipInv, chipVars
  <1>3. DriverInv'
    BY <1>1 DEF DriverInv
  <1>4. ClientInv'
    BY <1>1 DEF ClientInv, Backends
  <1>5. ReadyInv'
    BY <1>1 DEF ReadyInv, chipVars, InitAts, ReturnAts, PutAts
  <1>6. OrderInv'
    <2>1. OrderInv
      BY NothingOrdered
    <2> QED
      BY <1>1, <2>1, QuietOrder DEF chipVars
  <1>7. PlaceInv'
    BY <1>1 DEF PlaceInv, InitAts, ReturnAts
  <1>8. FailsInv'
    BY <1>1 DEF FailsInv, InitAts, ReturnAts, chipVars
  <1>9. TextInv'
    <2>1. TextInv
      BY NothingSpelled
    <2>2. Bytes' = Bytes
      BY <1>1, QuietBytes DEF chipVars
    <2> QED
      BY <1>1, <2>1, <2>2, SameText
  <1> QED
    BY <1>1, <1>2, <1>3, <1>4, <1>5, <1>6, <1>7, <1>8, <1>9 DEF Going, Inv1

\* The console is ready just after its step.
LEMMA ReadyIs == Going => (uart_console_is_ready <=> step > 9)
  BY DEF Going, Inv1, ReadyInv, PlaceInv, uart_console_is_ready, Backends

LEMMA ReadyNext == Going' => (uart_console_is_ready' <=> step' > 9)
  BY DEF Going, Inv1, ReadyInv, PlaceInv, uart_console_is_ready, Backends

\* At the UART's step kmain does nothing else.
LEMMA UartIsNow ==
    ASSUME B!Running, step \in Nat \ {0}
    PROVE  B!Now = "uart" <=> step = 9
  <1>1. step \in DOMAIN B!Steps
    BY UartStepIs DEF B!Running
  <1> QED
    BY <1>1, UartStepIs DEF B!Now
\* A step of kmain that goes on by at most one, and at the UART's step by none.
KmainGoes ==
    /\ phase' # "entry"
    /\ step' = step \/ (step' = step + 1 /\ step # 9)

LEMMA SilentGoes ==
    ASSUME Going, Silent
    PROVE  KmainGoes /\ UNCHANGED said
  <1> USE DEF Silent
  <1>0. step \in Nat \ {0} /\ phase # "entry"
    BY DEF Going, PlaceInv
  <1>1. CASE B!InitDtb
    <2>1. B!Now # "uart"
      BY <1>1, UartStepIs DEF B!InitDtb
    <2>2. step # 9
      BY <1>0, <1>1, <2>1, UartIsNow DEF B!InitDtb
    <2> QED
      BY <1>0, <1>1, <2>2 DEF B!InitDtb, B!Do, KmainGoes
  <1>2. CASE B!ReadSpecVersion
    <2>2. step # 9
      BY <1>0, <1>2, UartIsNow DEF B!ReadSpecVersion
    <2> QED
      BY <1>0, <1>2, <2>2 DEF B!ReadSpecVersion, B!Do, KmainGoes
  <1>3. CASE B!RequireExtension
    <2>1. B!Now # "uart"
      BY <1>3, UartStepIs DEF B!RequireExtension
    <2>2. step # 9
      BY <1>0, <1>3, <2>1, UartIsNow DEF B!RequireExtension
    <2> QED
      BY <1>0, <1>3, <2>2 DEF B!RequireExtension, KmainGoes
  <1>4. CASE B!BuildMap
    <2>2. step # 9
      BY <1>0, <1>4, UartIsNow DEF B!BuildMap
    <2> QED
      BY <1>0, <1>4, <2>2 DEF B!BuildMap, B!Do, KmainGoes
  <1>5. CASE B!CheckHart
    <2>2. step # 9
      BY <1>0, <1>5, UartIsNow DEF B!CheckHart
    <2> QED
      BY <1>0, <1>5, <2>2 DEF B!CheckHart, B!Do, KmainGoes
  <1>6. CASE B!Idle \/ B!StopOtherHarts \/ B!ShutDown
    BY <1>0, <1>6 DEF B!Idle, B!StopOtherHarts, B!ShutDown, KmainGoes
  <1> QED
    BY <1>1, <1>2, <1>3, <1>4, <1>5, <1>6

\* What a step that may speak says: a message, once the console is ready.
LEMMA SaysOne ==
    ASSUME Going, NEW m \in Messages, B!Says(<<m>>)
    PROVE  said' = said \/ (step > 9 /\ said' = Append(said, m))
  <1>1. said \in Seq(Messages)
    BY DEF Going, TextInv
  <1>2. said \o <<m>> = Append(said, m)
    BY <1>1, AppendIsConcat
  <1> QED
    BY <1>2, ReadyIs DEF B!Says

LEMMA TellingGoes ==
    ASSUME Going, Telling
    PROVE  /\ KmainGoes
           /\ said' = said \/ \E m \in Messages : step > 9 /\ said' = Append(said, m)
  <1> USE DEF Telling
  <1>0. step \in Nat \ {0} /\ phase # "entry"
    BY DEF Going, PlaceInv
  <1> USE DEF Messages
  <1>1. CASE B!Validate
    <2>2. step # 9
      BY <1>0, <1>1, UartIsNow DEF B!Validate
    <2>3. said' = said \/ (step > 9 /\ said' = Append(said, "validation"))
      BY <1>1, SaysOne DEF B!Validate
    <2> QED
      BY <1>0, <1>1, <2>2, <2>3 DEF B!Validate, KmainGoes
  <1>2. CASE B!SbiReady
    <2>2. step # 9
      BY <1>0, <1>2, UartIsNow DEF B!SbiReady
    <2>3. said' = said \/ (step > 9 /\ said' = Append(said, "sbi_ready"))
      BY <1>2, SaysOne DEF B!SbiReady
    <2> QED
      BY <1>0, <1>2, <2>2, <2>3 DEF B!SbiReady, KmainGoes
  <1>3. CASE B!DumpMap
    <2>2. step # 9
      BY <1>0, <1>3, UartIsNow DEF B!DumpMap
    <2>3. said' = said \/ (step > 9 /\ said' = Append(said, "map"))
      BY <1>3, SaysOne DEF B!DumpMap
    <2> QED
      BY <1>0, <1>3, <2>2, <2>3 DEF B!DumpMap, KmainGoes
  <1>4. CASE B!InitTimer
    <2>2. step # 9
      BY <1>0, <1>4, UartIsNow DEF B!InitTimer
    <2>3. said' = said \/ (step > 9 /\ said' = Append(said, "timer_ready"))
      BY <1>4, SaysOne DEF B!InitTimer
    <2> QED
      BY <1>0, <1>4, <2>2, <2>3 DEF B!InitTimer, B!Do, KmainGoes
  <1>5. CASE B!SayPanic
    <2>3. said' = said \/ (step > 9 /\ said' = Append(said, "panic"))
      BY <1>5, SaysOne DEF B!SayPanic
    <2> QED
      BY <1>0, <1>5, <2>3 DEF B!SayPanic, KmainGoes
  <1> QED
    BY <1>1, <1>2, <1>3, <1>4, <1>5

\* Such a step leaves console, driver, chip and board alone.
LEMMA KmainKeeps ==
    ASSUME Going, KmainGoes, UNCHANGED uartVars, UNCHANGED board, at = "idle"
    PROVE  /\ Inv1' /\ OrderInv' /\ FailsInv' /\ phase' # "entry"
           /\ (step' <= 9 => said' = <<>> /\ left' = <<>>) => PlaceInv'
  <1>1. Inv1' /\ OrderInv'
    <2>1. Inv1 /\ OrderInv
      BY DEF Going
    <2> QED
      BY <2>1, QuietOrder DEF uartVars, Inv1, ChipInv, DriverInv, ClientInv, ReadyInv
  <1>2. FailsInv'
    BY DEF Going, FailsInv, uartVars
  <1>3. ASSUME step' <= 9 => said' = <<>> /\ left' = <<>>
        PROVE  PlaceInv'
    <2>1. /\ step \in Nat \ {0} /\ backend \in {"none", "ns16550a"} /\ (console_ready <=> step > 9)
          /\ (step <= 9 => said = <<>> /\ left = <<>> /\ asked = 0)
      BY DEF Going, PlaceInv
    <2>2. step' \in Nat \ {0} /\ (step' > 9 <=> step > 9)
      BY <2>1 DEF KmainGoes
    <2>3. /\ backend' = backend /\ console_ready' = console_ready /\ asked' = asked /\ at' = "idle"
      BY DEF uartVars
    <2>4. step' <= 9 => step <= 9
      BY <2>1, <2>2
    <2> QED
      BY <1>3, <2>1, <2>2, <2>3, <2>4 DEF PlaceInv, InitAts, ReturnAts
  <1> QED
    BY <1>1, <1>2, <1>3 DEF KmainGoes
\* Where nothing is left to write, a message more is all that is left.
LEMMA SpellsMore ==
    ASSUME NEW full, NEW count, NEW bytes, Spells(full, <<>>, count, bytes),
           NEW new \in Seq(Letter)
    PROVE  Spells(full \o new, new, count, bytes)
  <1>1. PICK w \in Seq(Letter) :
           /\ full = w \o <<>> /\ Len(w) = count
           /\ \A b \in bytes : b.pos \in 1 .. count /\ b.char = w[b.pos]
    BY DEF Spells
  <1>2. full = w
    BY <1>1, ConcatEmptySeq
  <1> QED
    BY <1>1, <1>2 DEF Spells

LEMMA SilentKernel ==
    ASSUME Going, Silent
    PROVE  Going'
  <1>1. KmainGoes /\ UNCHANGED said
    BY SilentGoes
  <1>2. UNCHANGED uartVars /\ UNCHANGED <<board, left>> /\ at = "idle" /\ left = <<>>
    BY DEF Silent, Quiet
  <1>3. /\ Inv1' /\ OrderInv' /\ FailsInv' /\ phase' # "entry"
        /\ (step' <= 9 => said' = <<>> /\ left' = <<>>) => PlaceInv'
    BY <1>1, <1>2, KmainKeeps
  <1>4. PlaceInv'
    <2>1. step \in Nat /\ (step <= 9 => said = <<>>)
      BY DEF Going, PlaceInv
    <2>2. step' <= 9 => step <= 9
      BY <1>1, <2>1 DEF KmainGoes
    <2> QED
      BY <1>1, <1>2, <1>3, <2>1, <2>2
  <1>5. TextInv'
    <2>1. Bytes' = Bytes /\ asked' = asked
      BY <1>2, QuietBytes DEF uartVars
    <2> QED
      BY <1>1, <1>2, <2>1, SameText DEF Going
  <1> QED
    BY <1>3, <1>4, <1>5 DEF Going

LEMMA TellingKernel ==
    ASSUME Going, Telling
    PROVE  Going'
  <1>1. KmainGoes
    BY TellingGoes
  <1>2. /\ UNCHANGED uartVars /\ UNCHANGED board /\ at = "idle" /\ left = <<>>
        /\ left' = IF said' = said THEN <<>> ELSE Text[Last(said')]
    BY DEF Telling, Quiet
  <1>3. /\ Inv1' /\ OrderInv' /\ FailsInv' /\ phase' # "entry"
        /\ (step' <= 9 => said' = <<>> /\ left' = <<>>) => PlaceInv'
    BY <1>1, <1>2, KmainKeeps
  <1>4. /\ step \in Nat /\ (step <= 9 => said = <<>>)
        /\ said \in Seq(Messages) /\ Spells(Spelled(said), Chars(<<>>), asked, Bytes)
    BY <1>2 DEF Going, PlaceInv, TextInv
  <1>5. Bytes' = Bytes /\ asked' = asked
    BY <1>2, QuietBytes DEF uartVars
  <1>6. step' <= 9 => step <= 9
    BY <1>1, <1>4 DEF KmainGoes
  <1>7. CASE said' = said
    <2>1. left' = left
      BY <1>2, <1>7
    <2>2. TextInv'
      BY <1>5, <1>7, <2>1, SameText DEF Going
    <2> QED
      BY <1>2, <1>3, <1>4, <1>6, <1>7, <2>1, <2>2 DEF Going
  <1>8. CASE said' # said
    <2>1. PICK m \in Messages : step > 9 /\ said' = Append(said, m)
      BY <1>8, TellingGoes
    <2>2. /\ Append(said, m) \in Seq(Messages)
          /\ Spelled(Append(said, m)) = Spelled(said) \o Chars(Text[m])
      BY <1>4, SpelledAppend
    <2>3. Last(Append(said, m)) = m
      <3>1. /\ Len(Append(said, m)) = Len(said) + 1
            /\ Append(said, m)[Len(said) + 1] = m
        BY <1>4, AppendProperties
      <3> QED
        BY <3>1 DEF Last
    <2>4. left' = Text[m] /\ Text[m] \in Seq(Seq(STRING))
      BY <1>2, <1>8, <2>1, <2>3, KernelTextAssumption
    <2>5. Chars(Text[m]) \in Seq(Letter) /\ Chars(<<>>) = <<>>
      <3>1. <<>> \in Seq(Seq(STRING))
        OBVIOUS
      <3> QED
        BY <2>4, <3>1, CharsType, Zenon
    <2>6. Spells(Spelled(said) \o Chars(Text[m]), Chars(Text[m]), asked, Bytes)
      BY <1>4, <2>5, SpellsMore
    <2>7. TextInv'
      BY <1>5, <2>1, <2>2, <2>4, <2>6 DEF TextInv
    <2>8. PlaceInv'
      BY <1>3, <1>4, <1>6, <2>1
    <2> QED
      BY <1>3, <2>7, <2>8 DEF Going
  <1> QED
    BY <1>7, <1>8

\* A byte of a string just begun.
LEMMA NumberedBytes ==
    ASSUME NEW chars, Raw(chars) \in Seq(Letter), NEW b \in BytesOf(Numbered(chars))
    PROVE  \E q \in 1 .. Len(Raw(chars)) : b.pos = asked + q /\ b.char = Raw(chars)[q]
  <1>1. DOMAIN Raw(chars) = 1 .. Len(Raw(chars))
    BY SeqDomain
  <1>2. PICK q \in DOMAIN Numbered(chars) : b = Numbered(chars)[q]
    BY DEF BytesOf
  <1> QED
    BY <1>1, <1>2 DEF Numbered

\* The next string is written: what was left begins with its bytes.
LEMMA SpellsOn ==
    ASSUME NEW full, NEW raw \in Seq(Letter), NEW rest \in Seq(Letter), NEW count \in Nat,
           NEW bytes, NEW more, Spells(full, raw \o rest, count, bytes),
           \A b \in more : b \in bytes
                           \/ \E q \in 1 .. Len(raw) : b.pos = count + q /\ b.char = raw[q]
    PROVE  Spells(full, rest, count + Len(raw), more)
  <1>1. PICK w \in Seq(Letter) :
           /\ full = w \o (raw \o rest) /\ Len(w) = count
           /\ \A b \in bytes : b.pos \in 1 .. count /\ b.char = w[b.pos]
    BY DEF Spells
  <1>2. PICK v \in Seq(Letter) :
           /\ v = w \o raw /\ Len(v) = count + Len(raw)
           /\ \A q \in 1 .. count : v[q] = w[q]
           /\ \A q \in 1 .. Len(raw) : v[count + q] = raw[q]
    <2>1. /\ w \o raw \in Seq(Letter) /\ Len(w \o raw) = Len(w) + Len(raw)
          /\ \A q \in 1 .. Len(w) : (w \o raw)[q] = w[q]
          /\ \A q \in 1 .. Len(raw) : (w \o raw)[Len(w) + q] = raw[q]
      BY ConcatFacts
    <2> QED
      BY <1>1, <2>1, Zenon
  <1>3. full = v \o rest
    <2>1. (w \o raw) \o rest = w \o (raw \o rest)
      <3>1. Associates(Seq(Letter))
        BY ConcatAssociates
      <3> QED
        BY <3>1, Zenon DEF Associates
    <2> QED
      BY <1>1, <1>2, <2>1, Zenon
  <1>4. Len(raw) \in Nat
    BY SeqDomain
  <1>5. ASSUME NEW b \in more PROVE b.pos \in 1 .. count + Len(raw) /\ b.char = v[b.pos]
    <2>1. CASE b \in bytes
      <3>1. b.pos \in 1 .. count /\ b.char = w[b.pos]
        BY <1>1, <2>1
      <3> QED
        BY <1>2, <1>4, <3>1
    <2>2. CASE \E q \in 1 .. Len(raw) : b.pos = count + q /\ b.char = raw[q]
      <3>1. PICK q \in 1 .. Len(raw) : b.pos = count + q /\ b.char = raw[q]
        BY <2>2
      <3> QED
        BY <1>2, <1>4, <3>1
    <2> QED
      BY <2>1, <2>2
  <1> QED
    BY <1>2, <1>3, <1>5 DEF Spells

LEMMA SpeakKernel ==
    ASSUME Going, Speak
    PROVE  Going'
  <1>1. /\ at = "idle" /\ left # <<>> /\ Output(Head(left)) /\ left' = Tail(left)
        /\ UNCHANGED <<tree, calls, board, phase, step, map, timer, found, used, said>>
    BY DEF Speak
  <1>2. /\ Inv1 /\ OrderInv /\ said \in Seq(Messages) /\ left \in Seq(Seq(STRING))
        /\ Spells(Spelled(said), Chars(left), asked, Bytes) /\ asked \in Nat
        /\ step > 9 /\ step \in Nat \ {0} /\ backend \in {"none", "ns16550a"}
        /\ (console_ready <=> step > 9) /\ phase # "entry" /\ todo = <<>>
    BY <1>1 DEF Going, TextInv, PlaceInv, Inv1, ClientInv, DriverInv, PutAts
  <1>3. PICK h \in Seq(STRING), rest \in Seq(Seq(STRING)) :
           h = Head(left) /\ rest = Tail(left) /\ Chars(left) = Raw(h) \o Chars(rest)
    BY <1>1, <1>2, CharsHead
  <1>4. h \in Seq(Letter) /\ Raw(h) \in Seq(Letter) /\ Chars(rest) \in Seq(Letter)
    BY StringIsLetters, CharsType
  <1>5. uart_console_is_ready /\ backend = "ns16550a"
    BY <1>2, ReadyIs DEF uart_console_is_ready, Backends
  <1>6. /\ todo' = Numbered(h) /\ asked' = asked + Len(Raw(h)) /\ at' = "put"
        /\ UNCHANGED <<console_ready, backend, other_ready, got, initialised>>
        /\ UNCHANGED <<uart_ready, cfg, spin, lost, unanswered>> /\ UNCHANGED chipVars
    BY <1>1, <1>3, <1>5 DEF Output
  <1>7. Inv1'
    BY <1>1, <1>2, <1>3, <1>4, OutputInv1
  <1>8. OrderInv'
    BY <1>1, <1>2, <1>4, <1>6, PutsOrder DEF chipVars
  <1>9. PlaceInv'
    <2>1. step' = step /\ backend' = backend /\ console_ready' = console_ready /\ at' = "put"
      BY <1>1, <1>6
    <2> QED
      BY <1>2, <2>1 DEF PlaceInv, InitAts, ReturnAts
  <1>10. FailsInv'
    <2>1. board' = board /\ tree' = tree /\ alive' = alive /\ at' = "put"
      BY <1>1, <1>6 DEF chipVars
    <2> QED
      BY <2>1 DEF Going, FailsInv, InitAts, ReturnAts
  <1>11. TextInv'
    <2>1. BytesOf(line)' = BytesOf(line) /\ BytesOf(thr)' = BytesOf(thr)
          /\ BytesOf(todo)' = BytesOf(Numbered(h))
      BY <1>6 DEF BytesOf, chipVars
    <2>2. ASSUME NEW b \in Bytes'
          PROVE  b \in Bytes \/ \E q \in 1 .. Len(Raw(h)) : b.pos = asked + q /\ b.char = Raw(h)[q]
      <3>1. b \in Bytes \/ b \in BytesOf(Numbered(h))
        BY <2>1 DEF Bytes
      <3> QED
        BY <1>4, <3>1, NumberedBytes
    <2>3. Spells(Spelled(said), Raw(h) \o Chars(rest), asked, Bytes)
      BY <1>2, <1>3
    <2>4. Spells(Spelled(said), Chars(rest), asked + Len(Raw(h)), Bytes')
      BY <1>2, <1>4, <2>2, <2>3, SpellsOn
    <2>5. left' = rest /\ said' = said
      BY <1>1, <1>3
    <2> QED
      BY <1>2, <1>6, <2>4, <2>5 DEF TextInv
  <1> QED
    BY <1>1, <1>2, <1>7, <1>8, <1>9, <1>10, <1>11 DEF Going
LEMMA BeginUartKernel ==
    ASSUME Going, BeginUart
    PROVE  Going'
  <1>1. /\ at = "idle" /\ left = <<>> /\ B!Running /\ B!Now = "uart" /\ BeginInit
        /\ UNCHANGED <<tree, calls>> /\ phase' = IF at' = "idle" THEN "panic" ELSE phase
        /\ UNCHANGED <<board, step, map, timer, found, used, said, left>>
    BY DEF BeginUart, Quiet
  <1>2. /\ Inv1 /\ OrderInv /\ PlaceInv /\ FailsInv /\ TextInv /\ tree \in Trees
    BY DEF Going, Inv1, ClientInv
  <1>3. step = 9 /\ phase = "run"
    BY <1>1, <1>2, UartIsNow DEF PlaceInv, B!Running
  <1>4. backend' = "ns16550a" /\ Chosen = "ns16550a"
    BY <1>1, <1>2 DEF BeginInit, Chosen, PlaceInv
  <1>5. UNCHANGED asked /\ UNCHANGED chipVars /\ console_ready' = FALSE
        /\ \/ Probed.err # "ok" /\ UNCHANGED driverVars
           \/ Probed.err = "ok" /\ EnterInit(Probed)
    BY <1>1, <1>4 DEF BeginInit
  <1>6. Inv1'
    BY <1>1, <1>2, BeginInitInv1
  <1>7. UNCHANGED <<line, thr, todo, lost>>
    BY <1>5 DEF chipVars, driverVars, EnterInit
  <1>8. OrderInv'
    BY <1>2, <1>5, <1>7, QuietOrder
  <1>9. phase' # "entry" /\ (at' # "idle" => phase' = "run")
    BY <1>1, <1>3
  <1>10. PlaceInv'
    <2>1. step' = 9 /\ said' = <<>> /\ left' = <<>> /\ asked' = 0
      BY <1>1, <1>2, <1>3, <1>5 DEF PlaceInv
    <2> QED
      BY <1>4, <1>5, <1>9, <2>1 DEF PlaceInv, InitAts, ReturnAts
  <1>11. FailsInv'
    <2>1. Facts[tree].uart <=> Probed.err = "ok" /\ ns16550a_valid_width(Probed.width)
      BY <1>2, UartOfTree
    <2>2. board' = board /\ tree' = tree /\ alive' = alive
      BY <1>1, <1>5 DEF chipVars
    <2>3. \/ at' = "idle"
          \/ at' = "ier" /\ Facts[tree].uart
          \/ at' = "init_failed" /\ ~Facts[tree].uart
      BY <1>1, <1>5, <2>1 DEF driverVars, EnterInit
    <2> QED
      BY <1>2, <2>2, <2>3 DEF FailsInv, InitAts, ReturnAts
  <1>12. TextInv'
    BY <1>1, <1>2, <1>5, <1>7, QuietBytes, SameText
  <1> QED
    BY <1>6, <1>8, <1>9, <1>10, <1>11, <1>12 DEF Going

LEMMA UartReturnsKernel ==
    ASSUME Going, UartReturns
    PROVE  Going'
  <1>1. /\ at \in ReturnAts /\ at' = "idle" /\ console_ready' = (at = "init_ok")
        /\ UNCHANGED <<line, thr, todo, lost, asked>> /\ UNCHANGED <<backend, tree, alive, board>>
        /\ result' = IF at = "init_ok" THEN "ok" ELSE "uart_init_failed"
        /\ IF result' = "ok"
           THEN /\ step' = step + 1 /\ UNCHANGED phase
                /\ said' = Append(said, "uart_initialized") /\ left' = Text["uart_initialized"]
           ELSE phase' = "panic" /\ UNCHANGED <<step, said, left>>
    BY DEF UartReturns, InitReturns, ReturnAts, chipVars
  <1>2. /\ Inv1 /\ OrderInv /\ PlaceInv /\ FailsInv /\ TextInv /\ phase # "entry"
    BY DEF Going
  <1>3. step = 9 /\ said = <<>> /\ left = <<>> /\ asked = 0 /\ backend \in {"none", "ns16550a"}
    BY <1>1, <1>2 DEF PlaceInv
  <1>4. Inv1' /\ OrderInv'
    BY <1>1, <1>2, InitReturnsInv1, QuietOrder DEF UartReturns
  <1>5. FailsInv'
    BY <1>1, <1>2 DEF FailsInv, InitAts, ReturnAts
  <1>6. Bytes' = Bytes
    BY <1>1, QuietBytes
  <1>7. CASE at = "init_ok"
    <2>0. console_ready'
      BY <1>1, <1>7
    <2>1. /\ step' = 10 /\ phase' = phase
          /\ said' = Append(said, "uart_initialized") /\ left' = Text["uart_initialized"]
      BY <1>1, <1>3, <1>7
    <2>2. PlaceInv'
      BY <1>1, <1>3, <2>0, <2>1 DEF PlaceInv, InitAts, ReturnAts
    <2>3. PICK m \in Messages : m = "uart_initialized"
      BY DEF Messages
    <2>4. /\ said \in Seq(Messages) /\ Spells(Spelled(said), Chars(<<>>), asked, Bytes)
      BY <1>2, <1>3 DEF TextInv
    <2>5. /\ Append(said, m) \in Seq(Messages)
          /\ Spelled(Append(said, m)) = Spelled(said) \o Chars(Text[m])
      BY <2>4, SpelledAppend
    <2>6. Text[m] \in Seq(Seq(STRING))
      BY KernelTextAssumption
    <2>7. Chars(Text[m]) \in Seq(Letter) /\ Chars(<<>>) = <<>>
      <3>1. <<>> \in Seq(Seq(STRING))
        OBVIOUS
      <3> QED
        BY <2>6, <3>1, CharsType, Zenon
    <2>8. Spells(Spelled(said) \o Chars(Text[m]), Chars(Text[m]), asked, Bytes)
      BY <2>4, <2>7, SpellsMore
    <2>9. said' = Append(said, m) /\ left' = Text[m] /\ asked' = asked
      BY <1>1, <2>1, <2>3
    <2>10. TextInv'
      BY <1>6, <2>5, <2>6, <2>8, <2>9 DEF TextInv
    <2> QED
      BY <1>2, <1>4, <1>5, <2>1, <2>2, <2>10 DEF Going
  <1>8. CASE at # "init_ok"
    <2>1. phase' = "panic" /\ UNCHANGED <<step, said, left>> /\ console_ready' = FALSE
      BY <1>1, <1>8
    <2>2. PlaceInv'
      BY <1>1, <1>3, <2>1 DEF PlaceInv, InitAts, ReturnAts
    <2>3. TextInv'
      BY <1>1, <1>2, <1>6, <2>1, SameText
    <2> QED
      BY <1>4, <1>5, <2>1, <2>2, <2>3 DEF Going
  <1> QED
    BY <1>7, <1>8

\* What the driver and the chip do makes no new bytes.
LEMMA BytesShrink ==
    ASSUME Inv1, DriverStep \/ ChipStep
    PROVE  Bytes' \subseteq Bytes
  <1>1. ASSUME UNCHANGED <<line, thr, todo>> PROVE Bytes' \subseteq Bytes
    BY <1>1, QuietBytes
  <1>2. ASSUME todo # <<>>, todo' = Tail(todo), UNCHANGED line,
               thr' = thr \/ thr' = Append(thr, Head(todo))
        PROVE  Bytes' \subseteq Bytes
    <2>1. BytesOf(todo) = {Head(todo)} \cup BytesOf(Tail(todo)) /\ Head(todo) \in Char
      BY <1>2, HeadBytes DEF Inv1, DriverInv
    <2>2. BytesOf(Append(thr, Head(todo))) = BytesOf(thr) \cup {Head(todo)}
      BY <2>1, OneByte DEF Inv1, ChipInv
    <2>3. BytesOf(line)' = BytesOf(line) /\ BytesOf(todo)' = BytesOf(Tail(todo))
      BY <1>2 DEF BytesOf
    <2>4. BytesOf(thr)' = BytesOf(thr) \/ BytesOf(thr)' = BytesOf(Append(thr, Head(todo)))
      BY <1>2 DEF BytesOf
    <2> HIDE DEF BytesOf
    <2> QED
      BY <2>1, <2>2, <2>3, <2>4 DEF Bytes
  <1>3. CASE ChipSends
    <2>1. BytesOf(thr) = {Head(thr)} \cup BytesOf(Tail(thr)) /\ Head(thr) \in Char
      BY <1>3, HeadBytes DEF Inv1, ChipInv, ChipSends
    <2>2. BytesOf(Append(line, Head(thr))) = BytesOf(line) \cup {Head(thr)}
      BY <2>1, OneByte DEF Inv1, ChipInv
    <2>3. BytesOf(line)' = BytesOf(Append(line, Head(thr))) /\ BytesOf(thr)' = BytesOf(Tail(thr))
          /\ BytesOf(todo)' = BytesOf(todo)
      BY <1>3 DEF BytesOf, ChipSends
    <2> HIDE DEF BytesOf
    <2> QED
      BY <2>1, <2>2, <2>3 DEF Bytes
  <1>4. CASE SetFormat
    <2>1. BytesOf(line)' = BytesOf(line) /\ BytesOf(thr)' = {} /\ BytesOf(todo)' = BytesOf(todo)
      BY <1>4 DEF BytesOf, SetFormat
    <2> HIDE DEF BytesOf
    <2> QED
      BY <2>1 DEF Bytes
  <1>5. CASE ClearIer \/ SetDivisor \/ Settle \/ SpinOn \/ PutsReturn \/ ChipReceives
    BY <1>1, <1>5 DEF ClearIer, SetDivisor, Settle, SpinOn, PutsReturn, ChipReceives, chipVars,
                        driverVars
  <1>6. CASE BeginChar
    BY <1>1, <1>2, <1>6 DEF BeginChar, chipVars
  <1>7. CASE WriteChar
    <2>1. todo # <<>>
      BY <1>7 DEF WriteChar, Inv1, DriverInv
    <2> QED
      BY <1>2, <1>7, <2>1 DEF WriteChar
  <1>8. CASE DropChar
    <2>1. todo # <<>>
      BY <1>8 DEF DropChar, Inv1, DriverInv
    <2> QED
      BY <1>2, <1>8, <2>1 DEF DropChar, chipVars
  <1> QED
    BY <1>3, <1>4, <1>5, <1>6, <1>7, <1>8 DEF DriverStep, ChipStep, InitStep, PutStep

LEMMA UartStepKernel ==
    ASSUME Going, UartStep \/ BoardStep
    PROVE  Going'
  <1>1. /\ DriverStep \/ ChipStep
        /\ UNCHANGED consoleVars
        /\ UNCHANGED <<board, phase, step, map, timer, found, used, said, left>>
    BY DEF UartStep, BoardStep, DriverStep, ChipStep, kernelVars
  <1>2. /\ Inv1 /\ OrderInv /\ PlaceInv /\ FailsInv /\ TextInv /\ phase # "entry"
    BY DEF Going
  <1>3. Inv1' /\ OrderInv'
    BY <1>1, <1>2, NextInv1, NextOrder DEF UartNext
  <1>4. /\ UNCHANGED <<tree, console_ready, backend, asked, alive>>
        /\ \/ at' = at
           \/ at' \in {"idle"} \cup PutAts
           \/ at \in InitAts /\ at' \in InitAts
           \/ at = "settle" /\ at' = "init_ok" /\ TransmitterEmpty
           \/ at = "settle" /\ at' = "init_failed" /\ ~TransmitterEmpty
    <2>1. UNCHANGED <<tree, console_ready, backend, asked>>
      BY <1>1 DEF consoleVars
    <2>2. CASE ChipStep
      BY <2>1, <2>2 DEF ChipStep, ChipSends, ChipReceives, driverVars
    <2>3. CASE InitStep
      BY <2>1, <2>3 DEF InitStep, ClearIer, SetDivisor, SetFormat, Settle, InitAts, chipVars
    <2>4. CASE PutStep
      BY <2>1, <2>4 DEF PutStep, BeginChar, WriteChar, SpinOn, DropChar, PutsReturn, PutAts, chipVars
    <2> QED
      BY <1>1, <2>2, <2>3, <2>4 DEF DriverStep
  <1>5. at' \in InitAts \cup ReturnAts => at \in InitAts \cup ReturnAts
    BY <1>4 DEF InitAts, ReturnAts, PutAts
  <1>6. PlaceInv'
    BY <1>1, <1>2, <1>4, <1>5 DEF PlaceInv
  <1>7. FailsInv'
    <2>1. at = "settle" => (TransmitterEmpty <=> alive)
      BY <1>2 DEF Inv1, ReadyInv, TransmitterEmpty
    <2> QED
      BY <1>1, <1>2, <1>4, <2>1 DEF FailsInv, InitAts, ReturnAts, PutAts
  <1>8. TextInv'
    BY <1>1, <1>2, <1>4, BytesShrink, SameText
  <1> QED
    BY <1>1, <1>2, <1>3, <1>6, <1>7, <1>8 DEF Going

LEMMA KernelStutters ==
    ASSUME UNCHANGED allVars
    PROVE  (Starting => Starting') /\ (Going => Going')
  <1> USE DEF allVars, uartVars, kernelVars
  <1>1. UNCHANGED <<line, thr, todo, lost, asked, said, left>>
    OBVIOUS
  <1>2. Starting => Starting'
    BY DEF Starting, ChipInv, DriverInv, ClientInv, FailsInv
  <1>3. ASSUME Going PROVE Going'
    <2>1. Inv1' /\ phase' # "entry"
      BY <1>3 DEF Going, Inv1, ChipInv, DriverInv, ClientInv, ReadyInv
    <2>2. OrderInv' /\ TextInv'
      BY <1>1, <1>3, QuietOrder, QuietBytes, SameText DEF Going
    <2>3. PlaceInv' /\ FailsInv'
      BY <1>3 DEF Going, PlaceInv, FailsInv
    <2> QED
      BY <2>1, <2>2, <2>3 DEF Going
  <1> QED
    BY <1>2, <1>3

\* Every step keeps the invariant.
LEMMA KernelKeeps == KernelInv /\ [KernelNext]_allVars => KernelInv'
  <1> SUFFICES ASSUME KernelInv, [KernelNext]_allVars PROVE KernelInv'
    OBVIOUS
  <1>1. CASE Starting
    <2>1. \/ ClearBss
          \/ ChipReceives /\ UNCHANGED consoleVars /\ UNCHANGED kernelVars
          \/ UNCHANGED allVars
      BY <1>1, StartingSteps
    <2> QED
      BY <1>1, <2>1, ClearBssGoes, StartingReceives, KernelStutters DEF KernelInv
  <1>2. CASE Going
    <2>1. ~ClearBss
      BY <1>2 DEF Going, ClearBss
    <2> QED
      BY <1>2, <2>1, SilentKernel, TellingKernel, SpeakKernel, BeginUartKernel, UartReturnsKernel,
         UartStepKernel, KernelStutters DEF KernelInv, KernelNext, KernelStep
  <1> QED
    BY <1>1, <1>2 DEF KernelInv
-----------------------------------------------------------------------------
\* The invariant holds throughout.
LEMMA KernelInvHolds == KernelSpec => []KernelInv
  <1>1. KernelInit => KernelInv
    BY KernelStarts DEF KernelInv
  <1> QED
    BY <1>1, KernelKeeps, PTL DEF KernelSpec

LEMMA LineSpells ==
    ASSUME ChipInv, DriverInv, OrderInv, TextInv
    PROVE  LineSpellsMessages
  <1> SUFFICES ASSUME at = "idle", left = <<>>
               PROVE  /\ asked = Len(Spelled(said))
                      /\ Positions(line \o thr) = (1 .. asked) \ lost
                      /\ \A p, q \in DOMAIN (line \o thr) :
                            p < q => (line \o thr)[p].pos < (line \o thr)[q].pos
                      /\ \A q \in DOMAIN (line \o thr) :
                            (line \o thr)[q].char = Spelled(said)[(line \o thr)[q].pos]
                      /\ Len(thr) <= 1
    BY DEF LineSpellsMessages, Quiet
  <1>1. todo = <<>> /\ line \in Seq(Char) /\ thr \in Seq(Char) /\ Len(thr) <= 1
    BY DEF DriverInv, ChipInv, PutAts
  <1>2. PICK w \in Seq(Letter) :
           /\ Spelled(said) = w \o Chars(left) /\ Len(w) = asked
           /\ \A b \in Bytes : b.pos \in 1 .. asked /\ b.char = w[b.pos]
    BY DEF TextInv, Spells
  <1>3. Spelled(said) = w
    <2>1. Chars(left) = <<>>
      <3>1. left \in Seq(Seq(STRING))
        BY DEF TextInv
      <3> QED
        BY <3>1, CharsType, Zenon
    <2> QED
      BY <1>2, <2>1, ConcatEmptySeq
  <1>4. Positions(todo) = {}
    BY <1>1 DEF Positions
  <1>5. /\ Positions(line) \cup Positions(thr) \cup lost = 1 .. asked
        /\ lost \cap (Positions(line) \cup Positions(thr)) = {}
        /\ Ascending(line) /\ Before(Positions(line), Positions(thr))
    BY <1>4 DEF OrderInv
  <1>6. Ascending(thr)
    BY <1>1, SingleOrder
  <1>7. /\ line \o thr \in Seq(Char)
        /\ Positions(line \o thr) = Positions(line) \cup Positions(thr)
        /\ Ascending(line \o thr)
    BY <1>1, <1>5, <1>6, ConcatOrder
  <1>8. Positions(line \o thr) = (1 .. asked) \ lost
    BY <1>5, <1>7
  <1>9. ASSUME NEW q \in DOMAIN (line \o thr)
        PROVE  (line \o thr)[q].char = w[(line \o thr)[q].pos]
    <2>1. (line \o thr)[q] \in BytesOf(line \o thr)
      BY DEF BytesOf
    <2>2. BytesOf(line \o thr) = BytesOf(line) \cup BytesOf(thr)
      BY <1>1, ConcatBytes
    <2>3. (line \o thr)[q] \in Bytes
      BY <2>1, <2>2 DEF Bytes
    <2> QED
      BY <1>2, <2>3
  <1> QED
    BY <1>1, <1>2, <1>3, <1>7, <1>8, <1>9 DEF Ascending

\* Between two messages the line, with what the chip holds, spells all that was said
\* but the bytes given up, in its order, for every text, tree and firmware and however
\* slow the chip is: no byte of an earlier message comes late, none is sent twice, and
\* none is left in the driver when kmain or panic goes on.
THEOREM LineSpellsWhatWasSaid == KernelSpec => []LineSpellsMessages
  <1>1. KernelInv => LineSpellsMessages
    <2>1. CASE Starting
      <3>1. OrderInv /\ TextInv
        BY <2>1, NothingOrdered, NothingSpelled DEF Starting
      <3> QED
        BY <2>1, <3>1, LineSpells DEF Starting
    <2>2. CASE Going
      BY <2>2, LineSpells DEF Going, Inv1
    <2> QED
      BY <2>1, <2>2 DEF KernelInv
  <1> QED
    BY <1>1, KernelInvHolds, PTL

-----------------------------------------------------------------------------
(* The steps are those of Boot.                                             *)

LEMMA StartsAsBoot == KernelInit => B!BootInit
  <1> SUFFICES ASSUME KernelInit PROVE B!BootInit
    OBVIOUS
  <1>1. board \in KernelBoards
    BY DEF KernelInit, AtRest, KernelBoards
  <1>2. uart_console_is_ready \in BOOLEAN
    BY DEF uart_console_is_ready
  <1> QED
    BY <1>1, <1>2 DEF KernelInit, B!BootInit

\* A step that Boot does not see.
LEMMA BootStutters ==
    ASSUME uart_console_is_ready' <=> uart_console_is_ready,
           UNCHANGED <<board, phase, step, map, timer, found, used, said>>
    PROVE  UNCHANGED B!bootVars
  <1>1. uart_console_is_ready' = uart_console_is_ready
    BY DEF uart_console_is_ready
  <1> QED
    BY <1>1 DEF B!bootVars

LEMMA GoingStepsAsBoot ==
    ASSUME Going, Going', [KernelNext]_allVars
    PROVE  [B!BootNext]_(B!bootVars)
  <1>0. step \in Nat \ {0} /\ phase # "entry" /\ step' \in Nat \ {0}
    BY DEF Going, PlaceInv
  <1>1. CASE Silent \/ Telling
    <2>1. UNCHANGED uart_console_is_ready
      BY <1>1 DEF Silent, Telling, uartVars, uart_console_is_ready
    <2> QED
      BY <1>1 DEF Silent, Telling, B!BootNext, B!BootStep
  <1>2. CASE Speak \/ UartStep \/ BoardStep
    <2>1. UNCHANGED <<board, phase, step, map, timer, found, used, said>>
      BY <1>2 DEF Speak, UartStep, BoardStep, kernelVars
    <2>2. uart_console_is_ready' <=> uart_console_is_ready
      BY <2>1, ReadyIs, ReadyNext
    <2> QED
      BY <2>1, <2>2, BootStutters
  <1>3. CASE BeginUart
    <2>1. /\ B!Running /\ B!Now = "uart" /\ phase' = IF at' = "idle" THEN "panic" ELSE phase
          /\ UNCHANGED <<board, step, map, timer, found, used, said>>
      BY <1>3 DEF BeginUart
    <2>2. step = 9
      BY <1>0, <2>1, UartIsNow
    <2>3. ~uart_console_is_ready /\ ~uart_console_is_ready'
      BY <2>1, <2>2, ReadyIs, ReadyNext
    <2>4. CASE at' # "idle"
      BY <2>1, <2>3, <2>4, BootStutters
    <2>5. CASE at' = "idle"
      <3>1. "uart" \in board.fails
        <4>1. tree \in Trees /\ FailsInv /\ PlaceInv
          BY DEF Going, Inv1, ClientInv
        <4>2. Chosen = "ns16550a"
          BY <1>3, <4>1 DEF BeginUart, PlaceInv, Chosen
        <4>3. Probed.err # "ok"
          BY <1>3, <2>5, <4>2 DEF BeginUart, BeginInit, EnterInit
        <4>4. ~Facts[tree].uart
          BY <4>1, <4>3, UartOfTree
        <4> QED
          BY <4>1, <4>4 DEF FailsInv
      <3>2. B!Now \in board.fails
        BY <2>1, <3>1
      <3>3. uart_console_is_ready' = B!Passed
        BY <2>3, <3>2 DEF B!Passed, uart_console_is_ready
      <3>4. B!InitUart
        BY <2>1, <2>5, <3>2, <3>3 DEF B!InitUart, B!Do, B!Passed
      <3> QED
        BY <3>4 DEF B!BootNext, B!BootStep
    <2> QED
      BY <2>4, <2>5
  <1>4. CASE UartReturns
    <2>1. /\ at \in ReturnAts
          /\ result' = IF at = "init_ok" THEN "ok" ELSE "uart_init_failed"
          /\ IF result' = "ok"
             THEN step' = step + 1 /\ UNCHANGED phase /\ said' = Append(said, "uart_initialized")
             ELSE phase' = "panic" /\ UNCHANGED <<step, said>>
          /\ UNCHANGED <<board, map, timer, found, used>>
      BY <1>4 DEF UartReturns, InitReturns, ReturnAts
    <2>2. phase = "run" /\ step = 9
      BY <2>1 DEF Going, PlaceInv
    <2>3. B!Running /\ B!Now = "uart"
      BY <2>2, UartStepIs DEF B!Running, B!Now
    <2>4. "uart" \in board.fails <=> at # "init_ok"
      BY <2>1 DEF Going, FailsInv, ReturnAts
    <2>5. uart_console_is_ready' <=> at = "init_ok"
      BY <2>1, <2>2, ReadyNext
    <2>6. uart_console_is_ready' = B!Passed
      BY <2>3, <2>4, <2>5 DEF B!Passed, uart_console_is_ready
    <2>7. B!InitUart
      BY <2>1, <2>3, <2>4, <2>6 DEF B!InitUart, B!Do, B!Passed
    <2> QED
      BY <2>7 DEF B!BootNext, B!BootStep
  <1>5. CASE UNCHANGED allVars
    <2>1. UNCHANGED <<board, phase, step, map, timer, found, used, said>>
      BY <1>5 DEF allVars, kernelVars
    <2>2. uart_console_is_ready' <=> uart_console_is_ready
      BY <2>1, ReadyIs, ReadyNext
    <2> QED
      BY <2>1, <2>2, BootStutters
  <1>6. ~ClearBss
    BY <1>0 DEF ClearBss
  <1> QED
    BY <1>1, <1>2, <1>3, <1>4, <1>5, <1>6 DEF KernelNext, KernelStep

LEMMA StartingStepsAsBoot ==
    ASSUME Starting, [KernelNext]_allVars
    PROVE  [B!BootNext]_(B!bootVars)
  <1>1. CASE ClearBss
    BY <1>1 DEF ClearBss, B!BootNext, B!BootStep
  <1>2. CASE ChipReceives /\ UNCHANGED consoleVars /\ UNCHANGED kernelVars
    <2>1. /\ UNCHANGED <<board, phase, step, map, timer, found, used, said>>
          /\ UNCHANGED <<console_ready, backend, other_ready, uart_ready>>
      BY <1>2 DEF ChipReceives, consoleVars, kernelVars, driverVars
    <2> QED
      BY <2>1, BootStutters DEF uart_console_is_ready
  <1>3. CASE UNCHANGED allVars
    <2>1. /\ UNCHANGED <<board, phase, step, map, timer, found, used, said>>
          /\ UNCHANGED <<console_ready, backend, other_ready, uart_ready>>
      BY <1>3 DEF allVars, kernelVars, uartVars
    <2> QED
      BY <2>1, BootStutters DEF uart_console_is_ready
  <1> QED
    BY <1>1, <1>2, <1>3, StartingSteps

\* The kernel on its board takes the steps of Boot and no others: whatever the
\* firmware, the tree and the chip do, the console is up from the UART's step to the
\* end, that step fails just when tree or chip give no UART, and what is written and
\* when it is sent changes nothing of it.
THEOREM KernelStepsAsBoot == KernelSpec => StepsAsBoot
  <1>1. KernelInv /\ KernelInv' /\ [KernelNext]_allVars => [B!BootNext]_(B!bootVars)
    <2> SUFFICES ASSUME KernelInv, KernelInv', [KernelNext]_allVars
                 PROVE  [B!BootNext]_(B!bootVars)
      OBVIOUS
    <2>1. CASE Starting
      BY <2>1, StartingStepsAsBoot
    <2>2. CASE Going
      <3>1. \/ ClearBss \/ Silent \/ Telling \/ Speak \/ BeginUart \/ UartReturns
            \/ UartStep \/ BoardStep \/ UNCHANGED allVars
        BY DEF KernelNext, KernelStep
      <3>2. ~ClearBss
        BY <2>2 DEF Going, ClearBss
      <3>3. Going'
        BY <2>2, <3>1, <3>2, SilentKernel, TellingKernel, SpeakKernel, BeginUartKernel,
           UartReturnsKernel, UartStepKernel, KernelStutters
      <3> QED
        BY <2>2, <3>3, GoingStepsAsBoot
    <2> QED
      BY <2>1, <2>2 DEF KernelInv
  <1>2. KernelInit /\ [][KernelNext]_allVars /\ []KernelInv => [][B!BootNext]_(B!bootVars)
    BY <1>1, PTL
  <1> QED
    BY <1>2, StartsAsBoot, KernelInvHolds, PTL DEF KernelSpec, StepsAsBoot
=============================================================================
