----------------------------- MODULE UartProofs -----------------------------
(***************************************************************************)
(* The safety properties of the console and of its driver for every tree,  *)
(* every string, any number of calls and any length of the countdown, and  *)
(* that the console implements ByteStream.                                 *)
(***************************************************************************)
EXTENDS UartConsole, SequenceProofs

Byte == 0 .. ByteSpan - 1

\* What is written: the provers do not know of a literal that it is a string.
Letter == STRING \cup {"cr", "lf"}

\* A byte on its way: its position and what it is.
Char == [pos : Nat, char : Letter]

\* Where ns16550a_init is, and where it returns.
InitAts == {"ier", "divisor", "format", "settle"}
ReturnAts == {"init_ok", "init_failed"}
PutAts == {"put", "poll"}

ChipInv ==
    /\ chip \in [dlab : BOOLEAN, ier : Byte, dll : Byte, dlm : Byte]
    /\ alive \in BOOLEAN
    /\ thr \in Seq(Char) /\ Len(thr) <= 1
    /\ line \in Seq(Char)
    /\ rx \in Seq(Nat) /\ received \in Nat

DriverInv ==
    /\ uart_ready \in BOOLEAN
    /\ cfg.clock \in Nat /\ cfg.baud \in Nat
    /\ at \in {"idle"} \cup InitAts \cup ReturnAts \cup PutAts
    /\ at \in InitAts => cfg.baud # 0
    /\ spin \in 0 .. TX_TIMEOUT /\ unanswered \in 0 .. TX_TIMEOUT + 1
    /\ todo \in Seq(Char) /\ lost \subseteq Nat
    /\ at = "poll" => todo # <<>>
    /\ at \notin PutAts => todo = <<>>

ClientInv ==
    /\ console_ready \in BOOLEAN /\ other_ready \in BOOLEAN
    /\ backend \in Backends \cup {"none"}
    /\ tree \in Trees
    /\ got \in Seq(Nat) /\ asked \in Nat

\* Who may be doing what: the driver works only for a console that is ready on it,
\* or for an init during which the console is not ready.
ReadyInv ==
    /\ console_ready => backend \in Backends /\ initialised = backend /\ at \in {"idle"} \cup PutAts
    /\ at \in InitAts \cup ReturnAts => backend = "ns16550a"
    /\ at \in PutAts => console_ready /\ backend = "ns16550a"
    /\ at = "init_ok" \/ (console_ready /\ backend = "ns16550a") => uart_ready
    /\ uart_ready => alive
    /\ at \in {"settle", "init_ok"} => thr = <<>>
    /\ chip.dlab => at = "format"

Inv1 == ChipInv /\ DriverInv /\ ClientInv /\ ReadyInv
\* Positions go up along each of the three sequences and from each to the next; they
\* and those that were lost are all there are.
Ascending(s) == \A p, q \in DOMAIN s : p < q => s[p].pos < s[q].pos

Before(S, T) == \A x \in S, y \in T : x < y

OrderInv ==
    /\ Ascending(line) /\ Ascending(todo)
    /\ Before(Positions(line), Positions(thr))
    /\ Before(Positions(line), Positions(todo))
    /\ Before(Positions(thr), Positions(todo))
    /\ Positions(line) \cup Positions(thr) \cup Positions(todo) \cup lost = 1 .. asked
    /\ lost \cap (Positions(line) \cup Positions(thr) \cup Positions(todo)) = {}

\* The console is ready on the NS16550A.
OnChip == console_ready /\ backend = "ns16550a"

\* The divisor follows the configuration, from the step that writes it on; without a
\* clock it is still the firmware's, as the tree never changes.
Words == <<chip.dll, chip.dlm>>

DivisorInv ==
    /\ cfg = Probed \/ cfg.clock = 0
    /\ cfg.clock = 0 => Words = <<1, 1>>
    /\ at \in {"divisor", "format", "settle", "init_ok"} \/ OnChip => chip.ier = 0
    /\ (at \in {"format", "settle", "init_ok"} \/ OnChip) /\ cfg.clock # 0 =>
              Words = <<Divisor(cfg.clock, cfg.baud) % ByteSpan, Divisor(cfg.clock, cfg.baud) \div ByteSpan>>

\* What the countdown has lost since the byte was begun, the chip has not answered.
PollInv == at = "poll" /\ ~TransmitterEmpty => unanswered + spin = TX_TIMEOUT

-----------------------------------------------------------------------------
\* A property that holds cells does so through PropOf.
LEMMA CellsProp ==
    ASSUME NEW t \in Trees, NEW k, NEW name \in {"clock-frequency", "current-speed"}
    PROVE  PropOf(t, k, name, <<>>) \in Seq(0 .. CellSpan - 1)
  <1>1. CASE HasProp(t, k, name)
    <2>1. k \in DOMAIN t /\ PropOf(t, k, name, <<>>) = Prop(t, k, name)
      BY <1>1 DEF PropOf, HasProp, IsNode
    <2> QED
      BY <1>1, <2>1, TreeCellsAssumption
  <1>2. CASE ~HasProp(t, k, name)
    BY <1>2 DEF PropOf
  <1> QED
    BY <1>1, <1>2

\* The cells of a property are numbers.
LEMMA CellsAre ==
    ASSUME NEW cells \in Seq(0 .. CellSpan - 1), cells # <<>>
    PROVE  Len(cells) \in Nat \ {0} /\ \A q \in 1 .. Len(cells) : cells[q] \in Nat
  BY DtbAssumption

\* What the driver is configured with are numbers, and the baud rate is not 0.
LEMMA ProbedType ==
    ASSUME tree \in Trees, Probed.err = "ok"
    PROVE  Probed.clock \in Nat /\ Probed.baud \in Nat \ {0}
  <1> DEFINE node == UartNode(tree)
  <1>1. tree # <<>> /\ Probed = uart_console_probe_from_dtb(tree)
    BY DEF Probed
  <1>2. Probed.clock = dtb_get_clock_frequency(tree, node) /\ Probed.baud = Baud(tree, node)
    BY <1>1 DEF uart_console_probe_from_dtb
  <1>3. CellSpan \in Nat \ {0, 1} /\ DefaultBaud \in Nat \ {0}
    BY DtbAssumption, BaudAssumption
  <1>4. dtb_get_clock_frequency(tree, node) \in Nat
    <2> DEFINE cells == PropOf(tree, node, "clock-frequency", <<>>)
    <2>1. cells \in Seq(0 .. CellSpan - 1)
      BY CellsProp
    <2> SUFFICES ASSUME cells # <<>> PROVE read_cells_u64(cells, 1, min_int(Len(cells), 2)) \in Nat
      BY DEF dtb_get_clock_frequency
    <2> HIDE DEF cells
    <2>2. Len(cells) \in Nat \ {0} /\ \A q \in 1 .. Len(cells) : cells[q] \in Nat
      BY <2>1, CellsAre
    <2>3. CASE Len(cells) = 1
      BY <2>2, <2>3 DEF read_cells_u64, min_int
    <2>4. CASE Len(cells) # 1
      <3> DEFINE len == Len(cells)
      <3>4. len \in Nat /\ len >= 2
        <4>1. \A x \in Nat \ {0} : x # 1 => x \in Nat /\ x >= 2
          OBVIOUS
        <4> QED
          BY <2>2, <2>4, <4>1
      <3>5. 1 \in 1 .. len /\ 2 \in 1 .. len
        BY <3>4
      <3>6. min_int(len, 2) = 2
        <4> HIDE DEF len
        <4> QED
          BY <3>4 DEF min_int
      <3>1. min_int(Len(cells), 2) = 2 /\ cells[1] \in Nat /\ cells[2] \in Nat
        BY <2>2, <3>5, <3>6
      <3>2. read_cells_u64(cells, 1, 2) = cells[1] * CellSpan + cells[2]
        BY DEF read_cells_u64
      <3>3. cells[1] * CellSpan \in Nat
        BY <1>3, <3>1
      <3> QED
        BY <3>1, <3>2, <3>3
    <2> QED
      BY <2>3, <2>4
  <1>5. Baud(tree, node) \in Nat \ {0}
    <2>1. BaudFromStdout(tree) \in Nat
      BY TreeCellsAssumption DEF BaudFromStdout, Stdout, PropOf, HasProp, IsNode, NoStdout, NoSpeed
    <2> DEFINE cells == PropOf(tree, node, "current-speed", <<>>)
    <2>2. cells \in Seq(0 .. CellSpan - 1)
      BY CellsProp
    <2>3. cells # <<>> => cells[1] \in Nat
      BY <2>2, CellsAre
    <2> QED
      BY <1>3, <2>1, <2>3 DEF Baud, dtb_get_u32
  <1> QED
    BY <1>2, <1>4, <1>5

\* The divisor is a number of two bytes.
LEMMA DivisorType ==
    ASSUME NEW clock \in Nat, NEW baud \in Nat \ {0}
    PROVE  /\ Divisor(clock, baud) % ByteSpan \in Byte
           /\ Divisor(clock, baud) \div ByteSpan \in Byte
  <1> DEFINE quotient == (clock \div (16 * baud)) % WordSpan
  <1>1. quotient \in Nat
    BY UartAssumption
  <1> HIDE DEF quotient
  <1>2. ByteSpan \in Nat /\ ByteSpan >= 2
    BY UartAssumption
  <1>3. MaxDivisor \in Nat /\ MaxDivisor >= 1 /\ MaxDivisor < ByteSpan * ByteSpan
    BY <1>2 DEF MaxDivisor
  <1>4. Divisor(clock, baud) \in Nat /\ Divisor(clock, baud) < ByteSpan * ByteSpan
    <2>1. Divisor(clock, baud) = CASE quotient = 0 -> 1 [] quotient > MaxDivisor -> MaxDivisor
                                   [] OTHER -> quotient
      BY DEF Divisor, quotient
    <2>2. CASE quotient = 0
      <3>1. Divisor(clock, baud) = 1
        BY <1>3, <2>1, <2>2
      <3>2. ByteSpan * ByteSpan \in Nat
        BY <1>2
      <3> HIDE DEF Divisor
      <3> QED
        BY <1>3, <3>1, <3>2
    <2>3. CASE quotient # 0 /\ quotient > MaxDivisor
      BY <1>3, <2>1, <2>3
    <2>4. CASE quotient # 0 /\ ~(quotient > MaxDivisor)
      <3>1. Divisor(clock, baud) = quotient
        BY <2>1, <2>4
      <3>2. quotient <= MaxDivisor
        BY <1>1, <1>3, <2>4
      <3> QED
        BY <1>1, <1>2, <1>3, <3>1, <3>2
    <2> QED
      BY <2>2, <2>3, <2>4
  <1> QED
    BY <1>2, <1>4 DEF Byte
-----------------------------------------------------------------------------
(* What is written for a string.                                            *)

LEMMA SeqGrows ==
    ASSUME NEW S, NEW T, NEW s \in Seq(S)
    PROVE  s \in Seq(S \cup T)
  OBVIOUS

LEMMA StringsAreLetters ==
    ASSUME NEW chars \in Strings
    PROVE  chars \in Seq(Letter) /\ Len(Raw(chars)) <= MaxString /\ MaxString \in Nat
  <1>1. chars \in Seq(STRING) /\ Len(Raw(chars)) <= MaxString /\ MaxString \in Nat
    BY ConsoleAssumption
  <1> QED
    BY <1>1, SeqGrows DEF Letter

\* Every line feed of s has its carriage return just before it.
Fed(s) == \A q \in DOMAIN s : s[q] = "lf" => q - 1 \in DOMAIN s /\ s[q - 1] = "cr"

\* What one character is written as.
Piece(c) == IF c = "lf" THEN <<"cr", "lf">> ELSE <<c>>

LEMMA TwoInSeq ==
    ASSUME NEW T, NEW x \in T, NEW y \in T
    PROVE  <<x, y>> \in Seq(T)
  OBVIOUS

LEMMA PieceIsFed ==
    ASSUME NEW c \in Letter
    PROVE  Piece(c) \in Seq(Letter) /\ Fed(Piece(c))
  <1>1. CASE c = "lf"
    <2>1. Piece(c) = <<"cr", "lf">>
      BY <1>1 DEF Piece
    <2>3. "cr" \in Letter /\ "lf" \in Letter
      BY DEF Letter
    <2>4. <<"cr", "lf">> \in Seq(Letter)
      BY <2>3, TwoInSeq
    <2>2. Fed(<<"cr", "lf">>)
      BY DEF Fed
    <2> QED
      BY <2>1, <2>2, <2>3, <2>4
  <1>2. CASE c # "lf"
    <2>1. Piece(c) = <<c>> /\ <<c>> \in Seq(Letter)
      BY <1>2 DEF Piece
    <2>2. Fed(<<c>>)
      BY <1>2 DEF Fed
    <2> QED
      BY <2>1, <2>2
  <1> QED
    BY <1>1, <1>2

LEMMA FedConcat ==
    ASSUME NEW s \in Seq(Letter), NEW t \in Seq(Letter), Fed(s), Fed(t)
    PROVE  Fed(s \o t)
  <1> DEFINE u == s \o t
             n == Len(s)
             m == Len(t)
  <1>1. /\ DOMAIN s = 1 .. n /\ DOMAIN t = 1 .. m /\ DOMAIN u = 1 .. n + m
        /\ n \in Nat /\ m \in Nat
        /\ \A q \in 1 .. n : u[q] = s[q]
        /\ \A q \in 1 .. m : u[n + q] = t[q]
    BY ConcatFacts
  <1> HIDE DEF u, n, m
  <1> SUFFICES ASSUME NEW q \in 1 .. n + m, u[q] = "lf"
               PROVE  q - 1 \in 1 .. n + m /\ u[q - 1] = "cr"
    BY <1>1 DEF Fed, u
  <1>2. CASE q \in 1 .. n
    <2>1. q - 1 \in 1 .. n /\ s[q - 1] = "cr"
      BY <1>1, <1>2 DEF Fed
    <2> QED
      BY <1>1, <2>1
  <1>3. CASE q \notin 1 .. n
    <2>1. PICK r \in 1 .. m : r = q - n
      BY <1>1, <1>3
    <2>2. n + r = q /\ t[r] = "lf"
      BY <1>1, <2>1
    <2>3. r - 1 \in 1 .. m /\ t[r - 1] = "cr"
      BY <1>1, <2>2 DEF Fed
    <2>4. n + (r - 1) = q - 1 /\ q - 1 \in 1 .. n + m
      BY <1>1, <2>2, <2>3
    <2>5. u[n + (r - 1)] = t[r - 1]
      BY <1>1, <2>3
    <2> QED
      BY <2>3, <2>4, <2>5
  <1> QED
    BY <1>2, <1>3

\* The bytes of a string are characters, and every line feed among them comes after
\* its carriage return.
LEMMA RawIsFed ==
    ASSUME NEW chars \in Seq(Letter)
    PROVE  Raw(chars) \in Seq(Letter) /\ Fed(Raw(chars))
  <1>1. PICK D : D = Seq(Letter)
    OBVIOUS
  <1>2. PICK m \in Nat : m = Len(chars)
    OBVIOUS
  <1> DEFINE ss == [q \in 1 .. m |-> Piece(chars[q])]
  <1>3. DOMAIN chars = 1 .. m /\ \A q \in 1 .. m : chars[q] \in Letter
    BY <1>2
  <1>4. Raw(chars) = FlattenSeq(ss)
    BY <1>3 DEF Raw, Piece
  <1>5. \A q \in 1 .. m : ss[q] \in D /\ Fed(ss[q])
    BY <1>1, <1>3, PieceIsFed
  <1>6. ss \in [1 .. m -> D] /\ Len(ss) = m
    <2>1. ss \in [1 .. m -> D]
      BY <1>5
    <2> QED
      BY <2>1
  <1> HIDE DEF ss
  <1>7. Joinable(D)
    BY <1>1, SeqJoinable
  <1>8. PICK f \in [0 .. m -> D] : Joins(f, ss, m) /\ FlattenSeq(ss) = f[m]
    BY <1>6, <1>7, FlattenFacts
  <1>9. f[0] = <<>> /\ \A k \in 1 .. m : f[k] = f[k - 1] \o ss[k]
    BY <1>8 DEF Joins
  <1> DEFINE S == {k \in Nat : k <= m => Fed(f[k])}
  <1>10. 0 \in S
    <2>1. Fed(<<>>)
      BY DEF Fed
    <2> QED
      BY <1>9, <2>1
  <1>11. ASSUME NEW k \in Nat, k \in S PROVE k + 1 \in S
    <2> SUFFICES ASSUME k + 1 <= m PROVE Fed(f[k + 1])
      OBVIOUS
    <2>1. k \in 0 .. m /\ k + 1 \in 1 .. m /\ (k + 1) - 1 = k /\ Fed(f[k])
      BY <1>11
    <2>2. f[k + 1] = f[k] \o ss[k + 1]
      BY <1>9, <2>1
    <2>3. f[k] \in Seq(Letter) /\ ss[k + 1] \in Seq(Letter) /\ Fed(ss[k + 1])
      BY <1>1, <1>5, <1>8, <2>1
    <2> QED
      BY <2>1, <2>2, <2>3, FedConcat
  <1>12. m \in S
    <2> HIDE DEF S
    <2>1. \A k \in Nat : k \in S
      BY <1>10, <1>11, Induction
    <2> QED
      BY <2>1
  <1>13. f[m] \in D /\ Fed(f[m])
    BY <1>8, <1>12
  <1> QED
    BY <1>1, <1>4, <1>8, <1>13

-----------------------------------------------------------------------------
(* Sequences of bytes.                                                      *)

LEMMA PositionsType ==
    ASSUME NEW s \in Seq(Char)
    PROVE  Positions(s) \subseteq Nat /\ Positions(<<>>) = {} /\ (Positions(s) = {} => s = <<>>)
  <1>1. DOMAIN s = 1 .. Len(s) /\ Len(s) \in Nat /\ \A q \in 1 .. Len(s) : s[q] \in Char
    OBVIOUS
  <1>2. Positions(s) \subseteq Nat
    BY <1>1 DEF Positions, Char
  <1>3. Positions(<<>>) = {}
    BY DEF Positions
  <1>4. ASSUME s # <<>> PROVE Positions(s) # {}
    <2>1. 1 \in DOMAIN s
      BY <1>1, <1>4
    <2> QED
      BY <2>1 DEF Positions
  <1> QED
    BY <1>2, <1>3, <1>4

\* A concatenation has the positions of both parts; it ascends if both do and the
\* first lies before the second.
LEMMA ConcatOrder ==
    ASSUME NEW s \in Seq(Char), NEW t \in Seq(Char)
    PROVE  /\ s \o t \in Seq(Char)
           /\ Positions(s \o t) = Positions(s) \cup Positions(t)
           /\ Ascending(s) /\ Ascending(t) /\ Before(Positions(s), Positions(t))
                  => Ascending(s \o t)
  <1> DEFINE u == s \o t
  <1>1. /\ u \in Seq(Char) /\ Len(u) = Len(s) + Len(t)
        /\ \A k \in 1 .. Len(s) + Len(t) : u[k] = IF k <= Len(s) THEN s[k] ELSE t[k - Len(s)]
    BY ConcatProperties
  <1>2. /\ DOMAIN s = 1 .. Len(s) /\ DOMAIN t = 1 .. Len(t) /\ DOMAIN u = 1 .. Len(u)
        /\ Len(s) \in Nat /\ Len(t) \in Nat
    BY <1>1
  <1> HIDE DEF u
  <1>3. /\ \A k \in DOMAIN s : k \in DOMAIN u /\ u[k] = s[k]
        /\ \A k \in DOMAIN t : Len(s) + k \in DOMAIN u /\ u[Len(s) + k] = t[k]
    BY <1>1, <1>2
  <1>4. \A k \in DOMAIN u : \/ k \in DOMAIN s /\ u[k] = s[k]
                            \/ k - Len(s) \in DOMAIN t /\ u[k] = t[k - Len(s)] /\ k > Len(s)
    BY <1>1, <1>2
  <1>5. Positions(u) = Positions(s) \cup Positions(t)
    BY <1>3, <1>4 DEF Positions
  <1>6. ASSUME Ascending(s), Ascending(t), Before(Positions(s), Positions(t))
        PROVE  Ascending(u)
    <2> SUFFICES ASSUME NEW p \in DOMAIN u, NEW q \in DOMAIN u, p < q PROVE u[p].pos < u[q].pos
      BY DEF Ascending
    <2>1. CASE q \in DOMAIN s
      <3>1. p \in DOMAIN s
        BY <1>2, <2>1
      <3> QED
        BY <1>3, <1>6, <2>1, <3>1 DEF Ascending
    <2>2. CASE q \notin DOMAIN s /\ p \in DOMAIN s
      <3>1. q - Len(s) \in DOMAIN t /\ u[q] = t[q - Len(s)]
        BY <1>4, <2>2
      <3>2. u[p].pos \in Positions(s) /\ u[q].pos \in Positions(t)
        BY <1>3, <2>2, <3>1 DEF Positions
      <3> QED
        BY <1>6, <3>2 DEF Before
    <2>3. CASE q \notin DOMAIN s /\ p \notin DOMAIN s
      <3>1. /\ q - Len(s) \in DOMAIN t /\ u[q] = t[q - Len(s)]
            /\ p - Len(s) \in DOMAIN t /\ u[p] = t[p - Len(s)]
        BY <1>4, <2>3
      <3>2. p - Len(s) < q - Len(s)
        BY <1>2
      <3> QED
        BY <1>6, <3>1, <3>2 DEF Ascending
    <2> QED
      BY <2>1, <2>2, <2>3
  <1> QED
    BY <1>1, <1>5, <1>6 DEF u

\* The head of a sequence, and what is behind it.
LEMMA HeadOrder ==
    ASSUME NEW s \in Seq(Char), s # <<>>
    PROVE  /\ Head(s) \in Char /\ Tail(s) \in Seq(Char) /\ s = <<Head(s)>> \o Tail(s)
           /\ Positions(s) = {Head(s).pos} \cup Positions(Tail(s))
           /\ Ascending(s) => /\ Ascending(Tail(s))
                              /\ Before({Head(s).pos}, Positions(Tail(s)))
  <1>1. /\ Head(s) \in Char /\ Tail(s) \in Seq(Char) /\ Len(Tail(s)) = Len(s) - 1
        /\ \A k \in 1 .. Len(Tail(s)) : Tail(s)[k] = s[k + 1]
    BY HeadTailProperties
  <1>2. DOMAIN s = 1 .. Len(s) /\ Len(s) \in Nat \ {0} /\ Head(s) = s[1]
        /\ DOMAIN Tail(s) = 1 .. Len(s) - 1
    BY <1>1
  <1>3. \A k \in DOMAIN Tail(s) : k + 1 \in DOMAIN s /\ Tail(s)[k] = s[k + 1] /\ k + 1 > 1
    BY <1>1, <1>2
  <1>4. \A k \in DOMAIN s : k = 1 \/ (k - 1 \in DOMAIN Tail(s) /\ s[k] = Tail(s)[k - 1])
    BY <1>1, <1>2
  <1>5. Positions(s) = {Head(s).pos} \cup Positions(Tail(s))
    <2>1. ASSUME NEW k \in DOMAIN s PROVE s[k].pos \in {Head(s).pos} \cup Positions(Tail(s))
      BY <1>2, <1>4 DEF Positions
    <2>2. ASSUME NEW k \in DOMAIN Tail(s) PROVE Tail(s)[k].pos \in Positions(s)
      BY <1>3 DEF Positions
    <2>3. 1 \in DOMAIN s
      BY <1>2
    <2>4. Head(s).pos \in Positions(s)
      BY <1>2, <2>3 DEF Positions
    <2>5. \A x : x \in Positions(s) => x \in {Head(s).pos} \cup Positions(Tail(s))
      BY <2>1 DEF Positions
    <2>6. \A x : x \in Positions(Tail(s)) => x \in Positions(s)
      BY <2>2 DEF Positions
    <2> QED
      BY <2>4, <2>5, <2>6
  <1>6. ASSUME Ascending(s) PROVE Ascending(Tail(s)) /\ Before({Head(s).pos}, Positions(Tail(s)))
    <2>1. Ascending(Tail(s))
      BY <1>2, <1>3, <1>6 DEF Ascending
    <2>2. \A k \in DOMAIN Tail(s) : s[1].pos < Tail(s)[k].pos
      BY <1>2, <1>3, <1>6 DEF Ascending
    <2> QED
      BY <1>2, <2>1, <2>2 DEF Before, Positions
  <1>7. s = <<Head(s)>> \o Tail(s)
    OBVIOUS
  <1> QED
    BY <1>1, <1>5, <1>6, <1>7

\* A byte behind a sequence.
LEMMA AppendOrder ==
    ASSUME NEW s \in Seq(Char), NEW e \in Char
    PROVE  /\ Append(s, e) \in Seq(Char) /\ Len(Append(s, e)) = Len(s) + 1
           /\ Positions(Append(s, e)) = Positions(s) \cup {e.pos}
           /\ Ascending(s) /\ Before(Positions(s), {e.pos}) => Ascending(Append(s, e))
  <1>1. <<e>> \in Seq(Char) /\ Append(s, e) = s \o <<e>>
    BY AppendIsConcat
  <1>2. Positions(<<e>>) = {e.pos} /\ Ascending(<<e>>)
    BY DEF Positions, Ascending
  <1>3. Append(s, e) \in Seq(Char) /\ Len(Append(s, e)) = Len(s) + 1
    OBVIOUS
  <1> QED
    BY <1>1, <1>2, <1>3, ConcatOrder

\* A sequence of one byte.
LEMMA SingleOrder ==
    ASSUME NEW s \in Seq(Char), Len(s) <= 1
    PROVE  /\ Ascending(s)
           /\ s # <<>> => s = <<Head(s)>> /\ Tail(s) = <<>> /\ Positions(s) = {Head(s).pos}
  <1>1. Ascending(s)
    BY DEF Ascending
  <1>2. ASSUME s # <<>> PROVE s = <<Head(s)>> /\ Tail(s) = <<>>
    <2>5. Len(s) \in Nat \ {0}
      BY <1>2, EmptySeq
    <2>1. Len(s) = 1
      <3> DEFINE len == Len(s)
      <3>1. len \in Nat \ {0} /\ len <= 1
        BY <2>5
      <3> HIDE DEF len
      <3>2. len = 1
        BY <3>1
      <3> QED
        BY <3>2 DEF len
    <2>2. Tail(s) \in Seq(Char) /\ Len(Tail(s)) = 0
      BY <1>2, <2>1, HeadTailProperties
    <2>3. Tail(s) = <<>>
      BY <2>2, EmptySeq
    <2>4. s = <<Head(s)>> \o Tail(s) /\ <<Head(s)>> \in Seq(Char)
      BY <1>2, HeadOrder
    <2> QED
      BY <2>3, <2>4, ConcatEmptySeq
  <1>3. ASSUME s # <<>> PROVE Positions(s) = {Head(s).pos}
    BY <1>2, <1>3, HeadOrder, PositionsType
  <1> QED
    BY <1>1, <1>2, <1>3

\* The bytes of a string are numbered from the first that was never asked for.
LEMMA NumberedOrder ==
    ASSUME NEW chars, Raw(chars) \in Seq(Letter), asked \in Nat
    PROVE  /\ Numbered(chars) \in Seq(Char) /\ Len(Numbered(chars)) = Len(Raw(chars))
           /\ Positions(Numbered(chars)) = asked + 1 .. asked + Len(Raw(chars))
           /\ Ascending(Numbered(chars))
  <1> DEFINE raw == Raw(chars)
             s == [q \in 1 .. Len(raw) |-> [pos |-> asked + q, char |-> raw[q]]]
  <1>1. DOMAIN raw = 1 .. Len(raw) /\ Len(raw) \in Nat /\ Numbered(chars) = s
    BY DEF Numbered
  <1>2. \A q \in 1 .. Len(raw) : raw[q] \in Letter
    OBVIOUS
  <1> HIDE DEF raw
  <1>3. \A q \in 1 .. Len(raw) : s[q] \in Char
    BY <1>1, <1>2 DEF Char
  <1>4. s \in Seq(Char) /\ Len(s) = Len(raw) /\ DOMAIN s = 1 .. Len(raw)
    BY <1>1, <1>3, IsASeq
  <1>5. \A q \in 1 .. Len(raw) : s[q].pos = asked + q
    OBVIOUS
  <1> HIDE DEF s
  <1>6. Positions(s) = asked + 1 .. asked + Len(raw)
    <2>1. Positions(s) = {asked + q : q \in 1 .. Len(raw)}
      BY <1>4, <1>5 DEF Positions
    <2>2. \A x \in asked + 1 .. asked + Len(raw) : x - asked \in 1 .. Len(raw) /\ x = asked + (x - asked)
      BY <1>1
    <2>3. \A q \in 1 .. Len(raw) : asked + q \in asked + 1 .. asked + Len(raw)
      BY <1>1
    <2> QED
      BY <2>1, <2>2, <2>3
  <1>7. Ascending(s)
    BY <1>1, <1>4, <1>5 DEF Ascending
  <1> QED
    BY <1>1, <1>4, <1>6, <1>7 DEF raw

-----------------------------------------------------------------------------
(* Types and readiness: every step of the driver, the chip and the client   *)
(* keeps Inv1.                                                              *)

LEMMA InitInv1 == UartInit => Inv1
  <1> SUFFICES ASSUME UartInit PROVE Inv1
    OBVIOUS
  <1> USE UartAssumption DEF UartInit, AtRest
  <1>1. ChipInv
    BY DEF ChipInv, Byte
  <1>2. DriverInv
    <2>1. cfg.clock = 0 /\ cfg.baud = 0 /\ todo \in Seq(Char)
      OBVIOUS
    <2>2. spin \in 0 .. TX_TIMEOUT /\ unanswered \in 0 .. TX_TIMEOUT + 1
      OBVIOUS
    <2> QED
      BY <2>1, <2>2 DEF DriverInv, InitAts, PutAts
  <1>3. ClientInv
    <2>1. got \in Seq(Nat)
      OBVIOUS
    <2> QED
      BY <2>1 DEF ClientInv, Backends
  <1>4. ReadyInv
    BY DEF ReadyInv, InitAts, ReturnAts, PutAts
  <1> QED
    BY <1>1, <1>2, <1>3, <1>4 DEF Inv1

\* Interrupts off: IER or, with the latch open, the divisor's high byte.
LEMMA ClearIerInv1 == Inv1 /\ ClearIer /\ UNCHANGED consoleVars => Inv1'
  <1> SUFFICES ASSUME Inv1, ClearIer, UNCHANGED consoleVars PROVE Inv1'
    OBVIOUS
  <1> USE UartAssumption DEF ClearIer, consoleVars, Inv1, chipVars, driverVars
  <1>5. chip' = [chip EXCEPT !.ier = 0]
    BY DEF WriteReg1, ReadyInv
  <1>6. 0 \in Byte
    BY DEF Byte
  <1>1. ChipInv'
    BY <1>5, <1>6 DEF ChipInv
  <1>2. DriverInv'
    BY DEF ChipInv, DriverInv, InitAts, ReturnAts, PutAts
  <1>3. ClientInv'
    BY DEF ClientInv
  <1>4. ReadyInv'
    <2>1. chip'.dlab = chip.dlab
      BY <1>5 DEF ChipInv
    <2> QED
      BY <2>1 DEF ReadyInv, InitAts, ReturnAts, PutAts
  <1> QED
    BY <1>1, <1>2, <1>3, <1>4

\* The divisor is written.
LEMMA SetDivisorInv1 == Inv1 /\ SetDivisor /\ UNCHANGED consoleVars => Inv1'
  <1> SUFFICES ASSUME Inv1, SetDivisor, UNCHANGED consoleVars PROVE Inv1'
    OBVIOUS
  <1> USE UartAssumption DEF SetDivisor, consoleVars, Inv1, chipVars, driverVars
  <1>1. ChipInv'
    <2>1. /\ Divisor(cfg.clock, cfg.baud) % ByteSpan \in Byte
          /\ Divisor(cfg.clock, cfg.baud) \div ByteSpan \in Byte
      BY DivisorType DEF DriverInv, InitAts
    <2> QED
      BY <2>1 DEF ChipInv
  <1>2. DriverInv'
    BY DEF ChipInv, DriverInv, InitAts, ReturnAts, PutAts
  <1>3. ClientInv'
    BY DEF ClientInv
  <1>4. ReadyInv'
    BY DEF ReadyInv, ChipInv, DriverInv, InitAts, ReturnAts, PutAts
  <1> QED
    BY <1>1, <1>2, <1>3, <1>4

\* The latch is closed and the FIFOs are emptied.
LEMMA SetFormatInv1 == Inv1 /\ SetFormat /\ UNCHANGED consoleVars => Inv1'
  <1> SUFFICES ASSUME Inv1, SetFormat, UNCHANGED consoleVars PROVE Inv1'
    OBVIOUS
  <1> USE UartAssumption DEF SetFormat, consoleVars, Inv1, chipVars, driverVars
  <1>1. ChipInv'
    <2>1. thr' \in Seq(Char) /\ Len(thr') = 0 /\ rx' \in Seq(Nat)
      OBVIOUS
    <2>2. chip' \in [dlab : BOOLEAN, ier : Byte, dll : Byte, dlm : Byte]
      <3>1. chip' = [chip EXCEPT !.dlab = FALSE]
        OBVIOUS
      <3>2. chip \in [dlab : BOOLEAN, ier : Byte, dll : Byte, dlm : Byte]
        BY DEF ChipInv
      <3> QED
        BY <3>1, <3>2
    <2>3. alive' \in BOOLEAN /\ line' \in Seq(Char) /\ received' \in Nat
      BY DEF ChipInv
    <2>4. Len(thr') <= 1
      BY <2>1
    <2> QED
      BY <2>1, <2>2, <2>3, <2>4 DEF ChipInv
  <1>2. DriverInv'
    BY PositionsType DEF ChipInv, DriverInv, InitAts, ReturnAts, PutAts
  <1>3. ClientInv'
    BY DEF ClientInv
  <1>4. ReadyInv'
    BY DEF ReadyInv, ChipInv, DriverInv, InitAts, ReturnAts, PutAts
  <1> QED
    BY <1>1, <1>2, <1>3, <1>4

\* The driver waits for an empty transmitter.
LEMMA SettleInv1 == Inv1 /\ Settle /\ UNCHANGED consoleVars => Inv1'
  <1> SUFFICES ASSUME Inv1, Settle, UNCHANGED consoleVars PROVE Inv1'
    OBVIOUS
  <1> USE UartAssumption DEF Settle, consoleVars, Inv1, chipVars, driverVars
  <1>1. ChipInv'
    BY DEF ChipInv, DriverInv, Byte
  <1>2. DriverInv'
    BY DEF DriverInv, InitAts, ReturnAts, PutAts, TransmitterEmpty, ChipInv
  <1>3. ClientInv'
    BY DEF ClientInv
  <1>4. ReadyInv'
    <2>1. uart_ready' => alive'
      BY DEF TransmitterEmpty
    <2> QED
      BY <2>1 DEF ReadyInv, ChipInv, DriverInv, InitAts, ReturnAts, PutAts, TransmitterEmpty
  <1> QED
    BY <1>1, <1>2, <1>3, <1>4

\* A byte is begun.
LEMMA BeginCharInv1 == Inv1 /\ BeginChar /\ UNCHANGED consoleVars => Inv1'
  <1> SUFFICES ASSUME Inv1, BeginChar, UNCHANGED consoleVars PROVE Inv1'
    OBVIOUS
  <1> USE UartAssumption DEF BeginChar, consoleVars, Inv1, chipVars, driverVars
  <1>1. ChipInv'
    BY DEF ChipInv, DriverInv, Byte
  <1>2. DriverInv'
    <2>1. Head(todo).pos \in Nat /\ Tail(todo) \in Seq(Char)
      BY HeadOrder DEF DriverInv, Char
    <2>2. CASE uart_ready
      <3>1. at' = "poll" /\ spin' = TX_TIMEOUT /\ todo' = todo /\ lost' = lost
        BY <2>2
      <3>2. spin' \in 0 .. TX_TIMEOUT /\ todo # <<>>
        BY <3>1
      <3> QED
        BY <3>1, <3>2 DEF DriverInv, InitAts, ReturnAts, PutAts
    <2>3. CASE ~uart_ready
      <3>1. todo' \in Seq(Char) /\ lost' \subseteq Nat
        BY <2>1, <2>3 DEF DriverInv
      <3> QED
        BY <2>3, <3>1 DEF DriverInv, InitAts, ReturnAts, PutAts
    <2> QED
      BY <2>2, <2>3 DEF DriverInv
  <1>3. ClientInv'
    BY DEF ClientInv
  <1>4. ReadyInv'
    BY DEF ReadyInv, ChipInv, DriverInv, InitAts, ReturnAts, PutAts
  <1> QED
    BY <1>1, <1>2, <1>3, <1>4

\* A byte is written.
LEMMA WriteCharInv1 == Inv1 /\ WriteChar /\ UNCHANGED consoleVars => Inv1'
  <1> SUFFICES ASSUME Inv1, WriteChar, UNCHANGED consoleVars PROVE Inv1'
    OBVIOUS
  <1> USE UartAssumption DEF WriteChar, consoleVars, Inv1, chipVars, driverVars
  <1>1. ChipInv'
    <2>1. thr = <<>> /\ ~chip.dlab /\ Head(todo) \in Char
      BY HeadOrder DEF DriverInv, ReadyInv, TransmitterEmpty
    <2>2. thr' = Append(thr, Head(todo)) /\ chip' = chip
      BY <2>1
    <2>3. Len(thr) = 0 /\ thr \in Seq(Char)
      BY <2>1 DEF ChipInv
    <2>4. thr' \in Seq(Char) /\ Len(thr') = 1
      BY <2>1, <2>2, <2>3, AppendOrder
    <2> QED
      BY <2>2, <2>4 DEF ChipInv
  <1>2. DriverInv'
    <2>1. ~chip.dlab /\ Tail(todo) \in Seq(Char)
      BY HeadOrder DEF DriverInv, ReadyInv
    <2> QED
      BY <2>1 DEF DriverInv, InitAts, ReturnAts, PutAts
  <1>3. ClientInv'
    BY DEF ClientInv
  <1>4. ReadyInv'
    BY DEF ReadyInv, ChipInv, DriverInv, InitAts, ReturnAts, PutAts
  <1> QED
    BY <1>1, <1>2, <1>3, <1>4

\* The transmitter is still busy.
LEMMA SpinOnInv1 == Inv1 /\ SpinOn /\ UNCHANGED consoleVars => Inv1'
  <1> SUFFICES ASSUME Inv1, SpinOn, UNCHANGED consoleVars PROVE Inv1'
    OBVIOUS
  <1> USE UartAssumption DEF SpinOn, consoleVars, Inv1, chipVars, driverVars
  <1>1. ChipInv'
    BY DEF ChipInv, DriverInv, Byte
  <1>2. DriverInv'
    BY DEF DriverInv, InitAts, ReturnAts, PutAts, Busy
  <1>3. ClientInv'
    BY DEF ClientInv
  <1>4. ReadyInv'
    BY DEF ReadyInv, ChipInv, DriverInv, InitAts, ReturnAts, PutAts
  <1> QED
    BY <1>1, <1>2, <1>3, <1>4

\* A byte is given up.
LEMMA DropCharInv1 == Inv1 /\ DropChar /\ UNCHANGED consoleVars => Inv1'
  <1> SUFFICES ASSUME Inv1, DropChar, UNCHANGED consoleVars PROVE Inv1'
    OBVIOUS
  <1> USE UartAssumption DEF DropChar, consoleVars, Inv1, chipVars, driverVars
  <1>1. ChipInv'
    BY DEF ChipInv, DriverInv, Byte
  <1>2. DriverInv'
    <2>1. todo # <<>> /\ Head(todo).pos \in Nat /\ Tail(todo) \in Seq(Char)
      BY HeadOrder DEF DriverInv, Char
    <2>2. todo' \in Seq(Char) /\ lost' \subseteq Nat
      BY <2>1 DEF DriverInv
    <2>3. unanswered' \in 0 .. TX_TIMEOUT + 1
      BY DEF DriverInv, Busy
    <2> QED
      BY <2>2, <2>3 DEF DriverInv, InitAts, ReturnAts, PutAts
  <1>3. ClientInv'
    BY DEF ClientInv
  <1>4. ReadyInv'
    BY DEF ReadyInv, ChipInv, DriverInv, InitAts, ReturnAts, PutAts
  <1> QED
    BY <1>1, <1>2, <1>3, <1>4

\* A string is done.
LEMMA PutsReturnInv1 == Inv1 /\ PutsReturn /\ UNCHANGED consoleVars => Inv1'
  <1> SUFFICES ASSUME Inv1, PutsReturn, UNCHANGED consoleVars PROVE Inv1'
    OBVIOUS
  <1> USE UartAssumption DEF PutsReturn, consoleVars, Inv1, chipVars, driverVars
  <1>1. ChipInv'
    BY DEF ChipInv, DriverInv, Byte
  <1>2. DriverInv'
    BY DEF ChipInv, DriverInv, InitAts, ReturnAts, PutAts
  <1>3. ClientInv'
    BY DEF ClientInv
  <1>4. ReadyInv'
    BY DEF ReadyInv, ChipInv, DriverInv, InitAts, ReturnAts, PutAts
  <1> QED
    BY <1>1, <1>2, <1>3, <1>4

\* The chip sends what it holds.
LEMMA ChipSendsInv1 == Inv1 /\ ChipSends /\ UNCHANGED consoleVars => Inv1'
  <1> SUFFICES ASSUME Inv1, ChipSends, UNCHANGED consoleVars PROVE Inv1'
    OBVIOUS
  <1> USE UartAssumption DEF ChipSends, consoleVars, Inv1, chipVars, driverVars
  <1>1. ChipInv'
    BY DEF ChipInv, DriverInv, Byte
  <1>2. DriverInv'
    BY DEF ChipInv, DriverInv, InitAts, ReturnAts, PutAts
  <1>3. ClientInv'
    BY DEF ClientInv
  <1>4. ReadyInv'
    BY DEF ReadyInv, ChipInv, DriverInv, InitAts, ReturnAts, PutAts
  <1> QED
    BY <1>1, <1>2, <1>3, <1>4

\* The chip receives.
LEMMA ChipReceivesInv1 == Inv1 /\ ChipReceives /\ UNCHANGED consoleVars => Inv1'
  <1> SUFFICES ASSUME Inv1, ChipReceives, UNCHANGED consoleVars PROVE Inv1'
    OBVIOUS
  <1> USE UartAssumption DEF ChipReceives, consoleVars, Inv1, chipVars, driverVars
  <1>1. ChipInv'
    BY DEF ChipInv, DriverInv, Byte
  <1>2. DriverInv'
    BY DEF ChipInv, DriverInv, InitAts, ReturnAts, PutAts
  <1>3. ClientInv'
    BY DEF ClientInv
  <1>4. ReadyInv'
    BY DEF ReadyInv, ChipInv, DriverInv, InitAts, ReturnAts, PutAts
  <1> QED
    BY <1>1, <1>2, <1>3, <1>4

\* An init from the device tree begins, and perhaps ends.
LEMMA BeginInitInv1 == Inv1 /\ at = "idle" /\ BeginInit /\ UNCHANGED tree => Inv1'
  <1> SUFFICES ASSUME Inv1, at = "idle", BeginInit, UNCHANGED tree PROVE Inv1'
    OBVIOUS
  <1> USE UartAssumption DEF BeginInit, Inv1, chipVars
  <1>1. ChipInv'
    BY DEF ChipInv
  <1>2. ClientInv'
    <2>1. backend' \in Backends /\ tree' = tree /\ got' = got /\ asked' = asked
      BY DEF Chosen, ClientInv, Backends
    <2>2. console_ready' \in BOOLEAN /\ other_ready' \in BOOLEAN
      BY DEF ClientInv
    <2> QED
      BY <2>1, <2>2 DEF ClientInv
  <1>3. CASE Probed.err = "ok" /\ Chosen = "ns16550a"
    <2>1. console_ready' = FALSE /\ backend' = "ns16550a" /\ EnterInit(Probed)
          /\ initialised' = initialised
      BY <1>3
    <2>2. Probed.clock \in Nat /\ Probed.baud \in Nat \ {0}
      BY <1>3, ProbedType DEF ClientInv
    <2>3. at' \in {"ier", "init_failed"} /\ uart_ready' = FALSE /\ todo' = todo
          /\ spin' = spin /\ lost' = lost /\ unanswered' = unanswered
      BY <2>1 DEF EnterInit
    <2>4. cfg' = cfg \/ cfg' = Probed
      BY <2>1 DEF EnterInit
    <2>5. at' = "ier" => cfg' = Probed
      BY <2>1 DEF EnterInit
    <2>6. todo = <<>>
      BY DEF DriverInv, PutAts
    <2>7. DriverInv'
      BY <2>2, <2>3, <2>4, <2>5, <2>6 DEF DriverInv, InitAts, ReturnAts, PutAts
    <2>8. ReadyInv'
      BY <2>1, <2>3 DEF ReadyInv, InitAts, ReturnAts, PutAts
    <2> QED
      BY <1>1, <1>2, <2>7, <2>8
  <1>4. CASE ~(Probed.err = "ok" /\ Chosen = "ns16550a")
    <2>1. UNCHANGED driverVars
      BY <1>4
    <2>2. console_ready' => backend' = "other" /\ initialised' = "other"
      BY <1>4
    <2>3. DriverInv'
      BY <2>1 DEF driverVars, DriverInv
    <2>4. ReadyInv'
      BY <2>1, <2>2 DEF ReadyInv, driverVars, InitAts, ReturnAts, PutAts, Backends
    <2> QED
      BY <1>1, <1>2, <2>3, <2>4
  <1> QED
    BY <1>3, <1>4

\* The driver's init returns to the console.
LEMMA InitReturnsInv1 == Inv1 /\ InitReturns => Inv1'
  <1> SUFFICES ASSUME Inv1, InitReturns PROVE Inv1'
    OBVIOUS
  <1> USE UartAssumption DEF InitReturns, Inv1, chipVars
  <1>1. ChipInv'
    BY DEF ChipInv
  <1>2. DriverInv'
    BY DEF DriverInv, InitAts, ReturnAts, PutAts
  <1>3. ClientInv'
    BY DEF ClientInv
  <1>4. ReadyInv'
    BY DEF ReadyInv, InitAts, ReturnAts, PutAts, Backends
  <1> QED
    BY <1>1, <1>2, <1>3, <1>4

\* The client chooses a backend.
LEMMA SetBackendInv1 == Inv1 /\ SetBackend => Inv1'
  <1> SUFFICES ASSUME Inv1, SetBackend PROVE Inv1'
    OBVIOUS
  <1> USE UartAssumption DEF SetBackend, Call, Inv1, chipVars, driverVars
  <1>1. ChipInv'
    BY DEF ChipInv
  <1>2. DriverInv'
    BY DEF DriverInv
  <1>3. ClientInv'
    BY DEF ClientInv
  <1>4. ReadyInv'
    BY DEF ReadyInv, InitAts, ReturnAts, PutAts
  <1> QED
    BY <1>1, <1>2, <1>3, <1>4

\* The client writes.
LEMMA OutputInv1 ==
    ASSUME Inv1, NEW chars \in Seq(Letter), at = "idle", Output(chars), UNCHANGED tree
    PROVE  Inv1'
  <1> USE UartAssumption DEF Output, Inv1, chipVars
  <1>1. ChipInv'
    BY DEF ChipInv
  <1>2. CASE uart_console_is_ready /\ backend = "ns16550a"
    <2>1. at' = "put" /\ todo' = Numbered(chars) /\ asked' = asked + Len(Raw(chars))
      BY <1>2
    <2>2. Raw(chars) \in Seq(Letter) /\ asked \in Nat
      BY RawIsFed DEF ClientInv
    <2>3. todo' \in Seq(Char) /\ asked' \in Nat
      BY <2>1, <2>2, NumberedOrder
    <2>4. console_ready /\ UNCHANGED <<console_ready, backend, tree, other_ready, got, initialised>>
      BY <1>2 DEF uart_console_is_ready
    <2>5. DriverInv'
      BY <2>1, <2>3 DEF DriverInv, InitAts, ReturnAts, PutAts
    <2>6. ClientInv'
      BY <2>3, <2>4 DEF ClientInv
    <2>7. ReadyInv'
      BY <1>2, <2>1, <2>4 DEF ReadyInv, InitAts, ReturnAts, PutAts
    <2> QED
      BY <1>1, <2>5, <2>6, <2>7
  <1>3. CASE ~(uart_console_is_ready /\ backend = "ns16550a")
    <2>1. UNCHANGED <<todo, asked, at>>
      BY <1>3
    <2>2. DriverInv'
      BY <2>1 DEF DriverInv
    <2>3. ClientInv'
      BY <2>1 DEF ClientInv
    <2>4. ReadyInv'
      BY <2>1 DEF ReadyInv, InitAts, ReturnAts, PutAts
    <2> QED
      BY <1>1, <2>2, <2>3, <2>4
  <1> QED
    BY <1>2, <1>3

\* The client reads.
LEMMA TryGetcInv1 == Inv1 /\ TryGetc => Inv1'
  <1> SUFFICES ASSUME Inv1, TryGetc PROVE Inv1'
    OBVIOUS
  <1> USE UartAssumption DEF TryGetc, Call, Inv1, driverVars
  <1>1. rx' \in Seq(Nat) /\ got' \in Seq(Nat)
    <2>1. CASE UNCHANGED <<got, rx>>
      BY <2>1 DEF ChipInv, ClientInv
    <2>2. CASE rx # <<>> /\ got' = Append(got, Head(rx)) /\ rx' = Tail(rx)
      <3>1. Head(rx) \in Nat /\ Tail(rx) \in Seq(Nat)
        BY <2>2, HeadTailProperties DEF ChipInv
      <3>2. got \in Seq(Nat)
        BY DEF ClientInv
      <3> QED
        BY <2>2, <3>1, <3>2
    <2> QED
      BY <2>1, <2>2
  <1>2. ChipInv'
    BY <1>1 DEF ChipInv
  <1>3. DriverInv'
    BY DEF DriverInv
  <1>4. ClientInv'
    BY <1>1 DEF ClientInv
  <1>5. ReadyInv'
    BY DEF ReadyInv, InitAts, ReturnAts, PutAts
  <1> QED
    BY <1>2, <1>3, <1>4, <1>5

\* Every step keeps Inv1.
LEMMA NextInv1 == Inv1 /\ [UartNext]_uartVars => Inv1'
  <1> SUFFICES ASSUME Inv1, [UartNext]_uartVars PROVE Inv1'
    OBVIOUS
  <1>1. CASE CallStep
    <2>1. CASE InitFromDtb
      BY <2>1, BeginInitInv1 DEF InitFromDtb, Call
    <2>2. CASE Puts
      BY <2>2, OutputInv1, StringsAreLetters DEF Puts, Call
    <2> QED
      BY <1>1, <2>1, <2>2, SetBackendInv1, TryGetcInv1 DEF CallStep
  <1>2. CASE DriverStep
    <2>1. CASE InitStep
      BY <1>2, <2>1, ClearIerInv1, SetDivisorInv1, SetFormatInv1, SettleInv1 DEF DriverStep, InitStep
    <2>2. CASE PutStep
      BY <1>2, <2>2, BeginCharInv1, WriteCharInv1, SpinOnInv1, DropCharInv1, PutsReturnInv1
         DEF DriverStep, PutStep
    <2> QED
      BY <1>2, <2>1, <2>2 DEF DriverStep
  <1>3. CASE InitReturns
    BY <1>3, InitReturnsInv1
  <1>4. CASE ChipStep
    BY <1>4, ChipSendsInv1, ChipReceivesInv1 DEF ChipStep
  <1>5. CASE UNCHANGED uartVars
    BY <1>5 DEF uartVars, Inv1, ChipInv, DriverInv, ClientInv, ReadyInv
  <1>6. CASE ClientDone
    BY <1>5, <1>6 DEF ClientDone
  <1> QED
    BY <1>1, <1>2, <1>3, <1>4, <1>5, <1>6 DEF UartNext

\* So Inv1 holds throughout.
LEMMA Inv1Holds == UartSpec => []Inv1
  <1> QED
    BY InitInv1, NextInv1, PTL DEF UartSpec

\* The types of uart_console.c's and ns16550a.c's variables: nothing is polled for
\* without a byte to write, and the chip never holds two.
THEOREM UartTypeCorrect == UartSpec => []UartTypeOK
  <1>1. Inv1 => UartTypeOK
    <2> SUFFICES ASSUME Inv1 PROVE UartTypeOK
      OBVIOUS
    <2>1. chip.dlab \in BOOLEAN /\ chip.dlm \in Byte /\ chip.ier \in Byte
      BY DEF Inv1, ChipInv
    <2> QED
      BY <2>1 DEF UartTypeOK, Inv1, ChipInv, DriverInv, ClientInv, InitAts, ReturnAts, PutAts, Byte
  <1> QED
    BY <1>1, Inv1Holds, PTL

\* Calls pass only to the backend whose init was the last to succeed, after any
\* sequence of inits and of changes of backend (uart_console.c:144-186).
THEOREM CallsGoToInitialised == UartSpec => []ReadyBackend
  <1>1. Inv1 => ReadyBackend
    BY DEF Inv1, ReadyInv, ReadyBackend, uart_console_is_ready
  <1> QED
    BY <1>1, Inv1Holds, PTL

-----------------------------------------------------------------------------
(* The divisor.                                                             *)

\* A step that touches neither the chip's registers nor the configuration.
LEMMA QuietDivisor ==
    ASSUME DivisorInv, UNCHANGED <<chip, cfg, tree>>, OnChip' => OnChip \/ at = "init_ok",
           at' = at \/ at' \in {"idle", "put", "poll", "init_failed"} \/ (at = "settle" /\ at' = "init_ok")
    PROVE  DivisorInv'
  BY DEF DivisorInv, Words, Probed

\* Every step keeps DivisorInv.
LEMMA NextDivisor == Inv1 /\ DivisorInv /\ [UartNext]_uartVars => DivisorInv'
  <1> SUFFICES ASSUME Inv1, DivisorInv, [UartNext]_uartVars PROVE DivisorInv'
    OBVIOUS
  <1> USE DEF consoleVars, chipVars, driverVars
  <1>1. CASE InitFromDtb
    <2> USE <1>1 DEF InitFromDtb, BeginInit, Call
    <2>1. chip' = chip /\ tree' = tree /\ Probed' = Probed
      BY DEF Probed
    <2>2. CASE Probed.err = "ok" /\ Chosen = "ns16550a" /\ EnterInit(Probed)
      <3>1. ~OnChip' /\ at' \in {"ier", "init_failed"} /\ cfg' \in {cfg, Probed}
        BY <2>2 DEF OnChip, EnterInit
      <3> QED
        BY <2>1, <3>1 DEF DivisorInv, Words
    <2>3. CASE UNCHANGED driverVars /\ (console_ready' => backend' = "other")
      BY <2>1, <2>3, QuietDivisor DEF OnChip
    <2> QED
      BY <2>2, <2>3
  <1>2. CASE SetBackend \/ Puts \/ TryGetc
    <2>1. UNCHANGED <<chip, cfg, tree>> /\ (OnChip' => OnChip)
      BY <1>2 DEF SetBackend, Puts, Output, TryGetc, Call, OnChip
    <2>2. at' = at \/ at' = "put"
      BY <1>2 DEF SetBackend, Puts, Output, TryGetc, Call
    <2> QED
      BY <2>1, <2>2, QuietDivisor
  <1>3. CASE ClearIer /\ UNCHANGED consoleVars
    <2>1. chip' = [chip EXCEPT !.ier = 0] /\ at' = "divisor" /\ ~OnChip' /\ cfg' = cfg /\ tree' = tree
      BY <1>3 DEF ClearIer, WriteReg1, Inv1, ReadyInv, OnChip, InitAts, PutAts
    <2>2. chip'.ier = 0 /\ Words' = Words
      BY <2>1 DEF Inv1, ChipInv, Words
    <2> QED
      BY <2>1, <2>2 DEF DivisorInv, Probed
  <1>4. CASE SetDivisor /\ UNCHANGED consoleVars
    <2>1. at = "divisor" /\ at' = "format" /\ cfg' = cfg /\ tree' = tree
      BY <1>4 DEF SetDivisor
    <2>2. CASE cfg.clock = 0
      <3>1. chip' = chip
        BY <1>4, <2>2 DEF SetDivisor
      <3> QED
        BY <2>1, <2>2, <3>1 DEF DivisorInv, Probed, Words
    <2>3. CASE cfg.clock # 0
      <3>1. chip'.ier = chip.ier /\ chip'.dll = Divisor(cfg.clock, cfg.baud) % ByteSpan
            /\ chip'.dlm = Divisor(cfg.clock, cfg.baud) \div ByteSpan
        BY <1>4, <2>3 DEF SetDivisor, Inv1, ChipInv
      <3> HIDE DEF Divisor
      <3> QED
        BY <2>1, <2>3, <3>1 DEF DivisorInv, Probed, Words
    <2> QED
      BY <2>2, <2>3
  <1>5. CASE SetFormat /\ UNCHANGED consoleVars
    <2>1. at = "format" /\ at' = "settle" /\ cfg' = cfg /\ tree' = tree
      BY <1>5 DEF SetFormat
    <2>2. chip'.ier = chip.ier /\ chip'.dll = chip.dll /\ chip'.dlm = chip.dlm
      BY <1>5 DEF SetFormat, Inv1, ChipInv
    <2> QED
      BY <2>1, <2>2 DEF DivisorInv, Probed, Words
  <1>6. CASE Settle /\ UNCHANGED consoleVars
    <2>1. UNCHANGED <<chip, cfg, tree>> /\ OnChip' = OnChip
      BY <1>6 DEF Settle, OnChip
    <2>2. at = "settle" /\ at' \in {"settle", "init_ok", "init_failed"}
      BY <1>6 DEF Settle
    <2> QED
      BY <2>1, <2>2, QuietDivisor
  <1>7. CASE PutStep /\ UNCHANGED consoleVars
    <2>1. UNCHANGED <<cfg, tree>> /\ OnChip' = OnChip /\ at' \in {"put", "poll", "idle"}
      BY <1>7 DEF PutStep, BeginChar, WriteChar, SpinOn, DropChar, PutsReturn, OnChip
    <2>2. ~chip.dlab
      BY <1>7 DEF Inv1, ReadyInv, PutStep, BeginChar, WriteChar, SpinOn, DropChar, PutsReturn
    <2>3. chip' = chip
      BY <1>7, <2>2 DEF PutStep, BeginChar, WriteChar, SpinOn, DropChar, PutsReturn
    <2> QED
      BY <2>1, <2>3, QuietDivisor
  <1>8. CASE InitReturns
    <2>1. UNCHANGED <<chip, cfg, tree>> /\ at' = "idle" /\ (OnChip' => at = "init_ok")
      BY <1>8 DEF InitReturns, OnChip
    <2> QED
      BY <2>1, QuietDivisor
  <1>9. CASE ChipStep \/ ClientDone \/ UNCHANGED uartVars
    <2>1. UNCHANGED <<chip, cfg, tree, at>> /\ OnChip' = OnChip
      BY <1>9 DEF ChipStep, ChipSends, ChipReceives, ClientDone, uartVars, OnChip
    <2> QED
      BY <2>1, QuietDivisor
  <1> QED
    BY <1>1, <1>2, <1>3, <1>4, <1>5, <1>6, <1>7, <1>8, <1>9
       DEF UartNext, CallStep, DriverStep, InitStep

\* A console that is ready on the NS16550A has its interrupts off, its latch closed and
\* the divisor of the tree's clock and baud, whatever inits went before
\* (ns16550a.c:66-106).
THEOREM ReadyChipIsSet == UartSpec => []ReadyChip
  <1>1. UartInit => DivisorInv
    BY DEF UartInit, AtRest, DivisorInv, Words, OnChip
  <1>2. Inv1 /\ DivisorInv => ReadyChip
    BY DEF Inv1, ReadyInv, InitAts, PutAts, DivisorInv, ReadyChip, OnChip, Words, uart_console_is_ready
  <1> QED
    BY <1>1, <1>2, NextDivisor, Inv1Holds, PTL DEF UartSpec

-----------------------------------------------------------------------------
(* Order.                                                                   *)

\* A step that leaves the bytes where they are.
LEMMA QuietOrder ==
    ASSUME OrderInv, UNCHANGED <<line, thr, todo, lost, asked>>
    PROVE  OrderInv'
  BY DEF OrderInv, Ascending, Positions

\* The position of a byte that is on its way is among those asked for.
LEMMA HeadIsOnItsWay ==
    ASSUME Inv1, OrderInv, todo # <<>>
    PROVE  /\ Positions(todo) = {Head(todo).pos} \cup Positions(Tail(todo))
           /\ Ascending(Tail(todo)) /\ Before({Head(todo).pos}, Positions(Tail(todo)))
           /\ Head(todo) \in Char /\ Tail(todo) \in Seq(Char)
  BY HeadOrder DEF Inv1, DriverInv, OrderInv

\* Giving the head of todo up.
LEMMA DropOrder ==
    ASSUME Inv1, OrderInv, todo # <<>>, todo' = Tail(todo), lost' = lost \cup {Head(todo).pos},
           UNCHANGED <<line, thr, asked>>
    PROVE  OrderInv'
  <1> DEFINE h == Head(todo).pos
             L == Positions(line)
             H == Positions(thr)
             T == Positions(Tail(todo))
  <1>1. /\ Positions(todo) = {h} \cup T /\ Ascending(Tail(todo)) /\ Before({h}, T)
        /\ h \in Nat /\ T \subseteq Nat
    BY HeadIsOnItsWay, PositionsType DEF Char
  <1>2. /\ Before(L, Positions(todo)) /\ Before(H, Positions(todo)) /\ Before(L, H)
        /\ L \cup H \cup Positions(todo) \cup lost = 1 .. asked
        /\ lost \cap (L \cup H \cup Positions(todo)) = {} /\ Ascending(line)
    BY DEF OrderInv
  <1>3. Positions(line)' = L /\ Positions(thr)' = H /\ Positions(todo)' = T /\ Ascending(line)'
        /\ Ascending(todo)'
    BY <1>1, <1>2 DEF Ascending, Positions
  <1>4. L \subseteq Nat /\ H \subseteq Nat
    BY PositionsType DEF Inv1, ChipInv
  <1> HIDE DEF h, L, H, T
  <1>5. h \notin T /\ h \notin L /\ h \notin H
    BY <1>1, <1>2, <1>4 DEF Before
  <1>6. Before(L, T) /\ Before(H, T) /\ L \cup H \cup T \cup (lost \cup {h}) = 1 .. asked
        /\ (lost \cup {h}) \cap (L \cup H \cup T) = {}
    BY <1>1, <1>2, <1>5 DEF Before
  <1>7. lost' = lost \cup {h} /\ asked' = asked
    BY DEF h
  <1> QED
    BY <1>2, <1>3, <1>6, <1>7 DEF OrderInv

\* The head of todo goes to the chip, which holds nothing.
LEMMA WriteOrder ==
    ASSUME Inv1, OrderInv, todo # <<>>, thr = <<>>, todo' = Tail(todo), thr' = Append(thr, Head(todo)),
           UNCHANGED <<line, lost, asked>>
    PROVE  OrderInv'
  <1> DEFINE h == Head(todo).pos
             L == Positions(line)
             T == Positions(Tail(todo))
  <1>1. /\ Positions(todo) = {h} \cup T /\ Ascending(Tail(todo)) /\ Before({h}, T)
        /\ Head(todo) \in Char
    BY HeadIsOnItsWay
  <1>2. /\ Before(L, Positions(todo)) /\ L \cup Positions(todo) \cup lost = 1 .. asked
        /\ lost \cap (L \cup Positions(todo)) = {} /\ Ascending(line) /\ Positions(thr) = {}
    BY PositionsType DEF OrderInv, Inv1, ChipInv
  <1>3. Positions(line)' = L /\ Positions(todo)' = T /\ Ascending(line)' /\ Ascending(todo)'
    BY <1>1, <1>2 DEF Ascending, Positions
  <1>4. Positions(thr)' = {h}
    <2>2. thr \in Seq(Char)
      BY DEF Inv1, ChipInv
    <2>3. Positions(Append(thr, Head(todo))) = Positions(thr) \cup {Head(todo).pos}
      BY <1>1, <2>2, AppendOrder
    <2>1. Positions(Append(thr, Head(todo))) = {h}
      BY <1>2, <2>3
    <2> QED
      BY <2>1 DEF Positions
  <1> HIDE DEF h, L, T
  <1>5. /\ Before(L, {h}) /\ Before(L, T) /\ L \cup {h} \cup T \cup lost = 1 .. asked
        /\ lost \cap (L \cup {h} \cup T) = {}
    BY <1>1, <1>2 DEF Before
  <1>6. lost' = lost /\ asked' = asked
    OBVIOUS
  <1> QED
    BY <1>1, <1>3, <1>4, <1>5, <1>6 DEF OrderInv

\* The byte of the chip goes out.
LEMMA SendOrder ==
    ASSUME Inv1, OrderInv, thr # <<>>, line' = Append(line, Head(thr)), thr' = Tail(thr),
           UNCHANGED <<todo, lost, asked>>
    PROVE  OrderInv'
  <1> DEFINE h == Head(thr).pos
             L == Positions(line)
             T == Positions(todo)
  <1>1. Tail(thr) = <<>> /\ Positions(thr) = {h} /\ Head(thr) \in Char
    BY SingleOrder, HeadOrder DEF Inv1, ChipInv
  <1>2. /\ Before(L, {h}) /\ Before(L, T) /\ Before({h}, T) /\ Ascending(line) /\ Ascending(todo)
        /\ L \cup {h} \cup T \cup lost = 1 .. asked /\ lost \cap (L \cup {h} \cup T) = {}
    BY <1>1 DEF OrderInv
  <1>3. Positions(todo)' = T /\ Ascending(todo)'
    BY <1>2 DEF Positions, Ascending
  <1>4. Positions(line)' = L \cup {h} /\ Ascending(line)'
    <2>2. line \in Seq(Char) /\ Head(thr) \in Char /\ Ascending(line)
          /\ Before(Positions(line), {Head(thr).pos})
      BY <1>1, <1>2 DEF Inv1, ChipInv
    <2>1. Positions(Append(line, Head(thr))) = L \cup {h} /\ Ascending(Append(line, Head(thr)))
      BY <2>2, AppendOrder
    <2> QED
      BY <2>1 DEF Positions, Ascending
  <1>5. Positions(thr)' = {}
    BY <1>1 DEF Positions
  <1> HIDE DEF h, L, T
  <1>6. /\ Before(L \cup {h}, {}) /\ Before(L \cup {h}, T) /\ Before({}, T)
        /\ (L \cup {h}) \cup {} \cup T \cup lost = 1 .. asked
        /\ lost \cap ((L \cup {h}) \cup {} \cup T) = {}
    BY <1>2 DEF Before
  <1>7. lost' = lost /\ asked' = asked
    OBVIOUS
  <1> QED
    BY <1>3, <1>4, <1>5, <1>6, <1>7 DEF OrderInv

\* An init empties the chip.
LEMMA ResetOrder ==
    ASSUME Inv1, OrderInv, thr' = <<>>, lost' = lost \cup Positions(thr), UNCHANGED <<line, todo, asked>>
    PROVE  OrderInv'
  <1> DEFINE L == Positions(line)
             H == Positions(thr)
             T == Positions(todo)
  <1>1. /\ Before(L, H) /\ Before(L, T) /\ Before(H, T) /\ Ascending(line) /\ Ascending(todo)
        /\ L \cup H \cup T \cup lost = 1 .. asked /\ lost \cap (L \cup H \cup T) = {}
    BY DEF OrderInv
  <1>2. /\ Positions(line)' = L /\ Positions(todo)' = T /\ Positions(thr)' = {}
        /\ Ascending(line)' /\ Ascending(todo)'
    BY <1>1 DEF Positions, Ascending
  <1>3. (L \cup T) \cap H = {}
    <2>1. L \subseteq Nat /\ H \subseteq Nat /\ T \subseteq Nat
      BY PositionsType DEF Inv1, ChipInv, DriverInv
    <2> HIDE DEF L, H, T
    <2> QED
      BY <1>1, <2>1 DEF Before
  <1> HIDE DEF L, H, T
  <1>4. /\ Before(L, {}) /\ Before({}, T) /\ L \cup {} \cup T \cup (lost \cup H) = 1 .. asked
        /\ (lost \cup H) \cap (L \cup {} \cup T) = {}
    BY <1>1, <1>3 DEF Before
  <1>5. lost' = lost \cup H /\ asked' = asked
    BY DEF H
  <1> QED
    BY <1>1, <1>2, <1>4, <1>5 DEF OrderInv

\* A call that writes: its bytes are behind all that went before.
LEMMA PutsOrder ==
    ASSUME Inv1, OrderInv, NEW chars, Raw(chars) \in Seq(Letter), at = "idle",
           todo' = Numbered(chars), asked' = asked + Len(Raw(chars)), UNCHANGED <<line, thr, lost>>
    PROVE  OrderInv'
  <1> DEFINE L == Positions(line)
             H == Positions(thr)
             n == Len(Raw(chars))
  <1>1. /\ Before(L, H) /\ Ascending(line) /\ L \cup H \cup lost = 1 .. asked
        /\ lost \cap (L \cup H) = {}
    <2>1. todo = <<>>
      BY DEF Inv1, DriverInv, PutAts
    <2>2. Positions(todo) = {}
      BY <2>1 DEF Positions
    <2> QED
      BY <2>2 DEF OrderInv
  <1>2. /\ Positions(line)' = L /\ Positions(thr)' = H /\ Ascending(line)'
    BY <1>1 DEF Positions, Ascending
  <1>3. Positions(todo)' = asked + 1 .. asked + n /\ Ascending(todo)'
    <2>1. /\ Positions(Numbered(chars)) = asked + 1 .. asked + n
          /\ Ascending(Numbered(chars))
      BY NumberedOrder DEF Inv1, ClientInv
    <2> QED
      BY <2>1 DEF Positions, Ascending
  <1>4. n \in Nat /\ asked \in Nat
    BY DEF Inv1, ClientInv
  <1> HIDE DEF L, H, n
  <1>5. /\ Before(L, asked + 1 .. asked + n) /\ Before(H, asked + 1 .. asked + n)
        /\ L \cup H \cup (asked + 1 .. asked + n) \cup lost = 1 .. asked + n
        /\ lost \cap (L \cup H \cup (asked + 1 .. asked + n)) = {}
    <2>1. 1 .. asked + n = (1 .. asked) \cup (asked + 1 .. asked + n)
      BY <1>4
    <2>2. (1 .. asked) \cap (asked + 1 .. asked + n) = {} /\ Before(1 .. asked, asked + 1 .. asked + n)
      BY <1>4 DEF Before
    <2>3. L \subseteq 1 .. asked /\ H \subseteq 1 .. asked /\ lost \subseteq 1 .. asked
      BY <1>1
    <2> HIDE DEF Before
    <2>4. Before(L, asked + 1 .. asked + n) /\ Before(H, asked + 1 .. asked + n)
      BY <2>2, <2>3 DEF Before
    <2>5. L \cup H \cup (asked + 1 .. asked + n) \cup lost = 1 .. asked + n
      BY <1>1, <2>1
    <2> QED
      BY <1>1, <2>2, <2>3, <2>4, <2>5
  <1>6. lost' = lost /\ asked' = asked + n
    BY DEF n
  <1> QED
    BY <1>1, <1>2, <1>3, <1>5, <1>6 DEF OrderInv

\* Every step keeps OrderInv.
LEMMA NextOrder == Inv1 /\ OrderInv /\ [UartNext]_uartVars => OrderInv'
  <1> SUFFICES ASSUME Inv1, OrderInv, [UartNext]_uartVars PROVE OrderInv'
    OBVIOUS
  <1> USE DEF consoleVars, chipVars, driverVars
  <1>1. CASE InitFromDtb
    BY <1>1, QuietOrder DEF InitFromDtb, BeginInit, EnterInit
  <1>2. CASE SetBackend \/ TryGetc
    BY <1>2, QuietOrder DEF SetBackend, TryGetc
  <1>3. CASE Puts
    <2> PICK chars \in Strings : Call /\ Output(chars)
      BY <1>3 DEF Puts
    <2>1. CASE uart_console_is_ready /\ backend = "ns16550a"
      BY <2>1, PutsOrder, StringsAreLetters, RawIsFed DEF Call, Output
    <2>2. CASE ~(uart_console_is_ready /\ backend = "ns16550a")
      BY <2>2, QuietOrder DEF Output
    <2> QED
      BY <2>1, <2>2
  <1>4. CASE (ClearIer \/ SetDivisor \/ Settle) /\ UNCHANGED consoleVars
    BY <1>4, QuietOrder DEF ClearIer, SetDivisor, Settle
  <1>5. CASE SetFormat /\ UNCHANGED consoleVars
    BY <1>5, ResetOrder DEF SetFormat
  <1>6. CASE BeginChar /\ UNCHANGED consoleVars
    <2>1. CASE uart_ready
      BY <1>6, <2>1, QuietOrder DEF BeginChar
    <2>2. CASE ~uart_ready
      BY <1>6, <2>2, DropOrder DEF BeginChar
    <2> QED
      BY <2>1, <2>2
  <1>7. CASE WriteChar /\ UNCHANGED consoleVars
    <2>1. ~chip.dlab /\ thr = <<>> /\ todo # <<>>
      BY <1>7 DEF WriteChar, TransmitterEmpty, Inv1, ReadyInv, DriverInv
    <2>2. todo' = Tail(todo) /\ thr' = Append(thr, Head(todo)) /\ UNCHANGED <<line, lost, asked>>
      BY <1>7, <2>1 DEF WriteChar
    <2> QED
      BY <2>1, <2>2, WriteOrder
  <1>8. CASE DropChar /\ UNCHANGED consoleVars
    <2>1. todo # <<>>
      BY <1>8 DEF DropChar, Inv1, DriverInv
    <2> QED
      BY <1>8, <2>1, DropOrder DEF DropChar
  <1>9. CASE (SpinOn \/ PutsReturn) /\ UNCHANGED consoleVars
    BY <1>9, QuietOrder DEF SpinOn, PutsReturn
  <1>10. CASE ChipStep
    <2>1. CASE ChipSends
      BY <1>10, <2>1, SendOrder DEF ChipSends, ChipStep
    <2>2. CASE ChipReceives
      BY <1>10, <2>2, QuietOrder DEF ChipReceives, ChipStep
    <2> QED
      BY <1>10, <2>1, <2>2 DEF ChipStep
  <1>11. CASE InitReturns \/ ClientDone \/ UNCHANGED uartVars
    BY <1>11, QuietOrder DEF InitReturns, ClientDone, uartVars
  <1> QED
    BY <1>1, <1>2, <1>3, <1>4, <1>5, <1>6, <1>7, <1>8, <1>9, <1>10, <1>11
       DEF UartNext, CallStep, DriverStep, InitStep, PutStep

LEMMA InitOrder == UartInit => OrderInv
  <1> SUFFICES ASSUME UartInit PROVE OrderInv
    OBVIOUS
  <1>1. line = <<>> /\ thr = <<>> /\ todo = <<>> /\ lost = {} /\ asked = 0
    BY DEF UartInit, AtRest
  <1>2. Positions(line) = {} /\ Positions(thr) = {} /\ Positions(todo) = {} /\ 1 .. asked = {}
    BY <1>1 DEF Positions
  <1> QED
    BY <1>1, <1>2 DEF OrderInv, Ascending, Before

\* Every byte the console took is on the line, in the chip, still to be written, or
\* given up, and in the order of writing, for strings of every length.
THEOREM OutputKeepsOrder == UartSpec => []OutputInOrder
  <1>1. Inv1 /\ OrderInv => OutputInOrder
    <2> SUFFICES ASSUME Inv1, OrderInv PROVE OutputInOrder
      OBVIOUS
    <2>1. line \in Seq(Char) /\ thr \in Seq(Char) /\ todo \in Seq(Char) /\ Ascending(thr)
      BY SingleOrder DEF Inv1, ChipInv, DriverInv
    <2>2. /\ line \o thr \in Seq(Char) /\ Ascending(line \o thr)
          /\ Positions(line \o thr) = Positions(line) \cup Positions(thr)
      BY <2>1, ConcatOrder DEF OrderInv
    <2>3. Before(Positions(line \o thr), Positions(todo))
      BY <2>2 DEF OrderInv, Before
    <2>4. /\ Ascending((line \o thr) \o todo)
          /\ Positions((line \o thr) \o todo) = Positions(line \o thr) \cup Positions(todo)
      BY <2>1, <2>2, <2>3, ConcatOrder DEF OrderInv
    <2>5. InFlight = (line \o thr) \o todo
      BY DEF InFlight
    <2>6. /\ Positions(InFlight) = Positions(line) \cup Positions(thr) \cup Positions(todo)
          /\ Ascending(InFlight)
      BY <2>2, <2>4, <2>5
    <2> QED
      BY <2>6 DEF OutputInOrder, OrderInv, Ascending
  <1> QED
    BY <1>1, NextOrder, InitOrder, Inv1Holds, PTL DEF UartSpec

-----------------------------------------------------------------------------
(* Carriage returns.                                                        *)

\* The bytes of a sequence, and all that are in the chip, on the line or still to be
\* written.
BytesOf(s) == {s[q] : q \in DOMAIN s}

Bytes == BytesOf(line) \cup BytesOf(thr) \cup BytesOf(todo)

\* The carriage return that belongs to the line feed b.
ReturnOf(b) == [pos |-> b.pos - 1, char |-> "cr"]

\* The carriage return of a line feed that was not lost is not lost or known to be.
FeedInv == \A b \in Bytes : b.char = "lf" => ReturnOf(b) \in Bytes \/ b.pos - 1 \in lost

LEMMA ConcatBytes ==
    ASSUME NEW s \in Seq(Char), NEW t \in Seq(Char)
    PROVE  BytesOf(s \o t) = BytesOf(s) \cup BytesOf(t)
  <1> DEFINE u == s \o t
             n == Len(s)
             m == Len(t)
  <1>1. /\ DOMAIN s = 1 .. n /\ DOMAIN t = 1 .. m /\ DOMAIN u = 1 .. n + m
        /\ n \in Nat /\ m \in Nat
        /\ \A q \in 1 .. n : u[q] = s[q]
        /\ \A q \in 1 .. m : u[n + q] = t[q]
    BY ConcatFacts
  <1> HIDE DEF u, n, m
  <1>2. ASSUME NEW q \in 1 .. n + m
        PROVE  u[q] \in BytesOf(s) \cup BytesOf(t)
    <2>1. CASE q \in 1 .. n
      BY <1>1, <2>1 DEF BytesOf
    <2>2. CASE q \notin 1 .. n
      <3>1. PICK r \in 1 .. m : r = q - n
        BY <1>1, <2>2
      <3>2. n + r = q
        BY <1>1, <3>1
      <3>3. u[q] = t[r]
        BY <1>1, <3>2
      <3> QED
        BY <1>1, <3>3 DEF BytesOf
    <2> QED
      BY <2>1, <2>2
  <1>3. ASSUME NEW q \in 1 .. n PROVE s[q] \in BytesOf(u)
    <2>1. q \in 1 .. n + m
      BY <1>1
    <2> QED
      BY <1>1, <2>1 DEF BytesOf
  <1>4. ASSUME NEW q \in 1 .. m PROVE t[q] \in BytesOf(u)
    <2>1. n + q \in 1 .. n + m
      BY <1>1
    <2> QED
      BY <1>1, <2>1 DEF BytesOf
  <1>5. \A x : x \in BytesOf(u) => x \in BytesOf(s) \cup BytesOf(t)
    BY <1>1, <1>2 DEF BytesOf
  <1>6. \A x : x \in BytesOf(s) \cup BytesOf(t) => x \in BytesOf(u)
    BY <1>1, <1>3, <1>4 DEF BytesOf
  <1> QED
    BY <1>5, <1>6 DEF u

LEMMA OneByte ==
    ASSUME NEW e \in Char, NEW s \in Seq(Char)
    PROVE  BytesOf(<<e>>) = {e} /\ BytesOf(<<>>) = {} /\ BytesOf(Append(s, e)) = BytesOf(s) \cup {e}
  <1>1. BytesOf(<<e>>) = {e} /\ BytesOf(<<>>) = {}
    BY DEF BytesOf
  <1>2. <<e>> \in Seq(Char) /\ Append(s, e) = s \o <<e>>
    BY AppendIsConcat
  <1> QED
    BY <1>1, <1>2, ConcatBytes

LEMMA HeadBytes ==
    ASSUME NEW s \in Seq(Char), s # <<>>
    PROVE  /\ BytesOf(s) = {Head(s)} \cup BytesOf(Tail(s))
           /\ Head(s) \in Char /\ Tail(s) \in Seq(Char)
  <1>1. Head(s) \in Char /\ Tail(s) \in Seq(Char) /\ s = <<Head(s)>> \o Tail(s)
    BY HeadOrder
  <1>2. <<Head(s)>> \in Seq(Char) /\ BytesOf(<<Head(s)>>) = {Head(s)}
    BY <1>1, OneByte
  <1>3. BytesOf(<<Head(s)>> \o Tail(s)) = {Head(s)} \cup BytesOf(Tail(s))
    BY <1>1, <1>2, ConcatBytes
  <1> QED
    BY <1>1, <1>3

\* A step that takes bytes away and notes their positions.
LEMMA FeedKept ==
    ASSUME FeedInv, Bytes' \subseteq Bytes, lost \subseteq lost',
           \A b \in Bytes : b \in Bytes' \/ b.pos \in lost'
    PROVE  FeedInv'
  <1> SUFFICES ASSUME NEW b \in Bytes', b.char = "lf"
               PROVE  ReturnOf(b) \in Bytes' \/ b.pos - 1 \in lost'
    BY DEF FeedInv, ReturnOf
  <1>1. ReturnOf(b) \in Bytes \/ b.pos - 1 \in lost
    BY DEF FeedInv
  <1>2. ReturnOf(b).pos = b.pos - 1
    BY DEF ReturnOf
  <1> QED
    BY <1>1, <1>2

\* A step that leaves the bytes where they are.
LEMMA QuietFeed ==
    ASSUME FeedInv, UNCHANGED <<line, thr, todo, lost>>
    PROVE  FeedInv'
  <1>1. Bytes' = Bytes
    BY DEF Bytes, BytesOf
  <1> QED
    BY <1>1, FeedKept

\* The head of todo is given up.
LEMMA DropFeed ==
    ASSUME Inv1, FeedInv, todo # <<>>, todo' = Tail(todo), lost' = lost \cup {Head(todo).pos},
           UNCHANGED <<line, thr>>
    PROVE  FeedInv'
  <1>1. BytesOf(todo) = {Head(todo)} \cup BytesOf(Tail(todo))
    BY HeadBytes DEF Inv1, DriverInv
  <1>2. BytesOf(line)' = BytesOf(line) /\ BytesOf(thr)' = BytesOf(thr)
        /\ BytesOf(todo)' = BytesOf(Tail(todo))
    BY DEF BytesOf
  <1> HIDE DEF BytesOf
  <1>3. Bytes' \subseteq Bytes /\ \A b \in Bytes : b \in Bytes' \/ b = Head(todo)
    BY <1>1, <1>2 DEF Bytes
  <1> QED
    BY <1>3, FeedKept

\* The head of todo goes to the chip.
LEMMA WriteFeed ==
    ASSUME Inv1, FeedInv, todo # <<>>, todo' = Tail(todo), thr' = Append(thr, Head(todo)),
           UNCHANGED <<line, lost>>
    PROVE  FeedInv'
  <1>1. BytesOf(todo) = {Head(todo)} \cup BytesOf(Tail(todo)) /\ Head(todo) \in Char
    BY HeadBytes DEF Inv1, DriverInv
  <1>2. BytesOf(Append(thr, Head(todo))) = BytesOf(thr) \cup {Head(todo)}
    BY <1>1, OneByte DEF Inv1, ChipInv
  <1>3. BytesOf(line)' = BytesOf(line) /\ BytesOf(thr)' = BytesOf(Append(thr, Head(todo)))
        /\ BytesOf(todo)' = BytesOf(Tail(todo))
    BY DEF BytesOf
  <1> HIDE DEF BytesOf
  <1>4. Bytes' = Bytes
    BY <1>1, <1>2, <1>3 DEF Bytes
  <1> QED
    BY <1>4, FeedKept

\* The chip sends.
LEMMA SendFeed ==
    ASSUME Inv1, FeedInv, thr # <<>>, line' = Append(line, Head(thr)), thr' = Tail(thr),
           UNCHANGED <<todo, lost>>
    PROVE  FeedInv'
  <1>1. BytesOf(thr) = {Head(thr)} \cup BytesOf(Tail(thr)) /\ Head(thr) \in Char
    BY HeadBytes DEF Inv1, ChipInv
  <1>2. BytesOf(Append(line, Head(thr))) = BytesOf(line) \cup {Head(thr)}
    BY <1>1, OneByte DEF Inv1, ChipInv
  <1>3. BytesOf(line)' = BytesOf(Append(line, Head(thr))) /\ BytesOf(thr)' = BytesOf(Tail(thr))
        /\ BytesOf(todo)' = BytesOf(todo)
    BY DEF BytesOf
  <1> HIDE DEF BytesOf
  <1>4. Bytes' = Bytes
    BY <1>1, <1>2, <1>3 DEF Bytes
  <1> QED
    BY <1>4, FeedKept

\* An init empties the FIFO.
LEMMA ResetFeed ==
    ASSUME Inv1, FeedInv, thr' = <<>>, lost' = lost \cup Positions(thr), UNCHANGED <<line, todo>>
    PROVE  FeedInv'
  <1>1. BytesOf(line)' = BytesOf(line) /\ BytesOf(thr)' = {} /\ BytesOf(todo)' = BytesOf(todo)
    BY DEF BytesOf
  <1>2. \A b \in BytesOf(thr) : b.pos \in Positions(thr)
    BY DEF BytesOf, Positions
  <1> HIDE DEF BytesOf
  <1>3. Bytes' \subseteq Bytes /\ \A b \in Bytes : b \in Bytes' \/ b \in BytesOf(thr)
    BY <1>1 DEF Bytes
  <1> QED
    BY <1>2, <1>3, FeedKept

\* A string is begun: its line feeds bring their carriage returns with them.
LEMMA PutsFeed ==
    ASSUME Inv1, FeedInv, NEW chars \in Seq(Letter), at = "idle", todo' = Numbered(chars),
           UNCHANGED <<line, thr, lost>>
    PROVE  FeedInv'
  <1> DEFINE raw == Raw(chars)
             new == Numbered(chars)
  <1>1. todo = <<>> /\ asked \in Nat
    BY DEF Inv1, DriverInv, ClientInv, PutAts
  <1>2. raw \in Seq(Letter) /\ Fed(raw)
    BY RawIsFed
  <1>3. DOMAIN raw = 1 .. Len(raw) /\ Len(raw) \in Nat
    BY <1>2
  <1>4. DOMAIN new = DOMAIN raw /\ \A q \in DOMAIN raw : new[q] = [pos |-> asked + q, char |-> raw[q]]
    BY DEF Numbered
  <1>5. BytesOf(line)' = BytesOf(line) /\ BytesOf(thr)' = BytesOf(thr)
        /\ BytesOf(todo)' = BytesOf(new)
    BY DEF BytesOf
  <1>6. BytesOf(todo) = {}
    BY <1>1 DEF BytesOf
  <1> HIDE DEF raw, new
  <1>7. ASSUME NEW b \in BytesOf(new), b.char = "lf" PROVE ReturnOf(b) \in BytesOf(new)
    <2>1. PICK q \in DOMAIN new : b = new[q]
      BY DEF BytesOf
    <2>2. q \in 1 .. Len(raw) /\ b.pos = asked + q /\ raw[q] = "lf"
      BY <1>3, <1>4, <1>7, <2>1
    <2>3. q - 1 \in DOMAIN raw /\ raw[q - 1] = "cr"
      BY <1>2, <1>3, <2>2 DEF Fed
    <2>4. new[q - 1] = [pos |-> asked + (q - 1), char |-> "cr"]
      BY <1>4, <2>3
    <2>5. asked + (q - 1) = b.pos - 1
      BY <1>1, <2>2
    <2>6. new[q - 1] = ReturnOf(b)
      BY <2>4, <2>5 DEF ReturnOf
    <2> QED
      BY <1>4, <2>3, <2>6 DEF BytesOf
  <1> HIDE DEF BytesOf
  <1>8. Bytes' = Bytes \cup BytesOf(new)
    BY <1>5, <1>6 DEF Bytes
  <1> SUFFICES ASSUME NEW b \in Bytes', b.char = "lf"
               PROVE  ReturnOf(b) \in Bytes' \/ b.pos - 1 \in lost
    BY DEF FeedInv, ReturnOf
  <1>9. CASE b \in Bytes
    BY <1>8, <1>9 DEF FeedInv
  <1>10. CASE b \in BytesOf(new)
    BY <1>7, <1>8, <1>10
  <1> QED
    BY <1>8, <1>9, <1>10

\* Every step keeps FeedInv.
LEMMA NextFeed == Inv1 /\ FeedInv /\ [UartNext]_uartVars => FeedInv'
  <1> SUFFICES ASSUME Inv1, FeedInv, [UartNext]_uartVars PROVE FeedInv'
    OBVIOUS
  <1> USE DEF consoleVars, chipVars, driverVars
  <1>1. CASE InitFromDtb
    BY <1>1, QuietFeed DEF InitFromDtb, BeginInit, EnterInit
  <1>2. CASE SetBackend \/ TryGetc
    BY <1>2, QuietFeed DEF SetBackend, TryGetc
  <1>3. CASE Puts
    <2> PICK chars \in Strings : Call /\ Output(chars)
      BY <1>3 DEF Puts
    <2>1. CASE uart_console_is_ready /\ backend = "ns16550a"
      BY <2>1, PutsFeed, StringsAreLetters DEF Call, Output
    <2>2. CASE ~(uart_console_is_ready /\ backend = "ns16550a")
      BY <2>2, QuietFeed DEF Output
    <2> QED
      BY <2>1, <2>2
  <1>4. CASE (ClearIer \/ SetDivisor \/ Settle) /\ UNCHANGED consoleVars
    BY <1>4, QuietFeed DEF ClearIer, SetDivisor, Settle
  <1>5. CASE SetFormat /\ UNCHANGED consoleVars
    BY <1>5, ResetFeed DEF SetFormat
  <1>6. CASE BeginChar /\ UNCHANGED consoleVars
    <2>1. CASE uart_ready
      BY <1>6, <2>1, QuietFeed DEF BeginChar
    <2>2. CASE ~uart_ready
      BY <1>6, <2>2, DropFeed DEF BeginChar
    <2> QED
      BY <2>1, <2>2
  <1>7. CASE WriteChar /\ UNCHANGED consoleVars
    <2>1. ~chip.dlab /\ todo # <<>>
      BY <1>7 DEF WriteChar, Inv1, ReadyInv, DriverInv
    <2>2. todo' = Tail(todo) /\ thr' = Append(thr, Head(todo)) /\ UNCHANGED <<line, lost>>
      BY <1>7, <2>1 DEF WriteChar
    <2> QED
      BY <2>1, <2>2, WriteFeed
  <1>8. CASE DropChar /\ UNCHANGED consoleVars
    <2>1. todo # <<>>
      BY <1>8 DEF DropChar, Inv1, DriverInv
    <2> QED
      BY <1>8, <2>1, DropFeed DEF DropChar
  <1>9. CASE (SpinOn \/ PutsReturn) /\ UNCHANGED consoleVars
    BY <1>9, QuietFeed DEF SpinOn, PutsReturn
  <1>10. CASE ChipStep
    <2>1. CASE ChipSends
      BY <1>10, <2>1, SendFeed DEF ChipSends, ChipStep
    <2>2. CASE ChipReceives
      BY <1>10, <2>2, QuietFeed DEF ChipReceives, ChipStep
    <2> QED
      BY <1>10, <2>1, <2>2 DEF ChipStep
  <1>11. CASE InitReturns \/ ClientDone \/ UNCHANGED uartVars
    BY <1>11, QuietFeed DEF InitReturns, ClientDone, uartVars
  <1> QED
    BY <1>1, <1>2, <1>3, <1>4, <1>5, <1>6, <1>7, <1>8, <1>9, <1>10, <1>11
       DEF UartNext, CallStep, DriverStep, InitStep, PutStep

\* On an ascending line the byte with the position before another's is the one
\* before it.
LEMMA NextOnLine ==
    ASSUME NEW s \in Seq(Char), Ascending(s), NEW q \in DOMAIN s, NEW r \in DOMAIN s,
           s[r].pos = s[q].pos - 1
    PROVE  r = q - 1
  <1>0. DOMAIN s = 1 .. Len(s) /\ Len(s) \in Nat /\ \A p \in 1 .. Len(s) : s[p] \in Char
    OBVIOUS
  <1>1. DOMAIN s = 1 .. Len(s) /\ Len(s) \in Nat /\ \A p \in DOMAIN s : s[p].pos \in Nat
    BY <1>0 DEF Char
  <1>2. \A p1, p2 \in DOMAIN s : p1 < p2 => s[p1].pos < s[p2].pos
    BY DEF Ascending
  <1>3. r < q
    <2>1. ~(q < r) /\ q # r
      BY <1>1, <1>2
    <2> QED
      BY <1>1, <2>1
  <1>4. ~(r < q - 1)
    <2> SUFFICES ASSUME r < q - 1 PROVE FALSE
      OBVIOUS
    <2>1. q - 1 \in DOMAIN s /\ q - 1 < q
      BY <1>1, <1>3
    <2>2. s[r].pos < s[q - 1].pos /\ s[q - 1].pos < s[q].pos
      BY <1>2, <2>1
    <2> QED
      BY <1>1, <2>1, <2>2
  <1> QED
    BY <1>1, <1>3, <1>4

\* A line feed on the line has its carriage return just before it, or that byte was
\* given up, however many timeouts and inits there were, for strings of every length.
THEOREM FeedsFollowReturns == UartSpec => []ReturnBeforeFeed
  <1>1. UartInit => OrderInv /\ FeedInv
    <2> SUFFICES ASSUME UartInit PROVE OrderInv /\ FeedInv
      OBVIOUS
    <2>1. line = <<>> /\ thr = <<>> /\ todo = <<>>
      BY DEF UartInit, AtRest
    <2>2. FeedInv
      BY <2>1 DEF FeedInv, Bytes, BytesOf
    <2> QED
      BY <2>2, InitOrder
  <1>2. Inv1 /\ OrderInv /\ FeedInv => ReturnBeforeFeed
    <2> SUFFICES ASSUME Inv1, OrderInv, FeedInv, NEW q \in DOMAIN line, line[q].char = "lf",
                        line[q].pos - 1 \notin lost
                 PROVE  q > 1 /\ line[q - 1].char = "cr" /\ line[q - 1].pos = line[q].pos - 1
      BY DEF ReturnBeforeFeed
    <2> DEFINE b == line[q]
    <2>0. line \in Seq(Char) /\ q \in 1 .. Len(line) /\ Len(line) \in Nat
      BY DEF Inv1, ChipInv
    <2>1. line \in Seq(Char) /\ b \in Char /\ b.pos \in Nat
      <3>1. b \in Char
        BY <2>0
      <3> QED
        BY <2>0, <3>1 DEF Char
    <2>2. b \in BytesOf(line) /\ b.pos \in Positions(line)
      BY DEF BytesOf, Positions
    <2> HIDE DEF b
    <2>3. ReturnOf(b) \in Bytes
      BY <2>2 DEF FeedInv, Bytes, b
    <2>4. ReturnOf(b).pos = b.pos - 1 /\ ReturnOf(b).char = "cr"
      BY DEF ReturnOf
    <2>5. b.pos - 1 \notin Positions(thr) /\ b.pos - 1 \notin Positions(todo)
      <3>1. \A x \in Positions(thr) \cup Positions(todo) : b.pos < x
        BY <2>2 DEF OrderInv, Before
      <3>2. ~(b.pos < b.pos - 1)
        BY <2>1
      <3> QED
        BY <3>1, <3>2
    <2>6. ReturnOf(b) \in BytesOf(line)
      <3>1. ReturnOf(b) \notin BytesOf(thr) /\ ReturnOf(b) \notin BytesOf(todo)
        BY <2>4, <2>5 DEF BytesOf, Positions
      <3> QED
        BY <2>3, <3>1 DEF Bytes
    <2>7. PICK r \in DOMAIN line : line[r] = ReturnOf(b)
      BY <2>6 DEF BytesOf
    <2>8. r = q - 1
      BY <2>1, <2>4, <2>7, NextOnLine DEF OrderInv, b
    <2>9. r > 0 /\ q \in Nat
      BY <2>1
    <2> QED
      BY <2>4, <2>7, <2>8, <2>9 DEF b
  <1> QED
    BY <1>1, <1>2, NextOrder, NextFeed, Inv1Holds, PTL DEF UartSpec

-----------------------------------------------------------------------------
(* The countdown.                                                           *)

\* Every step keeps PollInv.
LEMMA NextPoll == Inv1 /\ PollInv /\ [UartNext]_uartVars => PollInv'
  <1> SUFFICES ASSUME Inv1, PollInv, [UartNext]_uartVars PROVE PollInv'
    OBVIOUS
  <1> USE DEF consoleVars, chipVars, driverVars
  <1>1. TX_TIMEOUT \in Nat /\ spin \in Nat /\ unanswered \in Nat
    BY UartAssumption DEF Inv1, DriverInv
  <1>2. CASE BeginChar
    <2>1. at' = "poll" => spin' = TX_TIMEOUT /\ unanswered' = 0
      BY <1>2 DEF BeginChar
    <2> QED
      BY <1>1, <2>1 DEF PollInv
  <1>3. CASE SpinOn
    <2>1. spin' = spin - 1 /\ at = "poll" /\ ~TransmitterEmpty
      BY <1>3 DEF SpinOn
    <2>2. unanswered + spin = TX_TIMEOUT /\ spin > 0
      BY <1>3, <2>1 DEF PollInv, SpinOn
    <2>3. unanswered' = unanswered + 1
      BY <1>1, <1>3, <2>2 DEF SpinOn, Busy
    <2>4. unanswered' + spin' = TX_TIMEOUT
      BY <1>1, <2>1, <2>2, <2>3
    <2> QED
      BY <2>4 DEF PollInv
  <1>4. CASE ChipSends
    <2>1. alive' /\ thr' = <<>>
      BY <1>4, SingleOrder DEF ChipSends, Inv1, ChipInv
    <2> QED
      BY <2>1 DEF PollInv, TransmitterEmpty
  <1>5. CASE ChipReceives \/ ClientDone \/ UNCHANGED uartVars
    <2>1. UNCHANGED <<at, spin, unanswered, alive, thr>>
      BY <1>5 DEF ChipReceives, ClientDone, uartVars
    <2> QED
      BY <2>1 DEF PollInv, TransmitterEmpty
  <1>6. CASE CallStep
    <2>1. at' # "poll"
      BY <1>6 DEF CallStep, InitFromDtb, BeginInit, EnterInit, SetBackend, Puts, Output, TryGetc, Call
    <2> QED
      BY <2>1 DEF PollInv
  <1>7. CASE InitStep \/ InitReturns \/ WriteChar \/ DropChar \/ PutsReturn
    <2>1. at' # "poll"
      BY <1>7 DEF InitStep, ClearIer, SetDivisor, SetFormat, Settle, InitReturns, WriteChar,
                  DropChar, PutsReturn
    <2> QED
      BY <2>1 DEF PollInv
  <1> QED
    BY <1>2, <1>3, <1>4, <1>5, <1>6, <1>7 DEF UartNext, DriverStep, PutStep, ChipStep

\* A byte that a call gives up was begun more than TX_TIMEOUT reads of LSR ago, and
\* each of them found the chip busy (ns16550a.c:52-64).
THEOREM BytesAreGivenUpLate == UartSpec => GivesUpLate
  <1>1. UartInit => PollInv
    BY DEF UartInit, AtRest, PollInv
  <1>2. Inv1 /\ PollInv /\ [UartNext]_uartVars
            => [at = "poll" /\ lost' # lost => unanswered' = TX_TIMEOUT + 1]_uartVars
    <2> SUFFICES ASSUME Inv1, PollInv, [UartNext]_uartVars, at = "poll", lost' # lost
                 PROVE  unanswered' = TX_TIMEOUT + 1
      OBVIOUS
    <2> USE DEF consoleVars, chipVars, driverVars
    <2>1. CASE DropChar
      <3>1. spin = 0 /\ unanswered + spin = TX_TIMEOUT
        BY <2>1 DEF DropChar, PollInv
      <3>2. TX_TIMEOUT \in Nat /\ unanswered \in 0 .. TX_TIMEOUT + 1
        BY UartAssumption DEF Inv1, DriverInv
      <3>3. unanswered = TX_TIMEOUT
        BY <3>1, <3>2
      <3>4. unanswered' = IF unanswered > TX_TIMEOUT THEN unanswered ELSE unanswered + 1
        BY <2>1 DEF DropChar, Busy
      <3> QED
        BY <3>2, <3>3, <3>4
    <2>2. ~chip.dlab
      BY DEF Inv1, ReadyInv
    <2>3. CASE ~DropChar
      <3>1. ~CallStep /\ ~InitStep /\ ~InitReturns
        BY DEF CallStep, InitFromDtb, SetBackend, Puts, TryGetc, Call, InitStep, ClearIer,
               SetDivisor, SetFormat, Settle, InitReturns
      <3>2. ~WriteChar /\ ~BeginChar /\ ~SpinOn /\ ~PutsReturn
        BY <2>2 DEF WriteChar, BeginChar, SpinOn, PutsReturn
      <3>3. ~ChipStep /\ ~ClientDone /\ ~UNCHANGED uartVars
        BY DEF ChipStep, ChipSends, ChipReceives, ClientDone, uartVars
      <3> QED
        BY <2>3, <3>1, <3>2, <3>3 DEF UartNext, DriverStep, PutStep
    <2> QED
      BY <2>1, <2>3
  <1> QED
    BY <1>1, <1>2, NextPoll, Inv1Holds, PTL DEF UartSpec, GivesUpLate

-----------------------------------------------------------------------------
(* The console implements ByteStream: every step of the client, of the     *)
(* driver and of the chip is a step of the stream or changes nothing of it. *)

\* The mapped variables.
Waiting == PositionSeq(todo)
Accepted == PositionSeq(thr)
Sent == PositionSeq(line)
IsOpen == uart_console_is_ready /\ backend = "ns16550a"

-----------------------------------------------------------------------------
(* Sequences of positions.                                                  *)

LEMMA PosType ==
    ASSUME NEW s \in Seq(Char)
    PROVE  /\ PositionSeq(s) \in Seq(Nat) /\ Len(PositionSeq(s)) = Len(s)
           /\ \A q \in 1 .. Len(s) : PositionSeq(s)[q] = s[q].pos
  <1>1. DOMAIN s = 1 .. Len(s) /\ Len(s) \in Nat /\ \A q \in 1 .. Len(s) : s[q].pos \in Nat
    <2>1. DOMAIN s = 1 .. Len(s) /\ Len(s) \in Nat
      BY LenProperties
    <2>2. \A q \in 1 .. Len(s) : s[q] \in Char
      BY ElementOfSeq
    <2> QED
      BY <2>1, <2>2 DEF Char
  <1>2. PositionSeq(s) = [q \in 1 .. Len(s) |-> s[q].pos]
    BY <1>1 DEF PositionSeq
  <1>3. [q \in 1 .. Len(s) |-> s[q].pos] \in Seq(Nat)
    BY <1>1, IsASeq
  <1>4. Len([q \in 1 .. Len(s) |-> s[q].pos]) = Len(s)
    BY <1>1
  <1> QED
    BY <1>2, <1>3, <1>4

\* The positions of nothing, of a concatenation, and of a byte more.
LEMMA PosConcat ==
    ASSUME NEW s \in Seq(Char), NEW t \in Seq(Char)
    PROVE  PositionSeq(s \o t) = PositionSeq(s) \o PositionSeq(t)
  <1> DEFINE u == s \o t
             ps == PositionSeq(s)
             pt == PositionSeq(t)
  <1>1. /\ u \in Seq(Char) /\ Len(u) = Len(s) + Len(t)
        /\ \A k \in 1 .. Len(s) + Len(t) : u[k] = IF k <= Len(s) THEN s[k] ELSE t[k - Len(s)]
    BY ConcatProperties
  <1>2. /\ ps \in Seq(Nat) /\ Len(ps) = Len(s) /\ \A q \in 1 .. Len(s) : ps[q] = s[q].pos
        /\ pt \in Seq(Nat) /\ Len(pt) = Len(t) /\ \A q \in 1 .. Len(t) : pt[q] = t[q].pos
        /\ Len(s) \in Nat /\ Len(t) \in Nat
    BY PosType
  <1>3. /\ PositionSeq(u) \in Seq(Nat) /\ Len(PositionSeq(u)) = Len(u)
        /\ \A q \in 1 .. Len(u) : PositionSeq(u)[q] = u[q].pos
    BY <1>1, PosType
  <1> HIDE DEF u, ps, pt
  <1>4. /\ ps \o pt \in Seq(Nat) /\ Len(ps \o pt) = Len(s) + Len(t)
        /\ \A k \in 1 .. Len(s) + Len(t) :
              (ps \o pt)[k] = IF k <= Len(s) THEN ps[k] ELSE pt[k - Len(s)]
    <2>1. ps \in Seq(Nat) /\ pt \in Seq(Nat) /\ Len(ps) = Len(s) /\ Len(pt) = Len(t)
      BY <1>2
    <2>2. /\ ps \o pt \in Seq(Nat) /\ Len(ps \o pt) = Len(ps) + Len(pt)
          /\ \A k \in 1 .. Len(ps) + Len(pt) :
                (ps \o pt)[k] = IF k <= Len(ps) THEN ps[k] ELSE pt[k - Len(ps)]
      BY <2>1, ConcatProperties, Zenon
    <2> QED
      BY <2>1, <2>2, Zenon
  <1>5. ASSUME NEW k \in 1 .. Len(u) PROVE PositionSeq(u)[k] = (ps \o pt)[k]
    <2>1. CASE k <= Len(s)
      <3>1. k \in 1 .. Len(s) /\ k \in 1 .. Len(s) + Len(t)
        BY <1>1, <1>2, <2>1
      <3> QED
        BY <1>1, <1>2, <1>3, <1>4, <2>1, <3>1
    <2>2. CASE ~(k <= Len(s))
      <3>1. k - Len(s) \in 1 .. Len(t)
        BY <1>1, <1>2, <2>2
      <3> QED
        BY <1>1, <1>2, <1>3, <1>4, <2>2, <3>1
    <2> QED
      BY <2>1, <2>2
  <1>6. PositionSeq(u) = ps \o pt
    BY <1>1, <1>3, <1>4, <1>5, SeqEqual
  <1> QED
    BY <1>6 DEF u, ps, pt

\* One byte.
LEMMA PosSingle ==
    ASSUME NEW e \in Char
    PROVE  <<e>> \in Seq(Char) /\ PositionSeq(<<e>>) = <<e.pos>> /\ PositionSeq(<<>>) = <<>>
  BY DEF PositionSeq

\* Nothing, and a byte less.
LEMMA PosEmpty ==
    ASSUME NEW s \in Seq(Char)
    PROVE  PositionSeq(s) = <<>> <=> s = <<>>
  <1>1. Len(PositionSeq(s)) = Len(s)
    BY PosType
  <1>2. s = <<>> => PositionSeq(s) = <<>>
    BY DEF PositionSeq
  <1>3. PositionSeq(s) = <<>> => s = <<>>
    <2>1. PositionSeq(s) = <<>> => Len(s) = 0
      BY <1>1
    <2> QED
      BY <2>1, EmptySeq
  <1> QED
    BY <1>2, <1>3

LEMMA PosTail ==
    ASSUME NEW s \in Seq(Char), s # <<>>
    PROVE  /\ PositionSeq(s) # <<>>
           /\ Head(PositionSeq(s)) = Head(s).pos /\ Tail(PositionSeq(s)) = PositionSeq(Tail(s))
  <1> DEFINE x == Head(s).pos
             r == PositionSeq(Tail(s))
  <1>1. Head(s) \in Char /\ Tail(s) \in Seq(Char) /\ s = <<Head(s)>> \o Tail(s)
    BY HeadOrder
  <1>2. PositionSeq(s) = <<x>> \o r
    <2>1. <<Head(s)>> \in Seq(Char) /\ PositionSeq(<<Head(s)>>) = <<x>>
      BY <1>1, PosSingle
    <2> QED
      BY <1>1, <2>1, PosConcat
  <1>3. x \in Nat /\ r \in Seq(Nat)
    BY <1>1, PosType DEF Char
  <1> HIDE DEF x, r
  <1>4. PositionSeq(s) # <<>> /\ Head(PositionSeq(s)) = x /\ Tail(PositionSeq(s)) = r
    BY <1>2, <1>3
  <1> QED
    BY <1>4 DEF x, r

\* The stream is open while the console is ready on the NS16550A: its driver is then
\* ready too.
LEMMA OpenIs == Inv1 => (IsOpen <=> OnChip)
  BY DEF Inv1, ReadyInv, IsOpen, OnChip, uart_console_is_ready, Backends

LEMMA OpenNext == Inv1' => (IsOpen' <=> OnChip')
  BY DEF Inv1, ReadyInv, IsOpen, OnChip, uart_console_is_ready, Backends

\* A step that changes nothing of the stream.
LEMMA Stutter ==
    ASSUME UNCHANGED <<asked, thr, todo, line, received, rx, got>>, IsOpen' <=> IsOpen
    PROVE  UNCHANGED Stream!streamVars
  <1>1. Waiting' = Waiting /\ Accepted' = Accepted /\ Sent' = Sent
    BY DEF Waiting, Accepted, Sent, PositionSeq
  <1>2. IsOpen' = IsOpen
    BY DEF IsOpen
  <1> QED
    BY <1>1, <1>2 DEF Stream!streamVars, Waiting, Accepted, Sent, IsOpen

\* Nothing of the stream's output is changed.
LEMMA SameOutput ==
    ASSUME UNCHANGED <<asked, thr, todo, line>>
    PROVE  UNCHANGED Stream!outputVars
  <1>1. Waiting' = Waiting /\ Accepted' = Accepted /\ Sent' = Sent
    BY DEF Waiting, Accepted, Sent, PositionSeq
  <1> QED
    BY <1>1 DEF Stream!outputVars, Waiting, Accepted, Sent

\* At the start nothing is written, nothing has come and the console is not ready.
LEMMA StreamStarts == UartInit => Stream!StreamInit
  <1> SUFFICES ASSUME UartInit PROVE Stream!StreamInit
    OBVIOUS
  <1>1. thr = <<>> /\ todo = <<>> /\ line = <<>> /\ asked = 0 /\ received = 0 /\ rx = <<>> /\ got = <<>>
        /\ console_ready = FALSE
    BY DEF UartInit, AtRest
  <1>2. IsOpen = FALSE
    BY <1>1 DEF IsOpen, uart_console_is_ready
  <1>3. Sent = <<>> /\ Waiting = <<>> /\ Accepted = <<>>
    BY <1>1 DEF Sent, Waiting, Accepted, PositionSeq
  <1> QED
    BY <1>1, <1>2, <1>3 DEF Stream!StreamInit, IsOpen, Sent, Waiting, Accepted

\* An init that begins closes the stream, and so does choosing a backend.
LEMMA CloseStream ==
    Inv1 /\ Inv1' /\ (InitFromDtb \/ SetBackend) => Stream!Close \/ UNCHANGED Stream!streamVars
  <1> SUFFICES ASSUME Inv1, Inv1', InitFromDtb \/ SetBackend
               PROVE  Stream!Close \/ UNCHANGED Stream!streamVars
    OBVIOUS
  <1>1. UNCHANGED <<asked, thr, todo, line, received, rx, got>> /\ (OnChip' => OnChip) /\ at = "idle"
    BY DEF InitFromDtb, BeginInit, EnterInit, SetBackend, Call, chipVars, driverVars, OnChip
  <1>2. IsOpen' => IsOpen
    BY <1>1, OpenIs, OpenNext
  <1>3. Waiting = <<>>
    BY <1>1 DEF Inv1, DriverInv, PutAts, Waiting, PositionSeq
  <1>4. CASE IsOpen /\ ~IsOpen'
    <2>1. IsOpen' = FALSE
      BY <1>4 DEF IsOpen
    <2>2. UNCHANGED Stream!outputVars /\ UNCHANGED Stream!inputVars
      BY <1>1, SameOutput DEF Stream!inputVars
    <2> QED
      BY <1>3, <1>4, <2>1, <2>2 DEF Stream!Close, IsOpen, Waiting
  <1>5. CASE ~(IsOpen /\ ~IsOpen')
    BY <1>1, <1>2, <1>5, Stutter
  <1> QED
    BY <1>4, <1>5

\* A call that writes.
LEMMA PutsStream ==
    Inv1 /\ Inv1' /\ Puts => Stream!Write \/ UNCHANGED Stream!streamVars
  <1> SUFFICES ASSUME Inv1, Inv1', NEW chars \in Strings, Call, Output(chars)
               PROVE  Stream!Write \/ UNCHANGED Stream!streamVars
    BY DEF Puts
  <1>1. UNCHANGED <<thr, line, received, rx, got>> /\ at = "idle" /\ OnChip' = OnChip
    BY DEF Call, Output, chipVars, OnChip
  <1>2. IsOpen' <=> IsOpen
    BY <1>1, OpenIs, OpenNext
  <1>3. Waiting = <<>>
    BY <1>1 DEF Inv1, DriverInv, PutAts, Waiting, PositionSeq
  <1>4. CASE IsOpen
    <2> DEFINE k == Len(Raw(chars))
    <2>1. todo' = Numbered(chars) /\ asked' = asked + k
      BY <1>4 DEF IsOpen, Output
    <2>2. Raw(chars) \in Seq(Letter) /\ k <= MaxString /\ MaxString \in Nat
      BY StringsAreLetters, RawIsFed
    <2>3. k \in 0 .. MaxString
      <3>1. k \in Nat
        BY <2>2
      <3> HIDE DEF k
      <3> QED
        BY <2>2, <3>1
    <2>4. Waiting' = [q \in 1 .. k |-> asked + q]
      <3>1. Numbered(chars) = [q \in 1 .. k |-> [pos |-> asked + q, char |-> Raw(chars)[q]]]
        BY <2>2 DEF Numbered
      <3>2. PositionSeq(Numbered(chars)) = [q \in 1 .. k |-> asked + q]
        BY <3>1 DEF PositionSeq
      <3> QED
        BY <2>1, <3>2 DEF Waiting, PositionSeq
    <2>5. IsOpen' = IsOpen /\ Sent' = Sent /\ Accepted' = Accepted
      BY <1>1, <1>2 DEF IsOpen, Sent, Accepted, PositionSeq
    <2>6. UNCHANGED Stream!inputVars
      BY <1>1 DEF Stream!inputVars
    <2> HIDE DEF k
    <2> QED
      BY <1>3, <1>4, <2>1, <2>3, <2>4, <2>5, <2>6 DEF Stream!Write, IsOpen, Waiting, Accepted, Sent
  <1>5. CASE ~IsOpen
    <2>1. UNCHANGED <<todo, asked>>
      BY <1>5 DEF IsOpen, Output
    <2> QED
      BY <1>1, <1>2, <2>1, Stutter
  <1> QED
    BY <1>4, <1>5

\* A call that reads.
LEMMA TryGetcStream ==
    Inv1 /\ Inv1' /\ TryGetc => Stream!Read \/ UNCHANGED Stream!streamVars
  <1> SUFFICES ASSUME Inv1, Inv1', TryGetc
               PROVE  Stream!Read \/ UNCHANGED Stream!streamVars
    OBVIOUS
  <1>1. UNCHANGED <<asked, thr, todo, line, received>> /\ OnChip' = OnChip
    BY DEF TryGetc, driverVars, OnChip
  <1>2. IsOpen' = IsOpen
    BY <1>1, OpenIs, OpenNext DEF IsOpen
  <1>3. CASE UNCHANGED <<got, rx>>
    BY <1>1, <1>2, <1>3, Stutter
  <1>4. CASE IsOpen /\ rx # <<>> /\ got' = Append(got, Head(rx)) /\ rx' = Tail(rx)
    <2>1. UNCHANGED Stream!outputVars
      BY <1>1, SameOutput
    <2> QED
      BY <1>1, <1>2, <1>4, <2>1 DEF Stream!Read, IsOpen
  <1> QED
    BY <1>3, <1>4 DEF TryGetc, IsOpen

\* The steps of the driver's init: emptying the FIFOs is a reset.
LEMMA InitStepStream ==
    Inv1 /\ Inv1' /\ InitStep /\ UNCHANGED consoleVars
        => Stream!Reset \/ UNCHANGED Stream!streamVars
  <1> SUFFICES ASSUME Inv1, Inv1', InitStep, UNCHANGED consoleVars
               PROVE  Stream!Reset \/ UNCHANGED Stream!streamVars
    OBVIOUS
  <1> USE DEF consoleVars, chipVars
  <1>1. IsOpen' = IsOpen
    <2>1. OnChip' = OnChip
      BY DEF OnChip
    <2> QED
      BY <2>1, OpenIs, OpenNext DEF IsOpen
  <1>2. CASE ClearIer \/ SetDivisor \/ Settle
    <2>1. UNCHANGED <<asked, thr, todo, line, received, rx, got>>
      BY <1>2 DEF ClearIer, SetDivisor, Settle
    <2> QED
      BY <1>1, <2>1, Stutter
  <1>3. CASE SetFormat
    <2>1. thr' = <<>> /\ rx' = <<>> /\ UNCHANGED <<todo, asked, line, received, got>> /\ at = "format"
      BY <1>3 DEF SetFormat
    <2>2. todo = <<>> /\ ~OnChip
      BY <2>1 DEF Inv1, DriverInv, ReadyInv, PutAts, OnChip
    <2>3. ~IsOpen /\ Waiting = <<>>
      BY <2>2, OpenIs DEF Waiting, PositionSeq
    <2>4. Accepted' = <<>> /\ Waiting' = Waiting /\ Sent' = Sent
      BY <2>1 DEF Accepted, Waiting, Sent, PositionSeq
    <2> QED
      BY <1>1, <2>1, <2>3, <2>4 DEF Stream!Reset, IsOpen, Waiting, Accepted, Sent
  <1> QED
    BY <1>2, <1>3 DEF InitStep

\* The driver's init returns: only one that succeeded opens the stream, and then
\* nothing is on its way.
LEMMA InitReturnsStream ==
    Inv1 /\ Inv1' /\ InitReturns => Stream!Open \/ UNCHANGED Stream!streamVars
  <1> SUFFICES ASSUME Inv1, Inv1', InitReturns
               PROVE  Stream!Open \/ UNCHANGED Stream!streamVars
    OBVIOUS
  <1>1. UNCHANGED <<asked, thr, todo, line, received, rx, got>>
    BY DEF InitReturns, chipVars
  <1>2. ~IsOpen /\ Waiting = <<>>
    <2>1. ~OnChip
      BY DEF InitReturns, Inv1, ReadyInv, OnChip, PutAts
    <2>2. todo = <<>>
      BY DEF InitReturns, Inv1, DriverInv, PutAts
    <2> QED
      BY <2>1, <2>2, OpenIs DEF Waiting, PositionSeq
  <1>3. CASE at = "init_ok"
    <2>1. IsOpen'
      BY <1>3, OpenNext DEF InitReturns, Inv1, ReadyInv, OnChip, ReturnAts
    <2>2. Accepted = <<>>
      BY <1>3 DEF Inv1, ReadyInv, Accepted, PositionSeq
    <2>3. UNCHANGED Stream!outputVars /\ UNCHANGED Stream!inputVars
      BY <1>1, SameOutput DEF Stream!inputVars
    <2>4. IsOpen' = TRUE
      BY <2>1 DEF IsOpen
    <2> QED
      BY <1>2, <2>2, <2>3, <2>4 DEF Stream!Open, IsOpen, Waiting, Accepted
  <1>4. CASE at # "init_ok"
    <2>1. ~IsOpen'
      BY <1>4, OpenNext DEF InitReturns, OnChip
    <2> QED
      BY <1>1, <1>2, <2>1, Stutter
  <1> QED
    BY <1>3, <1>4

\* The steps of the driver's output: the byte whose turn it is goes to the chip, or is
\* given up because the chip still holds the one before it.
LEMMA PutStepStream ==
    Inv1 /\ Inv1' /\ PutStep /\ UNCHANGED consoleVars
        => Stream!Accept \/ Stream!GiveUp \/ UNCHANGED Stream!streamVars
  <1> SUFFICES ASSUME Inv1, Inv1', PutStep, UNCHANGED consoleVars
               PROVE  Stream!Accept \/ Stream!GiveUp \/ UNCHANGED Stream!streamVars
    OBVIOUS
  <1> USE DEF consoleVars, chipVars
  <1>1. at \in PutAts /\ UNCHANGED <<asked, line, received, rx, got>>
    BY DEF PutStep, BeginChar, WriteChar, SpinOn, DropChar, PutsReturn, PutAts
  <1>2. OnChip /\ OnChip' /\ uart_ready /\ alive /\ ~chip.dlab
    BY <1>1 DEF Inv1, ReadyInv, OnChip, PutAts
  <1>3. IsOpen = TRUE /\ IsOpen' = TRUE
    BY <1>2, OpenIs, OpenNext DEF IsOpen
  <1>4. thr \in Seq(Char) /\ todo \in Seq(Char)
    BY DEF Inv1, ChipInv, DriverInv
  <1>5. CASE BeginChar \/ SpinOn \/ PutsReturn
    <2>1. UNCHANGED <<thr, todo>>
      BY <1>2, <1>5 DEF BeginChar, SpinOn, PutsReturn
    <2> QED
      BY <1>1, <1>3, <2>1, Stutter
  <1>6. Sent' = Sent /\ UNCHANGED Stream!inputVars
    BY <1>1 DEF Sent, PositionSeq, Stream!inputVars
  <1>7. CASE WriteChar
    <2>1. thr = <<>> /\ todo # <<>> /\ thr' = Append(thr, Head(todo)) /\ todo' = Tail(todo)
      BY <1>2, <1>7 DEF WriteChar, TransmitterEmpty, Inv1, DriverInv
    <2>2. Waiting # <<>> /\ Head(Waiting) = Head(todo).pos /\ Tail(Waiting) = PositionSeq(Tail(todo))
      BY <1>4, <2>1, PosTail DEF Waiting
    <2>3. Waiting' = Tail(Waiting)
      BY <2>1, <2>2 DEF Waiting, PositionSeq
    <2>4. Accepted = <<>>
      BY <2>1 DEF Accepted, PositionSeq
    <2>5. Accepted' = <<Head(Waiting)>>
      <3>1. thr' = <<Head(todo)>> /\ Head(todo) \in Char
        BY <1>4, <2>1, HeadOrder
      <3>2. PositionSeq(<<Head(todo)>>) = <<Head(todo).pos>>
        BY <3>1, PosSingle
      <3> QED
        BY <2>2, <3>1, <3>2 DEF Accepted, PositionSeq
    <2> QED
      BY <1>1, <1>3, <1>6, <2>2, <2>3, <2>4, <2>5 DEF Stream!Accept, Waiting, Accepted, Sent, IsOpen
  <1>8. CASE DropChar
    <2>1. todo # <<>> /\ thr # <<>> /\ thr' = thr /\ todo' = Tail(todo)
      BY <1>2, <1>8 DEF DropChar, TransmitterEmpty, Inv1, DriverInv
    <2>2. Waiting # <<>> /\ Tail(Waiting) = PositionSeq(Tail(todo))
      BY <1>4, <2>1, PosTail DEF Waiting
    <2>3. Waiting' = Tail(Waiting)
      BY <2>1, <2>2 DEF Waiting, PositionSeq
    <2>4. Accepted # <<>>
      BY <1>4, <2>1, PosEmpty DEF Accepted
    <2>5. Accepted' = Accepted
      BY <2>1 DEF Accepted, PositionSeq
    <2> QED
      BY <1>1, <1>3, <1>6, <2>2, <2>3, <2>4, <2>5 DEF Stream!GiveUp, Waiting, Accepted, Sent, IsOpen
  <1> QED
    BY <1>5, <1>7, <1>8 DEF PutStep

\* The chip sends the byte it holds, or receives one.
LEMMA ChipStepStream ==
    Inv1 /\ Inv1' /\ ChipStep
        => Stream!Send \/ Stream!Arrive \/ UNCHANGED Stream!streamVars
  <1> SUFFICES ASSUME Inv1, Inv1', ChipStep
               PROVE  Stream!Send \/ Stream!Arrive \/ UNCHANGED Stream!streamVars
    OBVIOUS
  <1> USE DEF consoleVars, chipVars, driverVars, ChipStep
  <1>1. IsOpen' = IsOpen
    <2>1. OnChip' = OnChip
      BY DEF OnChip
    <2> QED
      BY <2>1, OpenIs, OpenNext DEF IsOpen
  <1>2. thr \in Seq(Char) /\ Len(thr) <= 1 /\ todo \in Seq(Char) /\ line \in Seq(Char)
    BY DEF Inv1, ChipInv, DriverInv
  <1>3. CASE ChipSends
    <2> DEFINE x == Head(thr).pos
    <2>1. thr # <<>> /\ line' = Append(line, Head(thr)) /\ thr' = Tail(thr)
          /\ UNCHANGED <<todo, asked, received, rx, got>>
      BY <1>3 DEF ChipSends
    <2>2. Head(thr) \in Char /\ Tail(thr) = <<>>
      BY <1>2, <2>1, SingleOrder, HeadOrder
    <2>3. Accepted # <<>> /\ Head(Accepted) = x
      BY <1>2, <2>1, PosTail DEF Accepted
    <2>4. Accepted' = <<>> /\ Waiting' = Waiting
      BY <2>1, <2>2 DEF Accepted, Waiting, PositionSeq
    <2>5. Sent' = Append(Sent, x)
      <3>1. Append(line, Head(thr)) = line \o <<Head(thr)>> /\ <<Head(thr)>> \in Seq(Char)
        BY <1>2, <2>2, AppendIsConcat, PosSingle
      <3>2. PositionSeq(Append(line, Head(thr))) = PositionSeq(line) \o <<x>>
        BY <1>2, <2>2, <3>1, PosConcat, PosSingle
      <3>3. PositionSeq(line) \in Seq(Nat) /\ x \in Nat
        BY <1>2, <2>2, PosType DEF Char
      <3>4. Append(PositionSeq(line), x) = PositionSeq(line) \o <<x>>
        BY <3>3, AppendIsConcat
      <3> QED
        BY <2>1, <3>2, <3>4 DEF Sent, PositionSeq
    <2> HIDE DEF x
    <2>6. UNCHANGED Stream!inputVars
      BY <2>1 DEF Stream!inputVars
    <2> QED
      BY <1>1, <2>1, <2>3, <2>4, <2>5, <2>6 DEF Stream!Send, Waiting, Accepted, Sent, IsOpen
  <1>4. CASE ChipReceives
    <2>1. received' = received + 1 /\ rx' = Append(rx, received + 1)
          /\ UNCHANGED <<asked, thr, todo, line, got>>
      BY <1>4 DEF ChipReceives
    <2>2. UNCHANGED Stream!outputVars
      BY <2>1, SameOutput
    <2> QED
      BY <1>1, <2>1, <2>2 DEF Stream!Arrive, IsOpen
  <1> QED
    BY <1>3, <1>4

\* Every step of the console is one of the stream, or none.
LEMMA NextStream == Inv1 /\ Inv1' /\ [UartNext]_uartVars => [Stream!StreamNext]_(Stream!streamVars)
  <1> SUFFICES ASSUME Inv1, Inv1', [UartNext]_uartVars
               PROVE  Stream!StreamNext \/ UNCHANGED Stream!streamVars
    OBVIOUS
  <1>1. CASE CallStep
    BY <1>1, CloseStream, PutsStream, TryGetcStream DEF CallStep, Stream!StreamNext
  <1>2. CASE DriverStep
    BY <1>2, InitStepStream, PutStepStream DEF DriverStep, Stream!StreamNext
  <1>3. CASE InitReturns
    BY <1>3, InitReturnsStream DEF Stream!StreamNext
  <1>4. CASE ChipStep
    BY <1>4, ChipStepStream DEF Stream!StreamNext
  <1>5. CASE ClientDone \/ UNCHANGED uartVars
    <2>1. UNCHANGED <<asked, thr, todo, line, received, rx, got, console_ready, backend>>
      BY <1>5 DEF ClientDone, uartVars
    <2>2. IsOpen' <=> IsOpen
      BY <2>1, OpenIs, OpenNext DEF OnChip
    <2> QED
      BY <2>1, <2>2, Stutter
  <1> QED
    BY <1>1, <1>2, <1>3, <1>4, <1>5 DEF UartNext

\* The console and the driver keep the promise of ByteStream for strings of every
\* length, every countdown and every order of inits, changes of backend, timeouts and
\* input.
THEOREM ConsoleIsStream == UartSpec => ImplementsStream
  <1>1. Inv1 /\ Inv1' /\ [UartNext]_uartVars => [Stream!StreamNext]_(Stream!streamVars)
    BY NextStream
  <1> QED
    BY <1>1, StreamStarts, Inv1Holds, PTL DEF UartSpec, ImplementsStream, Stream!StreamSpec
=============================================================================
