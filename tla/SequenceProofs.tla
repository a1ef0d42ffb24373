--------------------------- MODULE SequenceProofs ---------------------------
(***************************************************************************)
(* Induction on the naturals and what follows from it about the recursive  *)
(* functions and the sequences of the models.                              *)
(***************************************************************************)
EXTENDS SequencesExt, SequenceTheorems, FiniteSetTheorems, TLAPS

\* A set of naturals has a least element.
LEMMA Least ==
    ASSUME NEW T \in SUBSET Nat, T # {}
    PROVE  \E x \in T : \A y \in T : x <= y
  <1> DEFINE R == OpToRel(<, Nat)
  <1>1. IsWellFoundedOn(R, Nat)
    BY NatLessThanWellFounded
  <1>2. \A x, y \in Nat : x < y => <<x, y>> \in R
    BY DEF OpToRel
  <1> HIDE DEF R
  <1>3. PICK x \in T : \A y \in T : ~(<<y, x>> \in R)
    BY <1>1, WFMin
  <1>4. ASSUME NEW y \in T
        PROVE  x <= y
    <2>1. x \in Nat /\ y \in Nat
      OBVIOUS
    <2>2. ~(y < x)
      BY <1>2, <1>3, <2>1, Zenon
    <2> QED
      BY <2>1, <2>2
  <1> QED
    BY <1>4

\* Induction: a set that holds 0 and with every number the next one holds all.
LEMMA Induction ==
    ASSUME NEW S, 0 \in S, \A m \in Nat : m \in S => m + 1 \in S
    PROVE  \A m \in Nat : m \in S
  <1> SUFFICES ASSUME Nat \ S # {}
               PROVE  FALSE
    OBVIOUS
  <1>1. PICK x \in Nat \ S : \A y \in Nat \ S : x <= y
    BY Least
  <1>2. x - 1 \in Nat /\ x - 1 \in S
    BY <1>1
  <1> QED
    BY <1>1, <1>2

\* f starts with base at 0 and goes on by h, which says for each index what a step
\* makes of the value before it.
Runs(f, base, h, m) == f[0] = base /\ \A k \in 1 .. m : f[k] = h[k][f[k - 1]]

\* A function that is given at 0 and, step by step, from there on exists.
LEMMA Recursion ==
    ASSUME NEW T, NEW base \in T, NEW m \in Nat, NEW h \in [1 .. m -> [T -> T]]
    PROVE  \E f \in [0 .. m -> T] : Runs(f, base, h, m)
  <1> DEFINE Has(p) == \E f \in [0 .. p -> T] :
                          f[0] = base /\ \A k \in 1 .. p : f[k] = h[k][f[k - 1]]
             S == {p \in Nat : p <= m => Has(p)}
  <1>1. 0 \in S
    <2> DEFINE f == [k \in 0 .. 0 |-> base]
    <2>1. f \in [0 .. 0 -> T] /\ f[0] = base /\ 1 .. 0 = {}
      OBVIOUS
    <2> HIDE DEF f
    <2> QED
      BY <2>1
  <1>2. ASSUME NEW p \in Nat, p \in S
        PROVE  p + 1 \in S
    <2> SUFFICES ASSUME p + 1 <= m
                 PROVE  Has(p + 1)
      OBVIOUS
    <2>1. PICK f \in [0 .. p -> T] :
             f[0] = base /\ \A k \in 1 .. p : f[k] = h[k][f[k - 1]]
      BY <1>2
    <2> DEFINE g == [k \in 0 .. p + 1 |-> IF k <= p THEN f[k] ELSE h[p + 1][f[p]]]
    <2>2. h[p + 1] \in [T -> T] /\ f[p] \in T
      OBVIOUS
    <2>3. g \in [0 .. p + 1 -> T]
      BY <2>2
    <2>4. g[0] = base
      BY <2>1
    <2>5. ASSUME NEW k \in 1 .. p + 1
          PROVE  g[k] = h[k][g[k - 1]]
      <3>1. CASE k <= p
        <4>1. k \in 1 .. p /\ k - 1 \in 0 .. p + 1 /\ k - 1 <= p /\ k \in 0 .. p + 1
          BY <3>1
        <4>2. g[k] = f[k] /\ g[k - 1] = f[k - 1]
          BY <3>1, <4>1
        <4> QED
          BY <2>1, <4>1, <4>2
      <3>2. CASE k = p + 1
        <4>1. k - 1 = p /\ p \in 0 .. p + 1 /\ k \in 0 .. p + 1
          BY <3>2
        <4>2. g[k] = h[p + 1][f[p]] /\ g[k - 1] = f[p]
          BY <3>2, <4>1
        <4> QED
          BY <3>2, <4>2
      <3> QED
        BY <3>1, <3>2
    <2> HIDE DEF g
    <2> QED
      BY <2>3, <2>4, <2>5
  <1> HIDE DEF S
  <1>3. m \in S
    BY <1>1, <1>2, Induction
  <1> QED
    BY <1>3 DEF S, Runs

\* A function on 1 .. m is a sequence of length m.
LEMMA FunctionIsSeq ==
    ASSUME NEW S, NEW m \in Nat, NEW f \in [1 .. m -> S]
    PROVE  f \in Seq(S) /\ Len(f) = m /\ DOMAIN f = 1 .. m
  OBVIOUS

\* Domain and elements of a sequence.
LEMMA SeqDomain ==
    ASSUME NEW S, NEW s \in Seq(S)
    PROVE  /\ Len(s) \in Nat
           /\ DOMAIN s = 1 .. Len(s)
           /\ \A q \in 1 .. Len(s) : s[q] \in S
  OBVIOUS

\* The domain and the elements of a concatenation.
LEMMA ConcatFacts ==
    ASSUME NEW T, NEW s \in Seq(T), NEW t \in Seq(T)
    PROVE  /\ s \o t \in Seq(T) /\ Len(s \o t) = Len(s) + Len(t)
           /\ \A q \in 1 .. Len(s) : (s \o t)[q] = s[q]
           /\ \A q \in 1 .. Len(t) : (s \o t)[Len(s) + q] = t[q]
           /\ \A q \in 1 .. Len(s) + Len(t) :
                q \in 1 .. Len(s) \/ q - Len(s) \in 1 .. Len(t)
  OBVIOUS

\* f[k] is the first k sequences of ss behind each other.
Joins(f, ss, m) == f[0] = <<>> /\ \A k \in 1 .. m : f[k] = f[k - 1] \o ss[k]

\* A set of sequences that holds what can be put together from them.
Joinable(D) ==
    /\ <<>> \in D
    /\ \A s, t \in D : s \o t \in D
    /\ \A s \in D : <<>> \o s = s /\ (Len(s) = 0 => s = <<>>)

\* The sequences over a set are.
LEMMA SeqJoinable ==
    ASSUME NEW T
    PROVE  Joinable(Seq(T))
  BY EmptySeq DEF Joinable

\* The running results exist.
LEMMA Concatenations ==
    ASSUME NEW D, Joinable(D), NEW m \in Nat, NEW ss \in [1 .. m -> D]
    PROVE  \E f \in [0 .. m -> D] : Joins(f, ss, m)
  <1>0. PICK base \in D : base = <<>>
    BY Zenon DEF Joinable
  <1>1. PICK h \in [1 .. m -> [D -> D]] : \A k \in 1 .. m : \A s \in D : h[k][s] = s \o ss[k]
    <2> DEFINE g == [k \in 1 .. m |-> [s \in D |-> s \o ss[k]]]
    <2>1. g \in [1 .. m -> [D -> D]] /\ \A k \in 1 .. m : \A s \in D : g[k][s] = s \o ss[k]
      BY DEF Joinable
    <2> HIDE DEF g
    <2> QED
      BY <2>1
  <1>2. PICK f \in [0 .. m -> D] : Runs(f, base, h, m)
    BY Recursion
  <1>3. f[0] = base /\ \A k \in 1 .. m : f[k] = h[k][f[k - 1]]
    BY <1>2 DEF Runs
  <1>4. ASSUME NEW k \in 1 .. m
        PROVE  f[k] = f[k - 1] \o ss[k]
    <2>1. k - 1 \in 0 .. m
      OBVIOUS
    <2>2. f[k - 1] \in D
      BY <2>1
    <2> QED
      BY <1>1, <1>3, <2>2
  <1> QED
    BY <1>0, <1>3, <1>4 DEF Joins

\* FlattenSeq gives the last of them.
LEMMA FlattenIsLast ==
    ASSUME NEW D, Joinable(D), NEW m \in Nat \ {0}, NEW ss \in [1 .. m -> D], Len(ss) = m,
           NEW f \in [0 .. m -> D], Joins(f, ss, m)
    PROVE  FlattenSeq(ss) = f[m]
  <1>0. f[1] = ss[1] /\ \A k \in 2 .. m : f[k] = f[k - 1] \o ss[k]
    <2>0. 1 \in 1 .. m /\ 1 - 1 = 0 /\ \A k \in 2 .. m : k \in 1 .. m
      OBVIOUS
    <2>1. f[1] = <<>> \o ss[1] /\ \A k \in 2 .. m : f[k] = f[k - 1] \o ss[k]
      BY <2>0 DEF Joins
    <2>2. ss[1] \in D
      BY <2>0
    <2> QED
      BY <2>1, <2>2 DEF Joinable
  <1> DEFINE step(g) == [k \in 1 .. m |-> IF k = 1 THEN ss[k] ELSE g[k - 1] \o ss[k]]
             flat == CHOOSE g : g = step(g)
             e == [k \in 1 .. m |-> f[k]]
  <1>1. FlattenSeq(ss) = flat[m]
    BY DEF FlattenSeq
  <1>2. ASSUME NEW k \in 1 .. m
        PROVE  f[k] = IF k = 1 THEN ss[k] ELSE e[k - 1] \o ss[k]
    <2>1. k = 1 \/ (k \in 2 .. m /\ k - 1 \in 1 .. m)
      OBVIOUS
    <2> QED
      BY <1>0, <2>1
  <1>3. e = step(e)
    BY <1>2
  <1> HIDE DEF e
  <1>4. flat = step(flat)
    <2> HIDE DEF step
    <2> QED
      BY <1>3
  <1> HIDE DEF flat
  <1>5. flat[1] = f[1] /\ \A k \in 2 .. m : flat[k] = flat[k - 1] \o ss[k]
    <2>1. step(flat)[1] = ss[1]
      OBVIOUS
    <2>2. ASSUME NEW k \in 2 .. m
          PROVE  step(flat)[k] = flat[k - 1] \o ss[k]
      <3>1. k \in 1 .. m /\ k # 1
        OBVIOUS
      <3> QED
        BY <3>1
    <2> HIDE DEF step
    <2> QED
      BY <1>4, <2>1, <2>2
  <1> HIDE DEF step
  <1> DEFINE S == {p \in Nat : p \in 1 .. m => flat[p] = f[p]}
  <1>6. 0 \in S
    OBVIOUS
  <1>7. ASSUME NEW p \in Nat, p \in S
        PROVE  p + 1 \in S
    <2>1. CASE p = 0
      BY <1>5, <2>1
    <2>2. CASE p # 0
      <3> SUFFICES ASSUME p + 1 \in 1 .. m
                   PROVE  flat[p + 1] = f[p + 1]
        OBVIOUS
      <3>1. p \in 1 .. m /\ p + 1 \in 2 .. m /\ (p + 1) - 1 = p
        BY <2>2
      <3>2. flat[p] = f[p]
        BY <1>7, <3>1
      <3> QED
        BY <1>0, <1>5, <3>1, <3>2
    <2> QED
      BY <2>1, <2>2
  <1> HIDE DEF S
  <1>8. \A p \in Nat : p \in S
    BY <1>6, <1>7, Induction
  <1> QED
    BY <1>1, <1>8 DEF S

\* FlattenSeq puts the sequences of ss behind each other.
LEMMA FlattenFacts ==
    ASSUME NEW D, Joinable(D), NEW m \in Nat, NEW ss \in [1 .. m -> D], Len(ss) = m
    PROVE  \E f \in [0 .. m -> D] : Joins(f, ss, m) /\ FlattenSeq(ss) = f[m]
  <1>1. PICK f \in [0 .. m -> D] : Joins(f, ss, m)
    BY Concatenations
  <1>2. CASE m = 0
    <2>1. FlattenSeq(ss) = ss
      BY <1>2, Zenon DEF FlattenSeq
    <2>2. ss = <<>>
      BY <1>2
    <2> QED
      BY <1>1, <1>2, <2>1, <2>2 DEF Joins
  <1>3. CASE m # 0
    BY <1>1, <1>3, FlattenIsLast
  <1> QED
    BY <1>2, <1>3

\* F has the elements of the first m sequences of ss, and no others.
Collects(F, ss, m) ==
    /\ \A q \in DOMAIN F : \E k \in 1 .. m : \E p \in DOMAIN ss[k] : F[q] = ss[k][p]
    /\ \A k \in 1 .. m : \A p \in DOMAIN ss[k] : \E q \in DOMAIN F : F[q] = ss[k][p]

\* One sequence more brings in its elements.
LEMMA CollectsStep ==
    ASSUME NEW T, NEW m \in Nat, NEW ss, NEW F \in Seq(T), Collects(F, ss, m),
           ss[m + 1] \in Seq(T)
    PROVE  Collects(F \o ss[m + 1], ss, m + 1)
  <1>1. PICK s \in Seq(T) : s = ss[m + 1]
    OBVIOUS
  <1> DEFINE u == F \o s
  <1>2. /\ DOMAIN u = 1 .. Len(F) + Len(s) /\ DOMAIN F = 1 .. Len(F) /\ DOMAIN s = 1 .. Len(s)
        /\ Len(F) \in Nat /\ Len(s) \in Nat
        /\ \A q \in 1 .. Len(F) : u[q] = F[q]
        /\ \A q \in 1 .. Len(s) : u[Len(F) + q] = s[q]
    BY ConcatFacts, SeqDomain
  <1> HIDE DEF u
  <1>3. \A q \in DOMAIN F : q \in DOMAIN u /\ u[q] = F[q]
    BY <1>2
  <1>4. \A p \in DOMAIN s : Len(F) + p \in DOMAIN u /\ u[Len(F) + p] = s[p]
    BY <1>2
  <1>5. \A q \in DOMAIN u : q \in DOMAIN F \/ \E p \in DOMAIN s : q = Len(F) + p
    <2> TAKE q \in DOMAIN u
    <2>1. q \in 1 .. Len(F) \/ (q - Len(F) \in 1 .. Len(s) /\ q = Len(F) + (q - Len(F)))
      BY <1>2
    <2> QED
      BY <1>2, <2>1
  <1>6. m + 1 \in 1 .. m + 1 /\ \A k \in 1 .. m + 1 : k \in 1 .. m \/ k = m + 1
    OBVIOUS
  <1>7. \A k \in 1 .. m : k \in 1 .. m + 1
    OBVIOUS
  <1>8. ASSUME NEW q \in DOMAIN u
        PROVE  \E k \in 1 .. m + 1 : \E p \in DOMAIN ss[k] : u[q] = ss[k][p]
    <2>1. CASE q \in DOMAIN F
      <3>1. PICK k \in 1 .. m : \E p \in DOMAIN ss[k] : F[q] = ss[k][p]
        BY <2>1 DEF Collects
      <3> QED
        BY <1>3, <1>7, <2>1, <3>1
    <2>2. CASE \E p \in DOMAIN s : q = Len(F) + p
      BY <1>1, <1>4, <1>6, <2>2
    <2> QED
      BY <1>5, <2>1, <2>2
  <1>9. ASSUME NEW k \in 1 .. m + 1, NEW p \in DOMAIN ss[k]
        PROVE  \E q \in DOMAIN u : u[q] = ss[k][p]
    <2>1. CASE k \in 1 .. m
      <3>1. PICK q \in DOMAIN F : F[q] = ss[k][p]
        BY <2>1 DEF Collects
      <3> QED
        BY <1>3, <3>1
    <2>2. CASE k = m + 1
      BY <1>1, <1>4, <2>2
    <2> QED
      BY <1>6, <2>1, <2>2
  <1>10. Collects(u, ss, m + 1)
    BY <1>8, <1>9 DEF Collects
  <1> QED
    BY <1>1, <1>10 DEF u

\* FlattenSeq has the elements of the sequences, and no others.
LEMMA FlattenMembers ==
    ASSUME NEW T, NEW m \in Nat, NEW ss \in [1 .. m -> Seq(T)], Len(ss) = m
    PROVE  FlattenSeq(ss) \in Seq(T) /\ Collects(FlattenSeq(ss), ss, m)
  <1>1. PICK D : D = Seq(T)
    OBVIOUS
  <1>2. Joinable(D)
    BY <1>1, SeqJoinable
  <1>3. PICK f \in [0 .. m -> D] : Joins(f, ss, m) /\ FlattenSeq(ss) = f[m]
    BY <1>1, <1>2, FlattenFacts
  <1>4. \A k \in 0 .. m : f[k] \in Seq(T)
    BY <1>1
  <1>5. f[0] = <<>> /\ \A k \in 1 .. m : f[k] = f[k - 1] \o ss[k]
    BY <1>3 DEF Joins
  <1> DEFINE S == {p \in Nat : p <= m => Collects(f[p], ss, p)}
  <1>6. 0 \in S
    BY <1>5 DEF Collects
  <1>7. ASSUME NEW p \in Nat, p \in S
        PROVE  p + 1 \in S
    <2> SUFFICES ASSUME p + 1 <= m
                 PROVE  Collects(f[p + 1], ss, p + 1)
      OBVIOUS
    <2>1. p + 1 \in 1 .. m /\ p \in 0 .. m /\ (p + 1) - 1 = p /\ p <= m
      OBVIOUS
    <2>2. Collects(f[p], ss, p) /\ f[p] \in Seq(T) /\ ss[p + 1] \in Seq(T)
      BY <1>4, <1>7, <2>1
    <2>3. f[p + 1] = f[p] \o ss[p + 1]
      BY <1>5, <2>1
    <2> QED
      BY <2>2, <2>3, CollectsStep
  <1> HIDE DEF S
  <1>8. m \in S
    BY <1>6, <1>7, Induction
  <1>9. m \in 0 .. m
    OBVIOUS
  <1> QED
    BY <1>3, <1>4, <1>8, <1>9 DEF S
\* The first k sequences of ss behind each other.
Upto(ss, k) == FlattenSeq([j \in 1 .. k |-> ss[j]])

\* The running results of a loop over m sequences.
Runner(ss, m, T) ==
    /\ Upto(ss, 0) = <<>>
    /\ \A k \in 0 .. m : Upto(ss, k) \in Seq(T)
    /\ \A k \in 1 .. m : Upto(ss, k) = Upto(ss, k - 1) \o ss[k]

LEMMA UptoRuns ==
    ASSUME NEW T, NEW m \in Nat, NEW ss \in [1 .. m -> Seq(T)]
    PROVE  Runner(ss, m, T)
  <1>1. PICK D : D = Seq(T)
    OBVIOUS
  <1>2. Joinable(D)
    BY <1>1, SeqJoinable
  <1>3. PICK f \in [0 .. m -> D] : Joins(f, ss, m)
    BY <1>1, <1>2, Concatenations
  <1>4. f[0] = <<>> /\ \A k \in 1 .. m : f[k] = f[k - 1] \o ss[k]
    BY <1>3 DEF Joins
  <1>5. Upto(ss, 0) = <<>>
    <2>1. PICK none : none = [j \in 1 .. 0 |-> ss[j]]
      OBVIOUS
    <2>2. none \in [1 .. 0 -> D] /\ Len(none) = 0
      BY <2>1
    <2>3. PICK g \in [0 .. 0 -> D] : Joins(g, none, 0) /\ FlattenSeq(none) = g[0]
      BY <1>2, <2>2, FlattenFacts
    <2> QED
      BY <2>1, <2>3 DEF Joins, Upto
  <1>6. ASSUME NEW k \in 1 .. m PROVE Upto(ss, k) = f[k]
    <2>1. PICK part : part = [j \in 1 .. k |-> ss[j]]
      OBVIOUS
    <2>2. part \in [1 .. k -> D] /\ Len(part) = k /\ k \in Nat \ {0}
      BY <1>1, <2>1
    <2>3. PICK g : g = [j \in 0 .. k |-> f[j]]
      OBVIOUS
    <2>4. g \in [0 .. k -> D] /\ g[0] = f[0] /\ g[k] = f[k]
      BY <2>3
    <2>5. \A j \in 1 .. k : j \in 1 .. m /\ g[j] = f[j] /\ g[j - 1] = f[j - 1] /\ part[j] = ss[j]
      BY <2>1, <2>3
    <2>6. Joins(g, part, k)
      BY <1>4, <2>4, <2>5 DEF Joins
    <2>7. FlattenSeq(part) = g[k]
      <3>1. PICK i \in Nat \ {0} : i = k
        BY <2>2
      <3>2. part \in [1 .. i -> D] /\ Len(part) = i /\ g \in [0 .. i -> D] /\ Joins(g, part, i)
        BY <2>2, <2>4, <2>6, <3>1
      <3>3. FlattenSeq(part) = g[i]
        BY <1>2, <3>2, FlattenIsLast
      <3> QED
        BY <3>1, <3>3
    <2> QED
      BY <2>1, <2>4, <2>7 DEF Upto
  <1>7. \A k \in 0 .. m : Upto(ss, k) = f[k]
    BY <1>4, <1>5, <1>6
  <1>8. \A k \in 0 .. m : Upto(ss, k) \in Seq(T)
    BY <1>1, <1>7
  <1>9. \A k \in 1 .. m : Upto(ss, k) = Upto(ss, k - 1) \o ss[k]
    <2>1. \A k \in 1 .. m : k \in 0 .. m /\ k - 1 \in 0 .. m
      OBVIOUS
    <2> QED
      BY <1>4, <1>7, <2>1
  <1> QED
    BY <1>5, <1>8, <1>9 DEF Runner

Associates(D) == \A u, v, w \in D : (u \o v) \o w = u \o (v \o w)

LEMMA ConcatAssociates == \A T : Associates(Seq(T))
  BY DEF Associates

\* The running results of the sequences after the first go behind the first.
Trails(ss, tt, m) == \A k \in Nat : k <= m => Upto(ss, k + 1) = ss[1] \o Upto(tt, k)

LEMMA UptoCons ==
    ASSUME NEW T, NEW m \in Nat, NEW ss \in [1 .. m + 1 -> Seq(T)], NEW tt \in [1 .. m -> Seq(T)],
           \A k \in 1 .. m : tt[k] = ss[k + 1]
    PROVE  Trails(ss, tt, m)
  <1>1. /\ Upto(ss, 0) = <<>>
        /\ \A k \in 1 .. m + 1 : Upto(ss, k) = Upto(ss, k - 1) \o ss[k]
    <2>1. PICK p \in Nat : p = m + 1
      OBVIOUS
    <2>2. Runner(ss, p, T)
      BY <2>1, UptoRuns
    <2> QED
      BY <2>1, <2>2 DEF Runner
  <1>2. /\ Upto(tt, 0) = <<>>
        /\ \A k \in 0 .. m : Upto(tt, k) \in Seq(T)
        /\ \A k \in 1 .. m : Upto(tt, k) = Upto(tt, k - 1) \o tt[k]
    BY UptoRuns, ZenonT(30) DEF Runner
  <1>3. PICK first \in Seq(T) : first = ss[1]
    OBVIOUS
  <1> DEFINE S == {k \in Nat : k <= m => Upto(ss, k + 1) = first \o Upto(tt, k)}
  <1>4. 0 \in S
    <2>1. Upto(ss, 1) = Upto(ss, 0) \o ss[1]
      <3>1. 1 \in 1 .. m + 1 /\ 1 - 1 = 0
        OBVIOUS
      <3> QED
        BY <1>1, <3>1
    <2>2. <<>> \o first = first /\ first \o <<>> = first
      OBVIOUS
    <2>3. Upto(ss, 1) = first /\ 0 + 1 = 1
      <3>1. Upto(ss, 1) = <<>> \o first
        BY <1>1, <1>3, <2>1, Zenon
      <3> QED
        BY <2>2, <3>1
    <2>4. first \o Upto(tt, 0) = first
      BY <1>2, <2>2
    <2> QED
      BY <2>3, <2>4
  <1>5. ASSUME NEW k \in Nat, k \in S PROVE k + 1 \in S
    <2> SUFFICES ASSUME k + 1 <= m PROVE Upto(ss, (k + 1) + 1) = first \o Upto(tt, k + 1)
      OBVIOUS
    <2>1. Upto(ss, k + 1) = first \o Upto(tt, k)
      BY <1>5
    <2>2. k \in 0 .. m /\ k + 1 \in 1 .. m /\ (k + 1) - 1 = k /\ k + 2 \in 1 .. m + 1
          /\ (k + 2) - 1 = k + 1 /\ (k + 1) + 1 = k + 2
      OBVIOUS
    <2>3. Upto(ss, k + 2) = Upto(ss, k + 1) \o ss[k + 2]
      BY <1>1, <2>2
    <2>4. Upto(tt, k + 1) = Upto(tt, k) \o tt[k + 1]
      BY <1>2, <2>2
    <2>5. tt[k + 1] = ss[k + 2] /\ tt[k + 1] \in Seq(T) /\ Upto(tt, k) \in Seq(T)
      BY <1>2, <2>2
    <2>6. PICK u \in Seq(T), v \in Seq(T) : u = Upto(tt, k) /\ v = tt[k + 1]
      BY <2>5
    <2>7. (first \o u) \o v = first \o (u \o v)
      <3>1. PICK D : D = Seq(T)
        OBVIOUS
      <3>2. Associates(D)
        BY <3>1, ConcatAssociates, Zenon
      <3>3. first \in D /\ u \in D /\ v \in D
        BY <3>1
      <3> QED
        BY <3>2, <3>3, Zenon DEF Associates
    <2>8. Upto(ss, k + 2) = (first \o u) \o v /\ Upto(tt, k + 1) = u \o v
      BY <1>3, <2>1, <2>3, <2>4, <2>5, <2>6
    <2> QED
      BY <2>2, <2>7, <2>8
  <1> HIDE DEF S
  <1>6. \A k \in Nat : k \in S
    BY <1>4, <1>5, Induction
  <1> QED
    BY <1>3, <1>6 DEF S, Trails

\* All of a sequence of sequences, from its end and from its beginning.
LEMMA FlattenSnoc ==
    ASSUME NEW T, NEW m \in Nat, NEW ss \in [1 .. m + 1 -> Seq(T)], NEW tt \in [1 .. m -> Seq(T)],
           \A k \in 1 .. m : tt[k] = ss[k]
    PROVE  FlattenSeq(ss) = FlattenSeq(tt) \o ss[m + 1]
  <1>1. PICK p \in Nat : p = m + 1
    OBVIOUS
  <1>2. Runner(ss, p, T)
    BY <1>1, UptoRuns
  <1>3. p \in 1 .. p /\ p - 1 = m
    BY <1>1
  <1>4. Upto(ss, p) = Upto(ss, m) \o ss[p]
    BY <1>2, <1>3 DEF Runner
  <1>5. [j \in 1 .. p |-> ss[j]] = ss
    BY <1>1
  <1>6. [j \in 1 .. m |-> ss[j]] = tt
    OBVIOUS
  <1> QED
    BY <1>1, <1>4, <1>5, <1>6 DEF Upto

LEMMA FlattenCons ==
    ASSUME NEW T, NEW m \in Nat, NEW ss \in [1 .. m + 1 -> Seq(T)], NEW tt \in [1 .. m -> Seq(T)],
           \A k \in 1 .. m : tt[k] = ss[k + 1]
    PROVE  FlattenSeq(ss) = ss[1] \o FlattenSeq(tt)
  <1>1. Upto(ss, m + 1) = ss[1] \o Upto(tt, m)
    <2>0. Trails(ss, tt, m)
      BY UptoCons, Zenon
    <2>1. \A k \in Nat : k <= m => Upto(ss, k + 1) = ss[1] \o Upto(tt, k)
      BY <2>0 DEF Trails
    <2>2. m <= m
      OBVIOUS
    <2> QED
      BY <2>1, <2>2
  <1>2. [j \in 1 .. m + 1 |-> ss[j]] = ss
    OBVIOUS
  <1>3. [j \in 1 .. m |-> tt[j]] = tt
    OBVIOUS
  <1> QED
    BY <1>1, <1>2, <1>3 DEF Upto
=============================================================================
