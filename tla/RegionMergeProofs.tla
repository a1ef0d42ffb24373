------------------------- MODULE RegionMergeProofs -------------------------
(***************************************************************************)
(* Page arithmetic, and what every step of mm_merge_regions keeps, for any *)
(* page size, address space and array.                                     *)
(***************************************************************************)
EXTENDS RegionMergeAlone, SequenceProofs

(* Page arithmetic.                                                         *)

\* Quotient and remainder of a division by a positive number.
LEMMA DivMod ==
    ASSUME NEW v \in Nat, NEW d \in Nat \ {0}
    PROVE  /\ v % d \in 0 .. d - 1
           /\ v \div d \in Nat
           /\ v = d * (v \div d) + (v % d)
  OBVIOUS

\* Only one remainder is in range.
LEMMA ModUnique ==
    ASSUME NEW d \in Nat \ {0}, NEW k \in Nat, NEW r \in 0 .. d - 1
    PROVE  (d * k + r) % d = r
  OBVIOUS

\* A multiple of the page size is aligned.
LEMMA MultipleAligned ==
    ASSUME NEW k \in Nat
    PROVE  IsAligned(PageSize * k)
  <1>1. PageSize * k + 0 = PageSize * k
    BY PageAssumption
  <1>2. (PageSize * k + 0) % PageSize = 0
    BY ModUnique, PageAssumption
  <1> QED
    BY <1>1, <1>2 DEF IsAligned

\* mm_align_down gives the one page boundary at most a page below.
LEMMA AlignDown ==
    ASSUME NEW v \in Nat
    PROVE  /\ mm_align_down(v) \in Nat
           /\ mm_align_down(v) <= v
           /\ v < mm_align_down(v) + PageSize
           /\ IsAligned(mm_align_down(v))
  <1> DEFINE k == v \div PageSize
             r == v % PageSize
             m == PageSize * k
  <1>1. v = m + r /\ r \in 0 .. PageSize - 1 /\ k \in Nat
    BY DivMod, PageAssumption
  <1>2. m \in Nat
    BY <1>1, PageAssumption
  <1>3. mm_align_down(v) = v - r
    BY DEF mm_align_down
  <1>4. IsAligned(m)
    BY <1>1, MultipleAligned
  <1> HIDE DEF k, r, m
  <1>5. mm_align_down(v) = m
    BY <1>1, <1>2, <1>3, PageAssumption
  <1> QED
    BY <1>1, <1>2, <1>4, <1>5, PageAssumption

\* Addition in a 64-bit word stays in the word.
LEMMA WrapAddType ==
    ASSUME NEW a \in Nat, NEW b \in Nat
    PROVE  WrapAdd(a, b) \in Addr
  BY DivMod, PageAssumption DEF WrapAdd, Addr

\* mm_align_up gives a page boundary in the word, 0 where it wraps.
LEMMA AlignUpType ==
    ASSUME NEW v \in Nat
    PROVE  mm_align_up(v) \in Addr /\ IsAligned(mm_align_up(v))
  <1> DEFINE w == WrapAdd(v, PageSize - 1)
  <1>1. w \in Addr
    BY WrapAddType, PageAssumption
  <1>2. w \in Nat
    BY <1>1, PageAssumption DEF Addr
  <1>3. mm_align_down(w) \in Nat /\ mm_align_down(w) <= w /\ IsAligned(mm_align_down(w))
    BY <1>2, AlignDown
  <1> QED
    BY <1>1, <1>3, PageAssumption DEF mm_align_up, Addr

\* A page boundary is rounded to itself in both directions.
LEMMA AlignedIdentity ==
    ASSUME NEW v \in Addr, IsAligned(v)
    PROVE  mm_align_down(v) = v /\ mm_align_up(v) = v
  <1>1. mm_align_down(v) = v
    BY PageAssumption DEF IsAligned, mm_align_down, Addr
  <1> DEFINE k == v \div PageSize
             m == AddrSpan \div PageSize
  <1>2. k \in Nat /\ v = PageSize * k
    BY DivMod, PageAssumption DEF IsAligned, Addr
  <1>3. m \in Nat /\ AddrSpan = PageSize * m
    BY DivMod, PageAssumption
  <1>4. k + 1 <= m
    <2>1. PageSize * k < PageSize * m
      BY <1>2, <1>3, PageAssumption DEF Addr
    <2> HIDE DEF k, m
    <2>2. CASE m <= k
      <3>1. PageSize * m <= PageSize * k
         BY <1>2, <1>3, <2>2, PageAssumption
      <3> QED BY <3>1, <2>1, <1>2, <1>3, PageAssumption
    <2> QED BY <2>2, <1>2, <1>3
  <1> HIDE DEF k, m
  <1>5. v + PageSize <= AddrSpan
    <2>1. PageSize * (k + 1) <= PageSize * m
      BY <1>2, <1>3, <1>4, PageAssumption
    <2> QED BY <2>1, <1>2, <1>3, PageAssumption
  <1>6. WrapAdd(v, PageSize - 1) = v + (PageSize - 1)
    BY <1>5, ModUnique, PageAssumption DEF WrapAdd, Addr
  <1>7. (v + (PageSize - 1)) % PageSize = PageSize - 1
    BY <1>2, ModUnique, PageAssumption
  <1> QED
    BY <1>1, <1>6, <1>7, PageAssumption DEF mm_align_up, mm_align_down, Addr

\* Two page boundaries are at least a page apart.
LEMMA AlignedApart ==
    ASSUME NEW a \in Nat, NEW b \in Nat, IsAligned(a), IsAligned(b), a < b
    PROVE  a + PageSize <= b
  <1> DEFINE k == a \div PageSize
             m == b \div PageSize
  <1>1. k \in Nat /\ a = PageSize * k /\ m \in Nat /\ b = PageSize * m
    BY DivMod, PageAssumption DEF IsAligned
  <1> HIDE DEF k, m
  <1>2. CASE m <= k
    <2>1. PageSize * m <= PageSize * k
      BY <1>1, <1>2, PageAssumption
    <2> QED
      BY <1>1, <2>1
  <1>3. CASE k + 1 <= m
    <2>1. PageSize * (k + 1) <= PageSize * m
      BY <1>1, <1>3, PageAssumption
    <2>2. PageSize * (k + 1) = PageSize * k + PageSize
      BY <1>1, PageAssumption
    <2> QED
      BY <1>1, <2>1, <2>2
  <1> QED
    BY <1>1, <1>2, <1>3

\* Rounding down stops at every page boundary.
LEMMA AlignDownStops ==
    ASSUME NEW v \in Nat, NEW a \in Nat, IsAligned(a), a <= v
    PROVE  a <= mm_align_down(v)
  <1>1. mm_align_down(v) \in Nat /\ IsAligned(mm_align_down(v)) /\ v < mm_align_down(v) + PageSize
    BY AlignDown
  <1>2. CASE mm_align_down(v) < a
    BY <1>1, <1>2, AlignedApart, PageAssumption
  <1> QED
    BY <1>1, <1>2

\* Rounding up stops at every page boundary, and gets there unless it wraps.
LEMMA AlignUpStops ==
    ASSUME NEW v \in Addr
    PROVE  /\ \A a \in Addr : IsAligned(a) /\ v <= a => mm_align_up(v) <= a
           /\ v + PageSize <= AddrSpan => v <= mm_align_up(v)
  <1>1. v \in Nat /\ PageSize \in Nat \ {0} /\ AddrSpan \in Nat /\ IsAligned(AddrSpan)
    BY PageAssumption DEF Addr, IsAligned
  <1>2. ASSUME v + PageSize <= AddrSpan
        PROVE  /\ v <= mm_align_up(v) /\ mm_align_up(v) \in Nat
               /\ IsAligned(mm_align_up(v)) /\ mm_align_up(v) <= v + (PageSize - 1)
    <2>1. WrapAdd(v, PageSize - 1) = v + (PageSize - 1)
      <3>1. v + (PageSize - 1) \in 0 .. AddrSpan - 1
        BY <1>1, <1>2
      <3>2. (AddrSpan * 0 + (v + (PageSize - 1))) % AddrSpan = v + (PageSize - 1)
        BY <1>1, <3>1, ModUnique, PageAssumption
      <3>3. AddrSpan * 0 + (v + (PageSize - 1)) = v + (PageSize - 1)
        BY <1>1
      <3> QED
        BY <3>2, <3>3 DEF WrapAdd
    <2> DEFINE w == v + (PageSize - 1)
    <2>2. w \in Nat /\ mm_align_up(v) = mm_align_down(w)
      BY <1>1, <2>1 DEF mm_align_up
    <2>3. /\ mm_align_down(w) \in Nat /\ mm_align_down(w) <= w
          /\ w < mm_align_down(w) + PageSize /\ IsAligned(mm_align_down(w))
      BY <2>2, AlignDown
    <2>4. v <= mm_align_down(w)
      BY <1>1, <2>3
    <2> QED
      BY <2>2, <2>3, <2>4
  <1>3. ASSUME NEW a \in Addr, IsAligned(a), v <= a
        PROVE  mm_align_up(v) <= a
    <2>1. a \in Nat /\ a + PageSize <= AddrSpan
      BY <1>1, <1>3, AlignedApart DEF Addr
    <2>2. v + PageSize <= AddrSpan
      BY <1>1, <1>3, <2>1
    <2>3. CASE a < mm_align_up(v)
      <3>1. a + PageSize <= mm_align_up(v)
        BY <1>2, <1>3, <2>1, <2>2, <2>3, AlignedApart
      <3> QED
        BY <1>1, <1>2, <1>3, <2>1, <2>2, <3>1
    <2> QED
      BY <1>2, <2>1, <2>2, <2>3
  <1> QED
    BY <1>2, <1>3

-----------------------------------------------------------------------------
(* Sorting and merging.                                                     *)

\* Entries of s at the indexes in idx start in ascending order.
Ascending(s, idx) == \A p, q \in idx : p < q => s[p].start <= s[q].start

\* No two neighbours among the first m entries of s could still be merged.
Settled(s, m) == \A p \in 1 .. m - 1 : ~Mergeable(s[p], s[p + 1])

\* The inductive invariant of the two loops: the sorted prefix, the kept prefix
\* behind the loop index, and that nothing kept starts above what is to come.
MergeInv ==
    /\ stage = "sort" =>
         /\ Len(arr) >= 2
         /\ i \in 2 .. Len(arr) + 1
         /\ Ascending(arr, 1 .. i - 1)
    /\ stage = "merge" =>
         /\ out \in 1 .. i - 1
         /\ i \in 2 .. Len(arr) + 1
         /\ Ascending(arr, Live)
         /\ Settled(arr, out)
    /\ stage = "merged" =>
         /\ out \in 0 .. Len(arr)
         /\ i > Len(arr)
         /\ Ascending(arr, 1 .. out)
         /\ Settled(arr, out)

-----------------------------------------------------------------------------
\* If every entry of s at I is some entry of t at J, t covers what s covers.
LEMMA CoverSubset ==
    ASSUME NEW s, NEW t, NEW I, NEW J, \A q \in I : \E p \in J : s[q] = t[p]
    PROVE  CoverOf(s, I) \subseteq CoverOf(t, J)
  BY DEF CoverOf

\* The live entries are the entries of the kinds (before and after a step).
LEMMA LiveCoverByKind ==
    /\ MergeTypeOK /\ Live \subseteq 1 .. Len(arr) =>
         LiveCover = {a \in Addr : \E kind \in Kinds : a \in KindCover(kind)}
    /\ MergeTypeOK' /\ Live' \subseteq 1 .. Len(arr') =>
         LiveCover' = {a \in Addr : \E kind \in Kinds : a \in KindCover(kind)'}
  <1>1. ASSUME MergeTypeOK, Live \subseteq 1 .. Len(arr)
        PROVE  LiveCover = {a \in Addr : \E kind \in Kinds : a \in KindCover(kind)}
    <2>1. \A q \in Live : arr[q].kind \in Kinds
      <3>1. \A q \in Live : arr[q] \in Region
        BY <1>1, SeqDomain DEF MergeTypeOK
      <3> QED
        BY <3>1 DEF Region
    <2> QED
      BY <2>1 DEF LiveCover, KindCover, CoverOf
  <1>2. ASSUME MergeTypeOK', Live' \subseteq 1 .. Len(arr')
        PROVE  LiveCover' = {a \in Addr : \E kind \in Kinds : a \in KindCover(kind)'}
    <2>1. \A q \in Live' : arr'[q].kind \in Kinds
      <3>1. \A q \in Live' : arr'[q] \in Region
        BY <1>2, SeqDomain DEF MergeTypeOK
      <3> QED
        BY <3>1 DEF Region
    <2> QED
      BY <2>1 DEF LiveCover, KindCover, CoverOf
  <1> QED
    BY <1>1, <1>2

-----------------------------------------------------------------------------
\* One iteration of the insertion sort permutes the array and extends the
\* sorted prefix by one.
LEMMA SortStepFacts ==
    ASSUME MergeTypeOK, MergeInv, WholePages(arr), SortStep
    PROVE  /\ MergeTypeOK' /\ MergeInv' /\ WholePages(arr)'
           /\ Len(arr') = Len(arr)
           /\ \A kind \in Kinds : KindCover(kind)' = KindCover(kind)
  <1> USE DEF MergeTypeOK, SortStep, Stages
  <1>1. PICK pos \in 1 .. i : StopsAt(pos) /\ arr' = Inserted(pos)
    OBVIOUS
  <1>2. /\ stage = "sort" /\ stage' = "sort" /\ i' = i + 1 /\ out' = out
        /\ Len(arr) \in Nat /\ DOMAIN arr = 1 .. Len(arr)
        /\ i \in 2 .. Len(arr) /\ Ascending(arr, 1 .. i - 1)
        /\ \A q \in 1 .. Len(arr) : arr[q] \in Region
    BY SeqDomain DEF MergeInv
  <1>3. arr' \in [1 .. Len(arr) -> Region]
    BY <1>1, <1>2 DEF Inserted
  <1>4. arr' \in Seq(Region) /\ Len(arr') = Len(arr) /\ DOMAIN arr' = 1 .. Len(arr)
    BY <1>2, <1>3, FunctionIsSeq
  <1>5. \A q \in 1 .. Len(arr) : arr'[q] = IF q = pos THEN arr[i]
                                        ELSE IF q > pos /\ q <= i THEN arr[q - 1]
                                        ELSE arr[q]
    <2>1. \A q \in DOMAIN arr : arr'[q] = IF q = pos THEN arr[i]
                                        ELSE IF q \in pos + 1 .. i THEN arr[q - 1]
                                        ELSE arr[q]
      BY <1>1, Zenon DEF Inserted
    <2>2. \A q \in DOMAIN arr : q \in pos + 1 .. i <=> q > pos /\ q <= i
      BY <1>2
    <2> QED
      BY <1>2, <2>1, <2>2
  <1>6. \A q \in 1 .. Len(arr) : \E p \in 1 .. Len(arr) : arr'[q] = arr[p]
    BY <1>2, <1>5
  <1>7. \A q \in 1 .. Len(arr) : \E p \in 1 .. Len(arr) : arr[q] = arr'[p]
    <2> TAKE q \in 1 .. Len(arr)
    <2>1. CASE q < pos \/ q > i
      BY <1>2, <1>5, <2>1
    <2>2. CASE q = i
      <3>1. pos \in 1 .. Len(arr) /\ arr'[pos] = arr[i]
        BY <1>2, <1>5
      <3> QED
        BY <2>2, <3>1
    <2>3. CASE pos <= q /\ q < i
      <3>1. q + 1 \in 1 .. Len(arr) /\ arr'[q + 1] = arr[q]
        BY <1>2, <1>5, <2>3
      <3> QED
        BY <3>1
    <2> QED
      BY <1>2, <2>1, <2>2, <2>3
  <1>8. \A kind \in Kinds : KindCover(kind)' = KindCover(kind)
    <2> TAKE kind \in Kinds
    <2> DEFINE I == {q \in 1 .. Len(arr) : arr[q].kind = kind}
               J == {q \in 1 .. Len(arr) : arr'[q].kind = kind}
    <2>1. KindCover(kind) = CoverOf(arr, I) /\ KindCover(kind)' = CoverOf(arr', J)
      BY <1>2, <1>4 DEF KindCover, Live
    <2>2. \A q \in I : \E p \in J : arr[q] = arr'[p]
      BY <1>7
    <2>3. \A q \in J : \E p \in I : arr'[q] = arr[p]
      BY <1>6
    <2> HIDE DEF I, J
    <2>4. CoverOf(arr, I) \subseteq CoverOf(arr', J) /\ CoverOf(arr', J) \subseteq CoverOf(arr, I)
      BY <2>2, <2>3, CoverSubset
    <2>5. CoverOf(arr, I) = CoverOf(arr', J)
      BY <2>4
    <2> QED
      BY <2>1, <2>5
  <1>9. Ascending(arr', 1 .. i)
    <2> DEFINE k(q) == arr[q].start
    <2>1. \A q \in 1 .. Len(arr) : k(q) \in Nat
      BY <1>2, PageAssumption DEF Region, Addr
    <2>2. \A r, t \in 1 .. i - 1 : r < t => k(r) <= k(t)
      BY <1>2 DEF Ascending
    <2>3. /\ \A q \in pos .. i - 1 : k(q) > k(i)
          /\ pos > 1 => k(pos - 1) <= k(i)
      BY <1>1 DEF StopsAt
    <2>4. \A q \in 1 .. i : arr'[q].start = IF q = pos THEN k(i)
                                          ELSE IF q > pos THEN k(q - 1) ELSE k(q)
      BY <1>2, <1>5
    <2>5. i \in Nat /\ i >= 2 /\ i <= Len(arr) /\ Len(arr) \in Nat
      BY <1>2
    <2> HIDE DEF k
    <2>6. \A r \in 1 .. pos - 1 : k(r) <= k(i)
      BY <2>1, <2>2, <2>3, <2>5, SMTT(30)
    <2> SUFFICES ASSUME NEW p \in 1 .. i, NEW q \in 1 .. i, p < q
                 PROVE  arr'[p].start <= arr'[q].start
      BY DEF Ascending
    <2>7. CASE q < pos
      BY <2>2, <2>4, <2>5, <2>7
    <2>8. CASE q = pos
      BY <2>4, <2>5, <2>6, <2>8
    <2>9. CASE q > pos /\ p < pos
      <3>1. arr'[p].start = k(p) /\ arr'[q].start = k(q - 1)
        BY <2>4, <2>9
      <3>2. p < q - 1 \/ p = q - 1
        BY <2>9
      <3>3. q - 1 \in 1 .. i - 1 /\ p \in 1 .. i - 1
        BY <2>5, <2>9
      <3> QED
        BY <2>1, <2>2, <2>5, <3>1, <3>2, <3>3
    <2>10. CASE p = pos
      BY <2>1, <2>3, <2>4, <2>5, <2>10
    <2>11. CASE p > pos
      BY <2>2, <2>4, <2>5, <2>11
    <2> QED
      BY <2>7, <2>8, <2>9, <2>10, <2>11
  <1>10. MergeInv'
    BY <1>2, <1>4, <1>9 DEF MergeInv, Ascending
  <1>11. WholePages(arr)'
    BY <1>2, <1>4, <1>6 DEF WholePages
  <1> QED
    BY <1>2, <1>4, <1>8, <1>10, <1>11

-----------------------------------------------------------------------------
\* Sorting is over: the whole array is live and nothing is lost.
LEMMA SortReturnFacts ==
    ASSUME MergeTypeOK, MergeInv, WholePages(arr), SortReturn
    PROVE  /\ MergeTypeOK' /\ MergeInv' /\ WholePages(arr)'
           /\ Len(arr') = Len(arr)
           /\ \A kind \in Kinds : KindCover(kind)' = KindCover(kind)
  <1> USE DEF MergeTypeOK, SortReturn, Stages
  <1>1. /\ stage = "sort" /\ stage' = "merge" /\ i' = 2 /\ out' = 1 /\ arr' = arr
        /\ Len(arr) \in Nat /\ Len(arr) >= 2 /\ i = Len(arr) + 1
        /\ Ascending(arr, 1 .. Len(arr))
    BY SeqDomain DEF MergeInv
  <1>2. Live = 1 .. Len(arr) /\ Live' = 1 .. Len(arr)
    BY <1>1 DEF Live
  <1>3. MergeInv'
    BY <1>1, <1>2 DEF MergeInv, Settled, Ascending
  <1>4. \A kind \in Kinds : KindCover(kind)' = KindCover(kind)
    BY <1>1, <1>2 DEF KindCover
  <1> QED
    BY <1>1, <1>3, <1>4 DEF WholePages

-----------------------------------------------------------------------------
\* An entry absorbed by the last one kept: the kept region grows to the union
\* of the two, and only within its own kind.
LEMMA AbsorbFacts ==
    ASSUME MergeTypeOK, MergeInv, WholePages(arr), Absorb
    PROVE  /\ MergeTypeOK' /\ MergeInv' /\ WholePages(arr)'
           /\ Len(arr') = Len(arr)
           /\ \A kind \in Kinds : KindCover(kind)' = KindCover(kind)
  <1> DEFINE e == mm_max_u64(arr[out].end, arr[i].end)
  <1>1. /\ stage = "merge" /\ stage' = "merge" /\ i' = i + 1 /\ out' = out
        /\ arr \in Seq(Region) /\ Len(arr) \in Nat /\ DOMAIN arr = 1 .. Len(arr)
        /\ i \in 2 .. Len(arr) /\ out \in 1 .. i - 1
        /\ Ascending(arr, Live) /\ Settled(arr, out)
        /\ arr' = [arr EXCEPT ![out].end = e]
        /\ Mergeable(arr[out], arr[i])
    BY SeqDomain DEF MergeInv, MergeTypeOK, Absorb
  <1>2. \A q \in 1 .. Len(arr) :
          /\ arr[q] \in Region
          /\ arr[q].start \in Addr /\ arr[q].end \in Addr /\ arr[q].kind \in Kinds
          /\ WellFormed(arr[q])
    <2>1. \A q \in 1 .. Len(arr) : arr[q] \in Region
      BY <1>1, SeqDomain
    <2>2. \A q \in 1 .. Len(arr) : WellFormed(arr[q])
      BY <1>1 DEF WholePages
    <2> QED
      BY <2>1, <2>2 DEF Region
  <1>3. e \in Addr /\ IsAligned(e) /\ e >= arr[out].end /\ e >= arr[i].end
        /\ (e = arr[out].end \/ e = arr[i].end)
    BY <1>1, <1>2, PageAssumption DEF mm_max_u64, Addr, WellFormed
  <1> HIDE DEF e
  <1>4. \A q \in 1 .. Len(arr) :
          /\ q # out => arr'[q] = arr[q]
          /\ q = out => arr'[q] = [start |-> arr[out].start, end |-> e, kind |-> arr[out].kind]
    BY <1>1, <1>2 DEF Region
  <1>5. arr' \in [1 .. Len(arr) -> Region]
    BY <1>1, <1>2, <1>3, <1>4 DEF Region
  <1>6. arr' \in Seq(Region) /\ Len(arr') = Len(arr) /\ DOMAIN arr' = 1 .. Len(arr)
    BY <1>1, <1>5, FunctionIsSeq
  <1>7. Live = (1 .. out) \cup (i .. Len(arr)) /\ Live' = (1 .. out) \cup (i + 1 .. Len(arr))
    BY <1>1, <1>6 DEF Live
  <1>8. WholePages(arr)'
    BY <1>1, <1>2, <1>3, <1>4, <1>6, PageAssumption DEF WholePages, WellFormed, Addr
  <1>9. MergeInv'
    <2>1. Ascending(arr', Live')
      BY <1>1, <1>4, <1>7 DEF Ascending
    <2>2. Settled(arr', out)
      <3> SUFFICES ASSUME NEW p \in 1 .. out - 1
                   PROVE  ~Mergeable(arr'[p], arr'[p + 1])
        BY DEF Settled
      <3>1. p \in 1 .. Len(arr) /\ p + 1 \in 1 .. Len(arr) /\ p # out
        BY <1>1
      <3>2. ~Mergeable(arr[p], arr[p + 1])
        BY <1>1 DEF Settled
      <3>3. /\ arr'[p] = arr[p]
            /\ arr'[p + 1].start = arr[p + 1].start /\ arr'[p + 1].kind = arr[p + 1].kind
        BY <1>4, <3>1
      <3> QED
        BY <3>2, <3>3 DEF Mergeable
    <2> QED
      BY <1>1, <1>6, <2>1, <2>2 DEF MergeInv
  <1>10. ASSUME NEW kind \in Kinds
         PROVE  KindCover(kind)' = KindCover(kind)
    <2>1. arr[out].start <= arr[i].start /\ arr[i].start <= arr[out].end
          /\ arr[i].kind = arr[out].kind
      BY <1>1, <1>7 DEF Mergeable, Ascending
    <2>2. ASSUME NEW a \in Addr
          PROVE  Inside(a, arr'[out]) <=> Inside(a, arr[out]) \/ Inside(a, arr[i])
      BY <1>1, <1>2, <1>3, <1>4, <2>1, PageAssumption, SMTT(30) DEF Inside, Addr, WellFormed
    <2>3. arr'[out].kind = arr[out].kind
      BY <1>1, <1>4
    <2>4. ASSUME NEW a \in Addr
          PROVE  (\E q \in Live : arr[q].kind = kind /\ Inside(a, arr[q])) <=>
                 (\E q \in Live' : arr'[q].kind = kind /\ Inside(a, arr'[q]))
      <3>1. \A q \in Live : q \in 1 .. Len(arr)
        BY <1>1, <1>7
      <3>2. ASSUME NEW q \in Live, arr[q].kind = kind, Inside(a, arr[q])
            PROVE  \E p \in Live' : arr'[p].kind = kind /\ Inside(a, arr'[p])
        <4>1. CASE q = out \/ q = i
          <5>1. out \in Live'
            BY <1>1, <1>7
          <5> QED
            BY <2>1, <2>2, <2>3, <3>2, <4>1, <5>1
        <4>2. CASE q # out /\ q # i
          <5>1. q \in Live' /\ arr'[q] = arr[q]
            BY <1>1, <1>4, <1>7, <3>1, <4>2
          <5> QED
            BY <3>2, <5>1
        <4> QED
          BY <4>1, <4>2
      <3>3. ASSUME NEW q \in Live', arr'[q].kind = kind, Inside(a, arr'[q])
            PROVE  \E p \in Live : arr[p].kind = kind /\ Inside(a, arr[p])
        <4>1. out \in Live /\ i \in Live /\ q \in Live
          BY <1>1, <1>7
        <4>2. CASE q = out
          BY <2>1, <2>2, <2>3, <3>3, <4>1, <4>2
        <4>3. CASE q # out
          BY <1>1, <1>4, <3>1, <3>3, <4>1, <4>3
        <4> QED
          BY <4>2, <4>3
      <3> QED
        BY <3>2, <3>3
    <2> QED
      BY <2>4 DEF KindCover, CoverOf
  <1>11. MergeTypeOK'
    BY <1>1, <1>6 DEF MergeTypeOK, Absorb
  <1> QED
    BY <1>6, <1>8, <1>9, <1>10, <1>11

-----------------------------------------------------------------------------
\* An entry that cannot be merged is kept next, over an entry already used.
LEMMA AdvanceFacts ==
    ASSUME MergeTypeOK, MergeInv, WholePages(arr), Advance
    PROVE  /\ MergeTypeOK' /\ MergeInv' /\ WholePages(arr)'
           /\ Len(arr') = Len(arr)
           /\ \A kind \in Kinds : KindCover(kind)' = KindCover(kind)
  <1>1. /\ stage = "merge" /\ stage' = "merge" /\ i' = i + 1 /\ out' = out + 1
        /\ arr \in Seq(Region) /\ Len(arr) \in Nat /\ DOMAIN arr = 1 .. Len(arr)
        /\ i \in 2 .. Len(arr) /\ out \in 1 .. i - 1
        /\ Ascending(arr, Live) /\ Settled(arr, out)
        /\ arr' = [arr EXCEPT ![out + 1] = arr[i]]
        /\ ~Mergeable(arr[out], arr[i])
    BY SeqDomain DEF MergeInv, MergeTypeOK, Advance
  <1>2. \A q \in 1 .. Len(arr) : arr[q] \in Region /\ WellFormed(arr[q])
    BY <1>1, SeqDomain DEF WholePages
  <1>3. \A q \in 1 .. Len(arr) : arr'[q] = IF q = out + 1 THEN arr[i] ELSE arr[q]
    BY <1>1
  <1>4. arr' \in [1 .. Len(arr) -> Region]
    BY <1>1, <1>2, <1>3
  <1>5. arr' \in Seq(Region) /\ Len(arr') = Len(arr) /\ DOMAIN arr' = 1 .. Len(arr)
    BY <1>1, <1>4, FunctionIsSeq
  <1>6. Live = (1 .. out) \cup (i .. Len(arr)) /\ Live' = (1 .. out + 1) \cup (i + 1 .. Len(arr))
    BY <1>1, <1>5 DEF Live
  <1>7. WholePages(arr)'
    BY <1>1, <1>2, <1>3, <1>5 DEF WholePages
  <1>8. MergeInv'
    <2>1. Ascending(arr', Live')
      <3> SUFFICES ASSUME NEW p \in Live', NEW q \in Live', p < q
                   PROVE  arr'[p].start <= arr'[q].start
        BY DEF Ascending
      <3>1. p \in 1 .. Len(arr) /\ q \in 1 .. Len(arr) /\ i \in Live
        BY <1>1, <1>6
      <3>2. CASE p = out + 1
        <4>1. q \in Live /\ i < q /\ arr'[p] = arr[i] /\ arr'[q] = arr[q]
          BY <1>1, <1>3, <1>6, <3>1, <3>2
        <4> QED
          BY <1>1, <3>1, <4>1 DEF Ascending
      <3>3. CASE q = out + 1
        <4>1. p \in Live /\ p < i /\ arr'[p] = arr[p] /\ arr'[q] = arr[i]
          BY <1>1, <1>3, <1>6, <3>1, <3>3
        <4> QED
          BY <1>1, <3>1, <4>1 DEF Ascending
      <3>4. CASE p # out + 1 /\ q # out + 1
        <4>1. p \in Live /\ q \in Live /\ arr'[p] = arr[p] /\ arr'[q] = arr[q]
          BY <1>1, <1>3, <1>6, <3>1, <3>4
        <4> QED
          BY <1>1, <4>1 DEF Ascending
      <3> QED
        BY <3>2, <3>3, <3>4
    <2>2. Settled(arr', out + 1)
      <3> SUFFICES ASSUME NEW p \in 1 .. out
                   PROVE  ~Mergeable(arr'[p], arr'[p + 1])
        BY <1>1 DEF Settled
      <3>1. CASE p = out
        BY <1>1, <1>3, <3>1
      <3>2. CASE p # out
        BY <1>1, <1>3, <3>2, SMTT(30) DEF Settled
      <3> QED
        BY <3>1, <3>2
    <2> QED
      BY <1>1, <1>5, <2>1, <2>2 DEF MergeInv
  <1>9. ASSUME NEW kind \in Kinds
        PROVE  KindCover(kind)' = KindCover(kind)
    <2>1. \A q \in Live : \E p \in Live' : arr[q] = arr'[p]
      <3> TAKE q \in Live
      <3>1. CASE q = i
        <4>1. out + 1 \in Live' /\ out + 1 \in 1 .. Len(arr)
          BY <1>1, <1>6
        <4> QED
          BY <1>3, <3>1, <4>1
      <3>2. CASE q # i
        <4>1. q \in Live' /\ q \in 1 .. Len(arr)
          BY <1>1, <1>6, <3>2
        <4>2. q # out + 1 \/ arr'[q] = arr[q]
          BY <1>1, <1>3, <1>6, <3>2
        <4> QED
          BY <1>3, <4>1, <4>2
      <3> QED
        BY <3>1, <3>2
    <2>2. \A q \in Live' : \E p \in Live : arr'[q] = arr[p]
      <3> TAKE q \in Live'
      <3>1. q \in 1 .. Len(arr) /\ i \in Live /\ (q # out + 1 => q \in Live)
        BY <1>1, <1>6
      <3> QED
        BY <1>3, <3>1
    <2> DEFINE I == {q \in Live : arr[q].kind = kind}
               J == {q \in Live' : arr'[q].kind = kind}
    <2>3. KindCover(kind) = CoverOf(arr, I) /\ KindCover(kind)' = CoverOf(arr', J)
      BY DEF KindCover
    <2>4. \A q \in I : \E p \in J : arr[q] = arr'[p]
      BY <2>1
    <2>5. \A q \in J : \E p \in I : arr'[q] = arr[p]
      BY <2>2
    <2> HIDE DEF I, J
    <2>6. CoverOf(arr, I) \subseteq CoverOf(arr', J) /\ CoverOf(arr', J) \subseteq CoverOf(arr, I)
      BY <2>4, <2>5, CoverSubset
    <2>7. CoverOf(arr, I) = CoverOf(arr', J)
      BY <2>6
    <2> QED
      BY <2>3, <2>7
  <1>10. MergeTypeOK'
    BY <1>1, <1>5 DEF MergeTypeOK, Advance
  <1> QED
    BY <1>5, <1>7, <1>8, <1>9, <1>10

-----------------------------------------------------------------------------
\* The loop is over: no entry is left beyond those kept.
LEMMA MergeReturnFacts ==
    ASSUME MergeTypeOK, MergeInv, WholePages(arr), MergeReturn
    PROVE  /\ MergeTypeOK' /\ MergeInv' /\ WholePages(arr)'
           /\ Len(arr') = Len(arr)
           /\ \A kind \in Kinds : KindCover(kind)' = KindCover(kind)
  <1>1. /\ stage = "merge" /\ stage' = "merged" /\ i' = i /\ out' = out /\ arr' = arr
        /\ Len(arr) \in Nat /\ i \in 2 .. Len(arr) + 1 /\ i > Len(arr) /\ out \in 1 .. i - 1
        /\ Ascending(arr, Live) /\ Settled(arr, out)
    BY SeqDomain DEF MergeInv, MergeTypeOK, MergeReturn
  <1>2. Live' = Live /\ 1 .. out \subseteq Live
    BY <1>1 DEF Live
  <1>3. MergeInv'
    BY <1>1, <1>2 DEF MergeInv, Ascending
  <1>4. \A kind \in Kinds : KindCover(kind)' = KindCover(kind)
    BY <1>1, <1>2 DEF KindCover
  <1> QED
    BY <1>1, <1>3, <1>4 DEF WholePages, MergeTypeOK, Stages

\* The call is entered: a short array is already what it will return.
LEMMA StartMergeFacts ==
    ASSUME MergeTypeOK, WholePages(arr), StartMerge
    PROVE  /\ MergeTypeOK' /\ MergeInv' /\ WholePages(arr)'
           /\ Len(arr') = Len(arr)
           /\ \A kind \in Kinds : KindCover(kind)' = KindCover(kind)
  <1>1. /\ stage = "idle" /\ i' = 2 /\ out' = Len(arr) /\ arr' = arr
        /\ Len(arr) \in Nat
        /\ stage' = IF Len(arr) <= 1 THEN "merged" ELSE "sort"
    BY SeqDomain DEF MergeTypeOK, StartMerge
  <1>2. Live' = Live
    <2>1. Live = 1 .. Len(arr)
      BY <1>1 DEF Live
    <2>2. CASE Len(arr) <= 1
      <3>1. Live' = (1 .. Len(arr)) \cup (2 .. Len(arr))
        BY <1>1, <2>2 DEF Live
      <3> QED
        BY <1>1, <2>1, <2>2, <3>1
    <2>3. CASE Len(arr) > 1
      BY <1>1, <2>1, <2>3 DEF Live
    <2> QED
      BY <1>1, <2>2, <2>3
  <1>3. MergeInv'
    BY <1>1 DEF MergeInv, Ascending, Settled
  <1>4. \A kind \in Kinds : KindCover(kind)' = KindCover(kind)
    BY <1>1, <1>2 DEF KindCover
  <1> QED
    BY <1>1, <1>3, <1>4 DEF WholePages, MergeTypeOK, Stages

\* Any step of the call.
LEMMA MergeStepFacts ==
    ASSUME MergeTypeOK, MergeInv, WholePages(arr), MergeStep
    PROVE  /\ MergeTypeOK' /\ MergeInv' /\ WholePages(arr)'
           /\ Len(arr') = Len(arr)
           /\ \A kind \in Kinds : KindCover(kind)' = KindCover(kind)
  BY SortStepFacts, SortReturnFacts, AbsorbFacts, AdvanceFacts, MergeReturnFacts DEF MergeStep

\* While the call runs its live entries are entries of the array (stated for
\* the state before and the state after a step).
LEMMA LiveInArray ==
    /\ MergeTypeOK /\ MergeInv => Live \subseteq 1 .. Len(arr)
    /\ MergeTypeOK' /\ MergeInv' => Live' \subseteq 1 .. Len(arr')
  BY SeqDomain DEF MergeInv, MergeTypeOK, Live

\* A step of the call moves no address in or out of the live entries, and an
\* array of one kind stays of that kind.
LEMMA MergeStepCover ==
    ASSUME MergeTypeOK, MergeInv, WholePages(arr), MergeStep
    PROVE  /\ LiveCover' = LiveCover
           /\ \A k \in Kinds : (\A q \in Live : arr[q].kind = k) =>
                                (\A q \in Live' : arr'[q].kind = k)
  <1>1. /\ MergeTypeOK' /\ MergeInv' /\ WholePages(arr)'
        /\ \A kind \in Kinds : KindCover(kind)' = KindCover(kind)
    BY MergeStepFacts
  <1>2. Live \subseteq 1 .. Len(arr) /\ Live' \subseteq 1 .. Len(arr')
    BY <1>1, LiveInArray
  <1>3. LiveCover' = LiveCover
    <2>1. LiveCover = {a \in Addr : \E kind \in Kinds : a \in KindCover(kind)}
      BY <1>2, LiveCoverByKind
    <2>2. LiveCover' = {a \in Addr : \E kind \in Kinds : a \in KindCover(kind)'}
      BY <1>1, <1>2, LiveCoverByKind
    <2> QED
      BY <1>1, <2>1, <2>2
  <1>4. ASSUME NEW k \in Kinds, \A q \in Live : arr[q].kind = k, NEW q \in Live'
        PROVE  arr'[q].kind = k
    <2>1. arr'[q] \in Region /\ WellFormed(arr'[q])
      BY <1>1, <1>2 DEF MergeTypeOK, WholePages
    <2>2. PICK a \in Addr : Inside(a, arr'[q])
      BY <2>1, PageAssumption DEF Region, Addr, WellFormed, Inside
    <2>3. PICK kind \in Kinds : arr'[q].kind = kind
      BY <2>1 DEF Region
    <2>4. a \in KindCover(kind)'
      BY <2>2, <2>3 DEF KindCover, CoverOf
    <2>5. a \in KindCover(kind)
      BY <1>1, <2>4
    <2> QED
      BY <1>4, <2>3, <2>5 DEF KindCover, CoverOf
  <1> QED
    BY <1>3, <1>4

\* What the caller goes on with once the call has returned.
LEMMA MergedFacts ==
    ASSUME MergeTypeOK, MergeInv, WholePages(arr), stage = "merged"
    PROVE  /\ Merged \in Seq(Region) /\ WholePages(Merged)
           /\ Cover(Merged) = LiveCover
           /\ Ascending(Merged, DOMAIN Merged)
           /\ \A k \in Kinds : (\A q \in Live : arr[q].kind = k) => Separated(Merged)
  <1>1. /\ arr \in Seq(Region) /\ Len(arr) \in Nat /\ DOMAIN arr = 1 .. Len(arr)
        /\ out \in 0 .. Len(arr) /\ i \in Nat /\ i > Len(arr)
        /\ Ascending(arr, 1 .. out) /\ Settled(arr, out)
    BY SeqDomain DEF MergeInv, MergeTypeOK
  <1>2. \A q \in 1 .. Len(arr) : arr[q] \in Region /\ WellFormed(arr[q])
    BY <1>1, SeqDomain DEF WholePages
  <1>3. /\ Merged \in Seq(Region) /\ Len(Merged) = out /\ DOMAIN Merged = 1 .. out
        /\ \A q \in 1 .. out : Merged[q] = arr[q]
    BY <1>1 DEF Merged
  <1>4. Live = 1 .. out
    BY <1>1 DEF Live
  <1>5. WholePages(Merged)
    BY <1>1, <1>2, <1>3 DEF WholePages
  <1>6. Cover(Merged) = LiveCover
    BY <1>3, <1>4 DEF Cover, LiveCover, CoverOf
  <1>7. Ascending(Merged, DOMAIN Merged)
    BY <1>1, <1>3 DEF Ascending
  <1>8. ASSUME NEW k \in Kinds, \A q \in Live : arr[q].kind = k
        PROVE  Separated(Merged)
    <2> SUFFICES ASSUME NEW p \in 1 .. out, NEW q \in 1 .. out, p < q
                 PROVE  arr[p].end < arr[q].start
      BY <1>3 DEF Separated
    <2>1. p \in 1 .. out - 1 /\ p + 1 \in 1 .. out /\ p + 1 <= q
      BY <1>1
    <2>2. ~Mergeable(arr[p], arr[p + 1])
      BY <1>1, <2>1 DEF Settled
    <2>3. arr[p].kind = k /\ arr[p + 1].kind = k
      BY <1>4, <1>8, <2>1
    <2>4. arr[p].end \in Nat /\ arr[p + 1].start \in Nat /\ arr[q].start \in Nat
      <3>1. arr[p] \in Region /\ arr[p + 1] \in Region /\ arr[q] \in Region
        BY <1>1, <1>2, <2>1
      <3> QED
        BY <3>1, PageAssumption DEF Region, Addr
    <2>5. arr[p].end < arr[p + 1].start
      BY <2>2, <2>3, <2>4 DEF Mergeable
    <2>6. arr[p + 1].start <= arr[q].start
      BY <1>1, <2>1, <2>4 DEF Ascending
    <2> QED
      BY <2>4, <2>5, <2>6
  <1> QED
    BY <1>3, <1>5, <1>6, <1>7, <1>8
-----------------------------------------------------------------------------
(* One call, for every array of whole-page regions.                         *)

\* The inductive invariant of the call.
CallInv == MergeTypeOK /\ MergeInv /\ WholePages(arr)

\* The invariant holds of every array mm_merge_regions may be called with.
LEMMA CallInvInit ==
    ASSUME MergeInit
    PROVE  CallInv
  BY ListsAssumption DEF MergeInit, CallInv, MergeTypeOK, MergeInv, Stages

\* Every step of the sort and of the merge keeps it.
LEMMA CallInvNext ==
    ASSUME CallInv, [MergeNext]_mergeVars
    PROVE  CallInv'
  <1>1. CASE StartMerge
    BY <1>1, StartMergeFacts DEF CallInv
  <1>2. CASE MergeStep
    BY <1>2, MergeStepFacts DEF CallInv
  <1>3. CASE CallReturned \/ UNCHANGED mergeVars
    BY <1>3 DEF CallReturned, mergeVars, CallInv, MergeTypeOK, MergeInv, WholePages, Live,
                Ascending, Settled
  <1> QED
    BY <1>1, <1>2, <1>3 DEF MergeNext

\* The variables keep their types in every state of the call.
THEOREM MergeTypeCorrect == MergeSpec => []MergeTypeOK
  <1>1. CallInv => MergeTypeOK
    BY DEF CallInv
  <1> QED
    BY CallInvInit, CallInvNext, <1>1, PTL DEF MergeSpec

\* The result of mm_merge_regions is in ascending order.
THEOREM MergeSorts == MergeSpec => []ResultSorted
  <1>1. CallInv => ResultSorted
    BY DEF CallInv, MergeInv, Ascending, ResultSorted
  <1> QED
    BY CallInvInit, CallInvNext, <1>1, PTL DEF MergeSpec

\* A list of one kind comes back disjoint and with gaps.
THEOREM MergeSeparates == MergeSpec => []OneKindSeparated
  <1>1. ASSUME CallInv
        PROVE  OneKindSeparated
    <2> SUFFICES ASSUME stage = "merged", \A p, q \in 1 .. out : arr[p].kind = arr[q].kind,
                        NEW p \in 1 .. out, NEW q \in 1 .. out, p < q
                 PROVE  arr[p].end < arr[q].start
      BY DEF OneKindSeparated
    <2>1. /\ arr \in Seq(Region) /\ Len(arr) \in Nat /\ out \in 0 .. Len(arr)
          /\ Ascending(arr, 1 .. out) /\ Settled(arr, out)
      BY <1>1, SeqDomain DEF CallInv, MergeInv, MergeTypeOK
    <2>2. p + 1 \in 1 .. out /\ p \in 1 .. out - 1 /\ p + 1 <= q
      BY <2>1
    <2>3. arr[p] \in Region /\ arr[p + 1] \in Region /\ arr[q] \in Region
      BY <2>1, <2>2, SeqDomain
    <2>4. arr[p].end \in Nat /\ arr[p + 1].start \in Nat /\ arr[q].start \in Nat
      BY <2>3, PageAssumption DEF Region, Addr
    <2>5. arr[p].end < arr[p + 1].start
      BY <2>1, <2>2, <2>4 DEF Settled, Mergeable
    <2>6. arr[p + 1].start <= arr[q].start
      BY <2>1, <2>2, <2>4 DEF Ascending
    <2> QED
      BY <2>4, <2>5, <2>6
  <1> QED
    BY CallInvInit, CallInvNext, <1>1, PTL DEF MergeSpec

\* No step of the call moves an address from one kind to another, or in or out
\* of the map.
THEOREM MergeKeepsFlags == MergeSpec => FlagsKept
  <1>1. ASSUME CallInv, [MergeNext]_mergeVars
        PROVE  [\A kind \in Kinds : KindCover(kind)' = KindCover(kind)]_mergeVars
    <2>1. CASE StartMerge
      BY <1>1, <2>1, StartMergeFacts DEF CallInv
    <2>2. CASE MergeStep
      BY <1>1, <2>2, MergeStepFacts DEF CallInv
    <2>3. CASE CallReturned \/ UNCHANGED mergeVars
      BY <2>3 DEF CallReturned
    <2> QED
      BY <1>1, <2>1, <2>2, <2>3 DEF MergeNext
  <1> QED
    BY CallInvInit, CallInvNext, <1>1, PTL DEF MergeSpec, FlagsKept
=============================================================================
