--------------------------- MODULE DtbScanProofs ---------------------------
(***************************************************************************)
(* The calls that walk the device tree, for every tree, buffer, node and   *)
(* address: what they store, and that they come to every node they should. *)
(***************************************************************************)
EXTENDS DtbScan, SequenceProofs

-----------------------------------------------------------------------------
(* Offsets.                                                                 *)

\* The least of a set of naturals.
LEMMA MinFacts ==
    ASSUME NEW S \in SUBSET Nat, S # {}
    PROVE  Min(S) \in S /\ \A y \in S : Min(S) <= y
  <1>1. \E x \in S : \A y \in S : x <= y
    BY Least
  <1> QED
    BY <1>1 DEF Min

\* The greatest of a set of naturals that has one.
LEMMA MaxFacts ==
    ASSUME NEW S \in SUBSET Nat, NEW b \in Nat, \A x \in S : x <= b, S # {}
    PROVE  Max(S) \in S /\ \A y \in S : y <= Max(S)
  <1> DEFINE T == {d \in Nat : b - d \in S}
  <1>1. T \in SUBSET Nat /\ T # {}
    <2>1. PICK x \in S : TRUE
      OBVIOUS
    <2>2. b - x \in Nat /\ b - (b - x) = x
      BY <2>1
    <2> QED
      BY <2>2
  <1>2. PICK d \in T : \A e \in T : d <= e
    <2> HIDE DEF T
    <2> QED
      BY <1>1, Least
  <1>3. b - d \in S
    BY <1>2
  <1>4. ASSUME NEW y \in S PROVE y <= b - d
    <2>1. b - y \in Nat /\ b - (b - y) = y
      OBVIOUS
    <2>2. b - y \in T
      BY <2>1
    <2>3. d <= b - y
      BY <1>2, <2>2
    <2> QED
      BY <1>2, <2>3
  <1>5. \E x \in S : \A y \in S : x >= y
    BY <1>3, <1>4
  <1> HIDE DEF T
  <1> QED
    BY <1>5 DEF Max

\* FirstOf of offsets.
LEMMA FirstFacts ==
    ASSUME NEW S \in SUBSET Nat
    PROVE  /\ S = {} => FirstOf(S) = NoOffset
           /\ S # {} => FirstOf(S) \in S /\ \A y \in S : FirstOf(S) <= y
           /\ FirstOf(S) = NoOffset => S = {}
  <1>1. NoOffset \notin Nat
    BY DEF NoOffset
  <1>2. CASE S = {}
    BY <1>2 DEF FirstOf
  <1>3. CASE S # {}
    <2>1. FirstOf(S) \in S /\ \A y \in S : FirstOf(S) <= y
      BY <1>3, MinFacts DEF FirstOf
    <2> QED
      BY <1>1, <1>3, <2>1
  <1> QED
    BY <1>2, <1>3

\* The nodes of a tree are numbered, and their depths are numbers.
LEMMA TreeFacts ==
    ASSUME NEW t, IsTree(t)
    PROVE  /\ Len(t) \in Nat \ {0} /\ DOMAIN t = 1 .. Len(t)
           /\ t[1].depth = 0
           /\ \A k \in 1 .. Len(t) : t[k].depth \in Nat
           /\ \A k \in 2 .. Len(t) : t[k].depth >= 1 /\ t[k].depth <= t[k - 1].depth + 1
  <1>1. PICK m \in Nat \ {0} : m = Len(t) /\ DOMAIN t = 1 .. m
    BY DEF IsTree
  <1>2. t[1].depth = 0 /\ \A k \in 2 .. m : t[k].depth \in 1 .. t[k - 1].depth + 1
    BY <1>1 DEF IsTree
  <1> DEFINE S == {k \in Nat : k + 1 <= m => t[k + 1].depth \in Nat}
  <1>3. 0 \in S
    BY <1>2
  <1>4. ASSUME NEW k \in Nat, k \in S PROVE k + 1 \in S
    <2> SUFFICES ASSUME (k + 1) + 1 <= m PROVE t[(k + 1) + 1].depth \in Nat
      OBVIOUS
    <2>1. k + 2 \in 2 .. m /\ (k + 2) - 1 = k + 1 /\ (k + 1) + 1 = k + 2 /\ t[k + 1].depth \in Nat
      BY <1>4
    <2>2. t[k + 2].depth \in 1 .. t[k + 1].depth + 1
      BY <1>2, <2>1
    <2> QED
      BY <2>1, <2>2
  <1>5. \A k \in Nat : k \in S
    <2> HIDE DEF S
    <2> QED
      BY <1>3, <1>4, Induction
  <1>6. \A k \in 1 .. m : t[k].depth \in Nat
    <2> SUFFICES ASSUME NEW k \in 1 .. m PROVE t[k].depth \in Nat
      OBVIOUS
    <2>1. k - 1 \in Nat /\ (k - 1) + 1 = k
      OBVIOUS
    <2>2. k - 1 \in S
      BY <1>5, <2>1
    <2> QED
      BY <2>1, <2>2
  <1>7. \A k \in 2 .. m : k - 1 \in 1 .. m
    OBVIOUS
  <1> HIDE DEF S
  <1>8. ASSUME NEW k \in 2 .. m PROVE t[k].depth >= 1 /\ t[k].depth <= t[k - 1].depth + 1
    <2>1. t[k - 1].depth \in Nat /\ t[k].depth \in 1 .. t[k - 1].depth + 1
      BY <1>2, <1>6, <1>7
    <2> QED
      BY <2>1
  <1> QED
    BY <1>1, <1>2, <1>6, <1>8

\* fdt_next_node goes forward or gives up, with any depth counter.
LEMMA NextNodeForward ==
    ASSUME NEW t, IsTree(t), NEW k \in 1 .. Len(t) + 1, NEW d \in Int
    PROVE  /\ \/ fdt_next_node(t, k, d).off = NoOffset
              \/ fdt_next_node(t, k, d).off \in k + 1 .. Len(t) + 1
           /\ fdt_next_node(t, k, d).depth \in Int
  <1>1. PICK m \in Nat \ {0} : m = Len(t) /\ DOMAIN t = 1 .. m
    BY DEF IsTree
  <1>2. k # NoOffset /\ k \in Nat
    BY <1>1 DEF NoOffset
  <1>3. CASE k = m + 1
    <2>1. ~IsNode(t, k)
      BY <1>1, <1>3 DEF IsNode
    <2> QED
      BY <1>2, <2>1 DEF fdt_next_node
  <1>4. CASE k \in 1 .. m
    <2>1. IsNode(t, k)
      BY <1>1, <1>4 DEF IsNode
    <2>2. PICK next : next = k + 1
      OBVIOUS
    <2>3. PICK ends : ends = IF next <= m THEN t[k].depth - t[next].depth + 1 ELSE t[k].depth + 1
      OBVIOUS
    <2>4. ends \in Int /\ next \in k + 1 .. m + 1 /\ OffNode(t) = m + 1
      <3>1. next \in 2 .. m + 1 /\ next \in k + 1 .. m + 1
        BY <1>4, <2>2
      <3>2. t[k].depth \in Nat /\ (next <= m => t[next].depth \in Nat)
        BY <1>1, <1>4, <3>1, TreeFacts
      <3> QED
        BY <1>1, <2>3, <3>1, <3>2 DEF OffNode
    <2>5. fdt_next_node(t, k, d) =
            CASE ends = 0 -> [off |-> next, depth |-> d + 1]
              [] ends > 0 /\ d < 0 ->
                   [off |-> IF next <= m /\ ends = 1 THEN next ELSE OffNode(t), depth |-> d - 1]
              [] ends > d /\ d >= 0 ->
                   [off |-> IF next <= m /\ ends = d + 1 THEN next ELSE OffNode(t), depth |-> -1]
              [] OTHER -> IF next <= m THEN [off |-> next, depth |-> d - ends + 1]
                          ELSE [off |-> NoOffset, depth |-> d - ends]
      BY <1>1, <1>2, <2>1, <2>2, <2>3 DEF fdt_next_node
    <2> QED
      BY <1>1, <1>4, <2>4, <2>5
  <1> QED
    BY <1>1, <1>3, <1>4

LEMMA EndTags ==
    ASSUME NEW b \in Nat, NEW e \in Nat, e >= 1, e <= b + 1
    PROVE  /\ e = b + 1 => b - e + 1 = 0
           /\ e # b + 1 => /\ b - e + 1 # 0 /\ ~(b < 0) /\ ~(b - e + 1 > b)
                           /\ b - (b - e + 1) + 1 = e
  OBVIOUS

\* With the depth of the node itself as its counter fdt_next_node comes to every node;
\* behind the last one it comes to the end tag, and from there nowhere.
LEMMA NextNodeStep ==
    ASSUME NEW t, IsTree(t), NEW k \in 1 .. Len(t) + 1, NEW d \in Int,
           k \in 1 .. Len(t) => d = t[k].depth
    PROVE  /\ k < Len(t) => /\ fdt_next_node(t, k, d).off = k + 1
                            /\ fdt_next_node(t, k, d).depth = t[k + 1].depth
           /\ k = Len(t) => fdt_next_node(t, k, d).off = Len(t) + 1
           /\ k = Len(t) + 1 => fdt_next_node(t, k, d).off = NoOffset
  <1>1. PICK m \in Nat \ {0} : m = Len(t) /\ DOMAIN t = 1 .. m
    BY DEF IsTree
  <1>2. k # NoOffset /\ k \in Nat
    BY <1>1 DEF NoOffset
  <1>3. CASE k = m + 1
    <2>1. ~IsNode(t, k)
      BY <1>1, <1>3 DEF IsNode
    <2> QED
      BY <1>1, <1>2, <1>3, <2>1 DEF fdt_next_node
  <1>4. CASE k = m
    <2>1. IsNode(t, k) /\ d = t[k].depth /\ d \in Nat /\ ~(k + 1 <= m)
      BY <1>1, <1>4, TreeFacts DEF IsNode
    <2>2. fdt_next_node(t, k, d) =
            CASE d + 1 = 0 -> [off |-> k + 1, depth |-> d + 1]
              [] d + 1 > 0 /\ d < 0 -> [off |-> OffNode(t), depth |-> d - 1]
              [] d + 1 > d /\ d >= 0 -> [off |-> OffNode(t), depth |-> -1]
              [] OTHER -> [off |-> NoOffset, depth |-> d - (d + 1)]
      BY <1>1, <1>2, <2>1 DEF fdt_next_node
    <2>3. fdt_next_node(t, k, d).off = OffNode(t)
      BY <2>1, <2>2
    <2> QED
      BY <1>1, <1>4, <2>3 DEF OffNode
  <1>5. CASE k < m
    <2>1. IsNode(t, k) /\ d = t[k].depth /\ d \in Nat /\ k + 1 <= m
      BY <1>1, <1>2, <1>5, TreeFacts DEF IsNode
    <2>2. k + 1 \in 2 .. m /\ (k + 1) - 1 = k
      BY <1>1, <1>2, <1>5
    <2>3. PICK e \in Nat : e = t[k + 1].depth /\ e >= 1 /\ e <= d + 1
      <3>1. t[k + 1].depth \in Nat /\ t[k + 1].depth >= 1 /\ t[k + 1].depth <= t[k].depth + 1
        BY <1>1, <2>2, TreeFacts
      <3> QED
        BY <2>1, <3>1
    <2>4. fdt_next_node(t, k, d) =
            CASE d - e + 1 = 0 -> [off |-> k + 1, depth |-> d + 1]
              [] d - e + 1 > 0 /\ d < 0 ->
                   [off |-> IF d - e + 1 = 1 THEN k + 1 ELSE OffNode(t), depth |-> d - 1]
              [] d - e + 1 > d /\ d >= 0 ->
                   [off |-> IF d - e + 1 = d + 1 THEN k + 1 ELSE OffNode(t), depth |-> -1]
              [] OTHER -> [off |-> k + 1, depth |-> d - (d - e + 1) + 1]
      BY <1>1, <1>2, <2>1, <2>3 DEF fdt_next_node
    <2>5. fdt_next_node(t, k, d) = [off |-> k + 1, depth |-> e]
      <3>1. PICK b \in Nat : b = d
        BY <2>1
      <3>2. PICK r : r = [off |-> k + 1, depth |-> e]
        OBVIOUS
      <3>3. e >= 1 /\ e <= b + 1
        BY <2>3, <3>1
      <3>4. e # b + 1 => /\ b - e + 1 # 0 /\ ~(b < 0) /\ ~(b - e + 1 > b)
                         /\ b - (b - e + 1) + 1 = e
        BY <3>3, EndTags
      <3>5. CASE e = b + 1
        <4>1. b - e + 1 = 0
          BY <3>3, <3>5, EndTags
        <4>2. fdt_next_node(t, k, d) = [off |-> k + 1, depth |-> b + 1]
          <5>1. ~(b - e + 1 > 0) /\ ~(b - e + 1 > b)
            BY <3>1, <4>1
          <5> QED
            BY <2>4, <3>1, <4>1, <5>1
        <4> QED
          BY <3>2, <3>5, <4>2
      <3>6. CASE e # b + 1
        <4>1. fdt_next_node(t, k, d) = [off |-> k + 1, depth |-> b - (b - e + 1) + 1]
          BY <2>4, <3>1, <3>4, <3>6
        <4> QED
          BY <3>4, <3>6, <4>1
      <3> QED
        BY <3>5, <3>6
    <2> QED
      BY <1>1, <1>5, <2>3, <2>5
  <1> QED
    BY <1>1, <1>2, <1>3, <1>4, <1>5

\* The parent of a node stands before it.
LEMMA ParentFacts ==
    ASSUME NEW t, IsTree(t), NEW k \in 1 .. Len(t)
    PROVE  \/ fdt_parent_offset(t, k) = NoOffset
           \/ /\ fdt_parent_offset(t, k) \in 1 .. k - 1
              /\ t[fdt_parent_offset(t, k)].depth = t[k].depth - 1
              /\ \A j \in 1 .. k - 1 : t[j].depth = t[k].depth - 1 => j <= fdt_parent_offset(t, k)
  <1>1. PICK above : above = {j \in 1 .. k - 1 : t[j].depth = t[k].depth - 1}
    OBVIOUS
  <1>2. fdt_parent_offset(t, k) = IF above = {} THEN NoOffset ELSE Max(above)
    BY <1>1 DEF fdt_parent_offset
  <1>3. CASE above # {}
    <2>1. above \in SUBSET Nat /\ k \in Nat /\ \A x \in above : x <= k
      BY <1>1, TreeFacts
    <2>2. Max(above) \in above /\ \A y \in above : y <= Max(above)
      BY <1>3, <2>1, MaxFacts
    <2> QED
      BY <1>1, <1>2, <1>3, <2>2
  <1> QED
    BY <1>2, <1>3

\* Where a path leads, and what the children of a node are.
LEMMA PathFacts ==
    ASSUME NEW t, IsTree(t), NEW name
    PROVE  fdt_path_offset(t, name) = NoOffset \/ fdt_path_offset(t, name) \in 1 .. Len(t)
  <1>1. {k \in Children(t, 1) : t[k].name = name} \in SUBSET (1 .. Len(t))
    BY TreeFacts DEF Children
  <1>2. ASSUME NEW S \in SUBSET (1 .. Len(t))
        PROVE  FirstOf(S) = NoOffset \/ FirstOf(S) \in 1 .. Len(t)
    <2>1. S \in SUBSET Nat
      BY TreeFacts
    <2> QED
      BY <2>1, FirstFacts
  <1> QED
    BY <1>1, <1>2 DEF fdt_path_offset

LEMMA ChildrenFacts ==
    ASSUME NEW t, IsTree(t), NEW p
    PROVE  Children(t, p) \in SUBSET (1 .. Len(t)) /\ (p = NoOffset => Children(t, p) = {})
  BY TreeFacts DEF Children, IsNode, NoOffset

\* The iteration over the children of p: the first one, and the next after a child k.
LEMMA SubnodeFacts ==
    ASSUME NEW t, IsTree(t), NEW p
    PROVE  /\ \/ fdt_first_subnode(t, p) = NoOffset /\ Children(t, p) = {}
              \/ /\ fdt_first_subnode(t, p) \in Children(t, p)
                 /\ \A y \in Children(t, p) : fdt_first_subnode(t, p) <= y
           /\ \A k \in Children(t, p) :
                \/ fdt_next_subnode(t, k) = NoOffset /\ \A y \in Children(t, p) : y <= k
                \/ /\ fdt_next_subnode(t, k) \in Children(t, p) /\ fdt_next_subnode(t, k) > k
                   /\ \A y \in Children(t, p) : y > k => fdt_next_subnode(t, k) <= y
  <1>1. PICK C \in SUBSET Nat : C = Children(t, p)
    BY ChildrenFacts
  <1>2. \/ fdt_first_subnode(t, p) = NoOffset /\ C = {}
        \/ fdt_first_subnode(t, p) \in C /\ \A y \in C : fdt_first_subnode(t, p) <= y
    BY <1>1, FirstFacts DEF fdt_first_subnode
  <1>3. ASSUME NEW k \in C
        PROVE  \/ fdt_next_subnode(t, k) = NoOffset /\ \A y \in C : y <= k
               \/ /\ fdt_next_subnode(t, k) \in C /\ fdt_next_subnode(t, k) > k
                  /\ \A y \in C : y > k => fdt_next_subnode(t, k) <= y
    <2>1. fdt_parent_offset(t, k) = p
      BY <1>1 DEF Children
    <2>2. PICK S \in SUBSET Nat : S = {y \in C : y > k}
      OBVIOUS
    <2>3. fdt_next_subnode(t, k) = FirstOf(S)
      BY <1>1, <2>1, <2>2 DEF fdt_next_subnode
    <2>4. CASE S = {}
      BY <2>2, <2>3, <2>4, FirstFacts
    <2>5. CASE S # {}
      BY <2>2, <2>3, <2>5, FirstFacts
    <2> QED
      BY <2>4, <2>5
  <1> QED
    BY <1>1, <1>2, <1>3

-----------------------------------------------------------------------------
(* What is stored.                                                          *)

\* Sequences that are empty add nothing.
Gap(ss, a, b) == \A k \in a + 1 .. b : ss[k] = <<>>

LEMMA UptoGap ==
    ASSUME NEW T, NEW m \in Nat, NEW ss \in [1 .. m -> Seq(T)], NEW a \in 0 .. m, NEW b \in a .. m,
           Gap(ss, a, b)
    PROVE  Upto(ss, b) = Upto(ss, a)
  <1>1. Runner(ss, m, T)
    BY UptoRuns
  <1> DEFINE S == {d \in Nat : a + d <= b => Upto(ss, a + d) = Upto(ss, a)}
  <1>2. 0 \in S
    OBVIOUS
  <1>3. ASSUME NEW d \in Nat, d \in S PROVE d + 1 \in S
    <2> SUFFICES ASSUME a + (d + 1) <= b PROVE Upto(ss, a + (d + 1)) = Upto(ss, a)
      OBVIOUS
    <2>1. PICK k \in 1 .. m : k = a + (d + 1) /\ k - 1 = a + d
      OBVIOUS
    <2>2. k \in a + 1 .. b /\ k - 1 \in 0 .. m /\ a + d <= b
      BY <2>1
    <2>3. Upto(ss, k) = Upto(ss, k - 1) \o ss[k] /\ Upto(ss, k - 1) \in Seq(T) /\ ss[k] = <<>>
      BY <1>1, <2>1, <2>2 DEF Runner, Gap
    <2>4. Upto(ss, k) = Upto(ss, k - 1)
      BY <2>3, ConcatEmptySeq
    <2> QED
      BY <1>3, <2>1, <2>2, <2>4
  <1>4. \A d \in Nat : d \in S
    <2> HIDE DEF S
    <2> QED
      BY <1>2, <1>3, Induction
  <1>5. PICK d \in Nat : a + d = b /\ a + d <= b
    <2>1. b - a \in Nat /\ a + (b - a) = b /\ a + (b - a) <= b
      OBVIOUS
    <2> QED
      BY <2>1
  <1>6. d \in S
    BY <1>4, Zenon
  <1>7. Upto(ss, a + d) = Upto(ss, a)
    BY <1>5, <1>6
  <1> QED
    BY <1>5, <1>7, Zenon

\* What a buffer of cap entries holds of a sequence.
LEMMA CutFacts ==
    ASSUME NEW T, NEW s \in Seq(T), cap \in Nat
    PROVE  /\ min_int(Len(s), cap) \in Nat /\ min_int(Len(s), cap) <= Len(s)
           /\ Cut(s) \in Seq(T) /\ Len(Cut(s)) = min_int(Len(s), cap)
           /\ Cut(s) = [q \in 1 .. min_int(Len(s), cap) |-> s[q]]
  <1>1. PICK c \in Nat : c = Len(s) /\ DOMAIN s = 1 .. c
    BY SeqDomain
  <1>2. PICK m \in Nat : m = min_int(c, cap) /\ m <= c
    BY DEF min_int
  <1>3. PICK u : u = SubSeq(s, 1, m)
    OBVIOUS
  <1>4. u = [q \in 1 .. m |-> s[q]]
    BY <1>1, <1>2, <1>3
  <1>5. \A q \in 1 .. m : s[q] \in T
    BY <1>1, <1>2
  <1>6. u \in Seq(T) /\ Len(u) = m
    BY <1>2, <1>4, <1>5, FunctionIsSeq
  <1> QED
    BY <1>1, <1>2, <1>3, <1>4, <1>6 DEF Cut

\* Storing e behind what was cut off s is cutting off both.
LEMMA StoreFacts ==
    ASSUME NEW T, NEW s \in Seq(T), NEW e \in Seq(T), cap \in Nat, arr = Cut(s), n = Len(s),
           Store(e), cap' = cap
    PROVE  arr' = Cut(s \o e) /\ n' = Len(s \o e)
  <1>1. PICK c \in Nat : c = Len(s) /\ DOMAIN s = 1 .. c
    BY SeqDomain
  <1>2. PICK d \in Nat : d = Len(e) /\ DOMAIN e = 1 .. d
    BY SeqDomain
  <1>3. PICK m \in Nat : m = min_int(c, cap) /\ m <= c
    BY DEF min_int
  <1>4. arr \in Seq(T) /\ Len(arr) = m /\ arr = [q \in 1 .. m |-> s[q]]
    BY <1>1, <1>3, CutFacts
  <1>5. PICK u \in Seq(T) : u = arr \o e /\ Len(u) = m + d
    BY <1>2, <1>4, ConcatFacts, ZenonT(30)
  <1>6. PICK v \in Seq(T) : v = s \o e /\ Len(v) = c + d
    BY <1>1, <1>2, ConcatFacts
  <1>7. Cut(u) = arr' /\ n' = c + d
    BY <1>1, <1>2, <1>4, <1>5 DEF Store, Cut
  <1>8. min_int(m + d, cap) = min_int(c + d, cap)
    BY <1>3 DEF min_int
  <1>9. PICK w \in Nat : w = min_int(c + d, cap)
    BY DEF min_int
  <1>10. Cut(u) = [q \in 1 .. w |-> u[q]] /\ Cut(v) = [q \in 1 .. w |-> v[q]]
    <2>1. min_int(Len(u), cap) = w /\ min_int(Len(v), cap) = w
      BY <1>5, <1>6, <1>8, <1>9
    <2>2. Cut(u) = [q \in 1 .. min_int(Len(u), cap) |-> u[q]]
      BY CutFacts
    <2>3. Cut(v) = [q \in 1 .. min_int(Len(v), cap) |-> v[q]]
      BY CutFacts
    <2> QED
      BY <2>1, <2>2, <2>3
  <1>11. ASSUME NEW q \in 1 .. w PROVE u[q] = v[q]
    <2>1. CASE m = c
      <3>1. arr = s
        BY <1>1, <1>4, <2>1
      <3> QED
        BY <1>5, <1>6, <3>1
    <2>2. CASE m # c
      <3>1. m = cap /\ w <= cap
        BY <1>3, <1>9, <2>2 DEF min_int
      <3>2. q \in 1 .. m /\ q \in 1 .. c
        BY <1>3, <3>1
      <3>3. u[q] = arr[q] /\ v[q] = s[q]
        BY <1>1, <1>4, <1>5, <1>6, <3>2, ConcatFacts
      <3> QED
        BY <1>4, <3>2, <3>3
    <2> QED
      BY <2>1, <2>2
  <1>12. Cut(u) = Cut(v)
    BY <1>10, <1>11
  <1>13. Cut(v)' = SubSeq(v, 1, min_int(Len(v), cap))
    BY DEF Cut
  <1> QED
    BY <1>6, <1>7, <1>12, <1>13 DEF Cut

-----------------------------------------------------------------------------
(* Cells.                                                                   *)

\* Rows of d cells fit into c cells c \div d times.
LEMMA RowsFit ==
    ASSUME NEW c \in Nat, NEW d \in Nat \ {0}
    PROVE  /\ c \div d \in Nat
           /\ \A q \in Nat : q < c \div d => q * d \in Nat /\ q * d + d <= c
  <1>1. PICK m \in Nat : m = c \div d /\ d * m <= c
    OBVIOUS
  <1>2. ASSUME NEW q \in Nat, q < m PROVE q * d \in Nat /\ q * d + d <= c
    <2>1. PICK r \in Nat : m = q + 1 + r
      <3>1. m - (q + 1) \in Nat /\ m = q + 1 + (m - (q + 1))
        BY <1>2
      <3> QED
        BY <3>1
    <2>2. d * m = q * d + d + d * r
      BY <2>1
    <2>3. q * d \in Nat /\ d * r \in Nat /\ d * m \in Nat
      OBVIOUS
    <2> QED
      BY <1>1, <2>2, <2>3
  <1> QED
    BY <1>1, <1>2

\* One or two cells make a number.
LEMMA ReadCellsType ==
    ASSUME NEW cells \in Seq(Nat), NEW first \in Nat \ {0}, NEW count \in 1 .. 2,
           first + count <= Len(cells) + 1
    PROVE  read_cells_u64(cells, first, count) \in Nat
  <1>1. PICK c \in Nat : c = Len(cells) /\ \A q \in 1 .. c : cells[q] \in Nat
    BY SeqDomain
  <1>2. CellSpan \in Nat
    BY DtbAssumption
  <1>3. first \in 1 .. c /\ cells[first] \in Nat
    <2>1. first \in 1 .. c
      BY <1>1
    <2> QED
      BY <1>1, <2>1
  <1>4. CASE count = 1
    BY <1>3, <1>4 DEF read_cells_u64
  <1>5. CASE count = 2
    <2>1. first + 1 \in 1 .. c
      BY <1>1, <1>5
    <2>2. cells[first + 1] \in Nat
      BY <1>1, <2>1
    <2>3. cells[first] * CellSpan \in Nat
      BY <1>2, <1>3
    <2>4. read_cells_u64(cells, first, count) = cells[first] * CellSpan + cells[first + 1]
      BY <1>5 DEF read_cells_u64
    <2> QED
      BY <2>2, <2>3, <2>4
  <1> QED
    BY <1>4, <1>5

\* An entry of a reg property, and the list of those that fit into a buffer.
Extents == [base : Nat, size : Nat]

LEMMA EntryType ==
    ASSUME NEW t, IsTree(t), NEW k \in DOMAIN t, RegError(t, k) = "ok", HasProp(t, k, "reg"),
           NEW q \in Nat, q < RegEntries(t, k)
    PROVE  EntryAt(t, k, q) \in Extents
  <1>1. PICK a \in 1 .. 2 : a = Naddr(t, k)
    BY DEF RegError
  <1>2. PICK z \in 0 .. 2 : z = Nsize(t, k)
    BY DEF RegError
  <1>3. PICK reg \in Seq(Nat) : reg = Prop(t, k, "reg")
    BY DEF IsTree
  <1>4. PICK c \in Nat : c = Len(reg)
    BY SeqDomain
  <1>5. PICK d \in Nat \ {0} : d = a + z
    OBVIOUS
  <1>6. RegEntries(t, k) = c \div d
    BY <1>1, <1>2, <1>3, <1>4, <1>5 DEF RegEntries
  <1>7. q * d \in Nat /\ q * d + d <= c
    BY <1>6, RowsFit
  <1>8. PICK first \in Nat \ {0} : first = q * d + 1 /\ first + a + z <= c + 1
    BY <1>5, <1>7
  <1>9. read_cells_u64(reg, first, a) \in Nat
    <2>1. first + a <= Len(reg) + 1
      BY <1>4, <1>8
    <2> QED
      BY <2>1, ReadCellsType
  <1>10. z # 0 => read_cells_u64(reg, first + a, z) \in Nat
    <2> SUFFICES ASSUME z # 0 PROVE read_cells_u64(reg, first + a, z) \in Nat
      OBVIOUS
    <2>1. z \in 1 .. 2 /\ first + a \in Nat \ {0} /\ (first + a) + z <= Len(reg) + 1
      BY <1>4, <1>8
    <2> QED
      BY <2>1, ReadCellsType
  <1>11. c \div d \in Nat
    BY RowsFit
  <1>12. ~(q >= RegEntries(t, k))
    BY <1>6, <1>11
  <1>13. dtb_decode_reg(t, k, q) =
           [err |-> "ok", base |-> read_cells_u64(reg, first, a),
            size |-> IF z = 0 THEN 0 ELSE read_cells_u64(reg, first + a, z)]
    BY <1>1, <1>2, <1>3, <1>5, <1>8, <1>12 DEF dtb_decode_reg
  <1> QED
    BY <1>9, <1>10, <1>13 DEF EntryAt, Extents

LEMMA RegListType ==
    ASSUME NEW t, IsTree(t), NEW k \in DOMAIN t, NEW c \in Nat
    PROVE  decode_reg_list(t, k, c).list \in Seq(Extents)
  <1>1. CASE RegError(t, k) # "ok" \/ ~HasProp(t, k, "reg")
    <2>1. decode_reg_list(t, k, c).list = <<>>
      BY <1>1 DEF decode_reg_list
    <2> QED
      BY <2>1, EmptySeq
  <1>2. CASE RegError(t, k) = "ok" /\ HasProp(t, k, "reg")
    <2>1. PICK m \in Nat : m = RegEntries(t, k)
      <3>1. Naddr(t, k) \in 1 .. 2 /\ Nsize(t, k) \in 0 .. 2
        BY <1>2 DEF RegError
      <3>2. PICK d \in Nat \ {0} : d = Naddr(t, k) + Nsize(t, k)
        BY <3>1
      <3>3. PICK e \in Nat : e = Len(Prop(t, k, "reg"))
        BY <1>2, SeqDomain DEF IsTree
      <3> QED
        BY <3>2, <3>3, RowsFit DEF RegEntries
    <2>2. PICK b \in Nat : b = min_int(m, c) /\ b <= m
      BY DEF min_int
    <2>3. PICK list : list = [q \in 1 .. b |-> EntryAt(t, k, q - 1)]
      OBVIOUS
    <2>4. decode_reg_list(t, k, c).list = list
      BY <1>2, <2>1, <2>2, <2>3 DEF decode_reg_list
    <2>5. ASSUME NEW q \in 1 .. b PROVE list[q] \in Extents
      <3>1. q - 1 \in Nat /\ q - 1 < m
        BY <2>2
      <3>2. EntryAt(t, k, q - 1) \in Extents
        BY <1>2, <2>1, <3>1, EntryType
      <3> QED
        BY <2>3, <3>2
    <2> QED
      BY <2>3, <2>4, <2>5, FunctionIsSeq
  <1> QED
    BY <1>1, <1>2

-----------------------------------------------------------------------------
(* Where a walk is.                                                         *)

\* The input is one of those given.
Given ==
    \E in \in Inputs : tree = in.tree /\ call = in.call /\ cap = in.cap /\ node = in.node /\ addr = in.addr

\* The node whose children a call by path goes through.
Top == fdt_path_offset(tree, Parent(call))

\* Where the loop may be: a walk over all nodes has the depth of its node, a walk over
\* subnodes is at a child of the node it looked up.
WalkInv ==
    /\ Given
    /\ status \in Results \cup {"start", "loop", "found"}
    /\ off \in {NoOffset} \cup 1 .. Len(tree) + 1 /\ depth \in Int /\ n \in Nat
    /\ status = "start" => off = NoOffset /\ n = 0 /\ arr = <<>>
    /\ status = "loop" => call # "compatible"
    /\ status = "found" => call \in {"devices", "compatible"} /\ off \in 1 .. Len(tree)
    /\ call \in {"memory", "controllers"} /\ off \in 1 .. Len(tree) => depth = tree[off].depth
    /\ call \in ByPath /\ status # "start" =>
         \/ Top = NoOffset /\ status = "notfound" /\ n = 0 /\ arr = <<>> /\ off = NoOffset
         \/ Top # NoOffset /\ (off = NoOffset \/ off \in Children(tree, Top))
    /\ call = "interrupts" => off \in {NoOffset} \cup 1 .. Len(tree)

\* What an input is.
LEMMA GivenFacts ==
    ASSUME Given
    PROVE  /\ IsTree(tree) /\ call \in Calls /\ cap \in Nat \ {0}
           /\ node \in DOMAIN tree /\ node \in 1 .. Len(tree)
           /\ addr \in 0 .. CellSpan * CellSpan - 1
           /\ \A k \in DOMAIN tree :
                \A name \in {"interrupts", "interrupt-parent", "#interrupt-cells", "ranges"} :
                   HasProp(tree, k, name) => Prop(tree, k, name) \in Seq(0 .. CellSpan - 1)
  <1>1. PICK in \in Inputs : /\ tree = in.tree /\ call = in.call /\ cap = in.cap
                           /\ node = in.node /\ addr = in.addr
    BY DEF Given
  <1>2. IsTree(tree) /\ call \in Calls /\ cap \in Nat \ {0} /\ IsNode(tree, node)
        /\ addr \in 0 .. CellSpan * CellSpan - 1
    BY <1>1, InputAssumption
  <1>3. node \in DOMAIN tree /\ DOMAIN tree = 1 .. Len(tree)
    BY <1>2 DEF IsNode, IsTree
  <1>4. \A k \in DOMAIN tree :
           \A name \in {"interrupts", "interrupt-parent", "#interrupt-cells", "ranges"} :
              HasProp(tree, k, name) => Prop(tree, k, name) \in Seq(0 .. CellSpan - 1)
    BY <1>1, ScanCellsAssumption
  <1> QED
    BY <1>2, <1>3, <1>4

\* The input stays as it is.
LEMMA GivenStays ==
    ASSUME Given, UNCHANGED inputVars
    PROVE  Given' /\ Top' = Top
  BY DEF Given, inputVars, Top, Parent

\* The parts of the walk that a step over all nodes keeps.
LEMMA NextNodeKeeps ==
    ASSUME WalkInv, off # NoOffset, NextNode
    PROVE  /\ off \in 1 .. Len(tree) + 1 /\ Len(tree) \in Nat \ {0}
           /\ off' = NoOffset \/ off' \in off + 1 .. Len(tree) + 1
           /\ off' \in {NoOffset} \cup 1 .. Len(tree) + 1
           /\ depth' \in Int
           /\ call \in {"memory", "controllers"} =>
                /\ off' \in 1 .. Len(tree) => depth' = tree[off'].depth
                /\ off \in 1 .. Len(tree) => off' = off + 1
                /\ off = Len(tree) + 1 => off' = NoOffset
  <1>1. IsTree(tree) /\ off \in 1 .. Len(tree) + 1 /\ depth \in Int
    BY GivenFacts DEF WalkInv
  <1>2. PICK m \in Nat \ {0} : m = Len(tree)
    BY <1>1, TreeFacts
  <1>3. off' = NoOffset \/ off' \in off + 1 .. m + 1
    BY <1>1, <1>2, NextNodeForward DEF NextNode
  <1>4. depth' \in Int
    BY <1>1, NextNodeForward DEF NextNode
  <1>5. off' \in {NoOffset} \cup 1 .. m + 1
    BY <1>1, <1>2, <1>3
  <1>6. ASSUME call \in {"memory", "controllers"}
        PROVE  /\ off' \in 1 .. m => depth' = tree[off'].depth
               /\ off \in 1 .. m => off' = off + 1
               /\ off = m + 1 => off' = NoOffset
    <2>1. off \in 1 .. Len(tree) => depth = tree[off].depth
      BY <1>6 DEF WalkInv
    <2>2. /\ off < m => off' = off + 1 /\ depth' = tree[off + 1].depth
          /\ off = m => off' = m + 1
          /\ off = m + 1 => off' = NoOffset
      BY <1>1, <1>2, <2>1, NextNodeStep DEF NextNode
    <2>3. CASE off < m
      BY <1>1, <1>2, <2>2, <2>3
    <2>4. CASE off = m
      BY <1>1, <1>2, <2>2, <2>4
    <2>5. CASE off = m + 1
      BY <1>1, <1>2, <2>2, <2>5 DEF NoOffset
    <2> QED
      BY <1>1, <1>2, <2>3, <2>4, <2>5
  <1> QED
    BY <1>1, <1>2, <1>3, <1>4, <1>5, <1>6

\* The parts of the walk that a step over subnodes keeps.
LEMMA NextSubnodeKeeps ==
    ASSUME WalkInv, status = "loop", call \in ByPath, off # NoOffset, NextSubnode
    PROVE  /\ off \in Children(tree, Top) /\ Top # NoOffset
           /\ \/ off' = NoOffset /\ \A y \in Children(tree, Top) : y <= off
              \/ /\ off' \in Children(tree, Top) /\ off' > off
                 /\ \A y \in Children(tree, Top) : y > off => off' <= y
           /\ off' \in {NoOffset} \cup 1 .. Len(tree) + 1
           /\ depth' \in Int
  <1>1. IsTree(tree) /\ off \in Children(tree, Top) /\ Top # NoOffset /\ depth' \in Int
    BY GivenFacts DEF WalkInv, NextSubnode
  <1>2. \/ off' = NoOffset /\ \A y \in Children(tree, Top) : y <= off
        \/ /\ off' \in Children(tree, Top) /\ off' > off
           /\ \A y \in Children(tree, Top) : y > off => off' <= y
    BY <1>1, SubnodeFacts DEF NextSubnode
  <1>3. Children(tree, Top) \in SUBSET (1 .. Len(tree)) /\ Len(tree) \in Nat
    BY <1>1, ChildrenFacts, TreeFacts
  <1>4. 1 .. Len(tree) \subseteq 1 .. Len(tree) + 1
    BY <1>3
  <1> QED
    BY <1>1, <1>2, <1>3, <1>4

\* Where the walk starts.
LEMMA StartKeeps ==
    ASSUME WalkInv, Start
    PROVE  /\ call \in ByNextNode => off' = 1 /\ depth' = 0 /\ status' = "loop"
           /\ call \in ByPath =>
                \/ Top = NoOffset /\ status' = "notfound" /\ off' = NoOffset
                \/ /\ Top \in 1 .. Len(tree) /\ status' = "loop"
                   /\ \/ off' = NoOffset /\ Children(tree, Top) = {}
                      \/ off' \in Children(tree, Top) /\ \A y \in Children(tree, Top) : off' <= y
           /\ depth' \in Int /\ n' = 0 /\ arr' = <<>> /\ call \in ByNextNode \cup ByPath
  <1>1. IsTree(tree) /\ n' = 0 /\ arr' = <<>> /\ call \in ByNextNode \cup ByPath /\ depth \in Int
    BY GivenFacts DEF WalkInv, Start
  <1>2. CASE call \in ByNextNode
    <2>1. fdt_next_node(tree, NoOffset, -1) = [off |-> 1, depth |-> 0]
      BY DEF fdt_next_node, NoOffset, IsNode
    <2>2. call \notin ByPath
      BY <1>2 DEF ByNextNode, ByPath
    <2> QED
      BY <1>1, <1>2, <2>1, <2>2 DEF Start
  <1>3. CASE call \notin ByNextNode
    <2>1. call \in ByPath
      BY <1>1, <1>3
    <2>2. Top = NoOffset \/ Top \in 1 .. Len(tree)
      BY <1>1, PathFacts DEF Top
    <2>3. /\ status' = IF Top = NoOffset THEN "notfound" ELSE "loop"
          /\ off' = IF Top = NoOffset THEN NoOffset ELSE fdt_first_subnode(tree, Top)
          /\ depth' = depth
      BY <1>3 DEF Start, Top
    <2>4. \/ fdt_first_subnode(tree, Top) = NoOffset /\ Children(tree, Top) = {}
          \/ /\ fdt_first_subnode(tree, Top) \in Children(tree, Top)
             /\ \A y \in Children(tree, Top) : fdt_first_subnode(tree, Top) <= y
      BY <1>1, SubnodeFacts
    <2> QED
      BY <1>1, <1>3, <2>1, <2>2, <2>3, <2>4
  <1> QED
    BY <1>2, <1>3

-----------------------------------------------------------------------------
(* Windows.                                                                 *)

\* One or two cells make a number below AddressSpan.
LEMMA ReadCellsSpan ==
    ASSUME NEW cells \in Seq(0 .. CellSpan - 1), NEW first \in Nat \ {0}, NEW count \in 1 .. 2,
           first + count <= Len(cells) + 1
    PROVE  read_cells_u64(cells, first, count) \in 0 .. AddressSpan - 1
  <1>1. PICK c \in Nat : c = Len(cells) /\ \A q \in 1 .. c : cells[q] \in 0 .. CellSpan - 1
    BY SeqDomain
  <1>2. PICK s \in Nat : s = CellSpan /\ s >= 2 /\ AddressSpan = s * s
    BY DtbAssumption DEF AddressSpan
  <1>3. first \in 1 .. c
    BY <1>1
  <1>4. PICK x \in Nat : x = cells[first] /\ x <= s - 1
    BY <1>1, <1>2, <1>3
  <1>5. CASE count = 1
    <2>1. read_cells_u64(cells, first, count) = x
      BY <1>4, <1>5 DEF read_cells_u64
    <2>2. x <= s * s - 1
      BY <1>2, <1>4
    <2> QED
      BY <1>2, <2>1, <2>2
  <1>6. CASE count = 2
    <2>1. first + 1 \in 1 .. c
      BY <1>1, <1>6
    <2>2. PICK y \in Nat : y = cells[first + 1] /\ y <= s - 1
      BY <1>1, <1>2, <2>1
    <2>3. read_cells_u64(cells, first, count) = x * s + y
      BY <1>2, <1>4, <1>6, <2>2 DEF read_cells_u64
    <2>4. PICK r \in Nat : s = x + 1 + r
      <3>1. s - (x + 1) \in Nat /\ s = x + 1 + (s - (x + 1))
        BY <1>4, SMTT(30)
      <3> QED
        BY <3>1
    <2>5. s * s = x * s + s + r * s
      BY <2>4
    <2>6. PICK u \in Nat : u = x * s
      OBVIOUS
    <2>7. PICK v \in Nat : v = r * s
      OBVIOUS
    <2>8. PICK w \in Nat : w = s * s
      OBVIOUS
    <2>9. w = u + s + v
      BY <2>5, <2>6, <2>7, <2>8
    <2>10. u + y \in 0 .. w - 1
      BY <2>2, <2>9
    <2> QED
      BY <1>2, <2>3, <2>6, <2>8, <2>10
  <1> QED
    BY <1>5, <1>6

\* A window is three numbers below AddressSpan.
Window == [cbase : 0 .. AddressSpan - 1, pbase : 0 .. AddressSpan - 1, size : 0 .. AddressSpan - 1]

LEMMA WindowFacts ==
    ASSUME Given, TranslateError(tree, node) = "ok"
    PROVE  Windows(tree, node) \in Seq(Window)
  <1>1. PICK ranges \in Seq(0 .. CellSpan - 1) : ranges = PropOf(tree, node, "ranges", <<>>)
    BY GivenFacts, EmptySeq DEF PropOf
  <1>2. \A x \in Range(WindowCells(tree, node)) : x \in 1 .. 2
    BY DEF TranslateError
  <1>3. /\ WindowCells(tree, node).child \in 1 .. 2
        /\ WindowCells(tree, node).parent \in 1 .. 2
        /\ WindowCells(tree, node).size \in 1 .. 2
    <2>1. DOMAIN WindowCells(tree, node) = {"child", "parent", "size"}
      BY DEF WindowCells
    <2> QED
      BY <1>2, <2>1 DEF Range
  <1>4. PICK a \in 1 .. 2 : a = WindowCells(tree, node).child
    BY <1>3
  <1>5. PICK b \in 1 .. 2 : b = WindowCells(tree, node).parent
    BY <1>3
  <1>6. PICK z \in 1 .. 2 : z = WindowCells(tree, node).size
    BY <1>3
  <1>7. PICK d \in Nat \ {0} : d = a + b + z
    OBVIOUS
  <1>8. PICK c \in Nat : c = Len(ranges)
    BY SeqDomain
  <1>9. PICK m \in Nat : m = c \div d
    BY RowsFit
  <1>10. PICK w : w = [q \in 1 .. m |->
                        [cbase |-> read_cells_u64(ranges, (q - 1) * d + 1, a),
                         pbase |-> read_cells_u64(ranges, ((q - 1) * d + 1) + a, b),
                         size |-> read_cells_u64(ranges, ((q - 1) * d + 1) + a + b, z)]]
    OBVIOUS
  <1>11. Windows(tree, node) = w
    BY <1>1, <1>4, <1>5, <1>6, <1>7, <1>8, <1>9, <1>10 DEF Windows
  <1>12. ASSUME NEW q \in 1 .. m PROVE w[q] \in Window
    <2>1. q - 1 \in Nat /\ q - 1 < m
      OBVIOUS
    <2>2. (q - 1) * d \in Nat /\ (q - 1) * d + d <= c
      BY <1>9, <2>1, RowsFit
    <2>3. PICK f \in Nat \ {0} : f = (q - 1) * d + 1 /\ f + a + b + z <= c + 1
      BY <1>7, <2>2
    <2>4. /\ f + a <= Len(ranges) + 1
          /\ f + a \in Nat \ {0} /\ (f + a) + b <= Len(ranges) + 1
          /\ f + a + b \in Nat \ {0} /\ (f + a + b) + z <= Len(ranges) + 1
      BY <1>8, <2>3
    <2>5. /\ read_cells_u64(ranges, f, a) \in 0 .. AddressSpan - 1
          /\ read_cells_u64(ranges, f + a, b) \in 0 .. AddressSpan - 1
          /\ read_cells_u64(ranges, f + a + b, z) \in 0 .. AddressSpan - 1
      BY <2>4, ReadCellsSpan
    <2>6. w[q] = [cbase |-> read_cells_u64(ranges, f, a),
                  pbase |-> read_cells_u64(ranges, f + a, b),
                  size |-> read_cells_u64(ranges, f + a + b, z)]
      BY <1>10, <2>3
    <2> QED
      BY <2>5, <2>6 DEF Window
  <1> QED
    BY <1>10, <1>11, <1>12, FunctionIsSeq, ZenonT(30)

\* The loop of dtb_translate_ranges has passed windows that do not hold the address,
\* and has stopped at the first that does.
Plain(t, k) == PropOf(t, k, "ranges", <<>>) = <<>>

Hit(w, a) == w.cbase <= a /\ a < (w.cbase + w.size) % AddressSpan

Missed(ws, m, a) == \A q \in 1 .. m : ~Hit(ws[q], a)

Translated(w, a) == (w.pbase + (a - w.cbase)) % AddressSpan

\* The call may try the windows.
Tries(t, k) == TranslateError(t, k) = "ok" /\ ~Plain(t, k)

TranslateInv ==
    call = "translate" =>
        /\ status \in {"start", "loop", "notfound"} => arr = <<>>
        /\ status = "start" => n = 0
        /\ status = "loop" =>
             Tries(tree, node) /\ n <= Len(Windows(tree, node)) /\ Missed(Windows(tree, node), n, addr)
        /\ status = "ok" =>
             \/ TranslateError(tree, node) = "ok" /\ Plain(tree, node) /\ arr = <<addr>>
             \/ /\ Tries(tree, node)
                /\ n < Len(Windows(tree, node)) /\ Missed(Windows(tree, node), n, addr)
                /\ Hit(Windows(tree, node)[n + 1], addr)
                /\ arr = <<Translated(Windows(tree, node)[n + 1], addr)>>
        /\ status = "notfound" =>
             \/ TranslateError(tree, node) = "notfound"
             \/ Tries(tree, node) /\ Missed(Windows(tree, node), Len(Windows(tree, node)), addr)

\* A translation takes no other steps than its own.
LEMMA TranslateSteps ==
    ASSUME Given, call = "translate", [ScanNext]_scanVars
    PROVE  StartTranslate \/ WindowTried \/ NoWindow \/ UNCHANGED scanVars
  BY DEF ScanNext, Start, MemoryNode, ReservedNode, ControllerNode, CpuCounted, CpuListed,
         CpuTried, DeviceTried, DeviceNext, BusChild, CompatibleTried, Return, StartInterrupts,
         AskAbove, InterruptsRead, Finished, ByNextNode, ByPath

LEMMA InputsStay ==
    ASSUME [ScanNext]_scanVars
    PROVE  UNCHANGED inputVars
  BY DEF ScanNext, Start, MemoryNode, ReservedNode, ControllerNode, CpuCounted, CpuListed,
         CpuTried, DeviceTried, DeviceNext, BusChild, CompatibleTried, Return, StartInterrupts,
         AskAbove, InterruptsRead, Finished, StartTranslate, WindowTried, NoWindow, scanVars, inputVars

\* Every step of a translation keeps TranslateInv.
LEMMA NextTranslate ==
    ASSUME WalkInv, TranslateInv, [ScanNext]_scanVars
    PROVE  TranslateInv'
  <1> SUFFICES ASSUME call = "translate" PROVE TranslateInv'
    BY InputsStay DEF TranslateInv, inputVars
  <1>1. Given /\ n \in Nat
    BY DEF WalkInv
  <1>2. UNCHANGED <<tree, call, cap, node, addr>>
    BY InputsStay DEF inputVars
  <1>3. PICK w : w = Windows(tree, node)
    OBVIOUS
  <1>4. PICK err : err = TranslateError(tree, node) /\ err \in {"ok", "notfound", "badncells"}
    BY DEF TranslateError
  <1>5. PICK a : a = addr
    OBVIOUS
  <1>6. Tries(tree, node) => w \in Seq(Window) /\ Len(w) \in Nat
    <2>1. Tries(tree, node) => w \in Seq(Window)
      BY <1>1, <1>3, WindowFacts DEF Tries
    <2>2. w \in Seq(Window) => Len(w) \in Nat
      OBVIOUS
    <2> QED
      BY <2>1, <2>2
  <1>7. CASE StartTranslate
    <2>1. arr = <<>> /\ n = 0 /\ n' = n /\ status = "start"
      BY <1>7 DEF StartTranslate, TranslateInv
    <2>2. /\ status' = IF err # "ok" \/ Plain(tree, node) THEN err ELSE "loop"
          /\ arr' = IF err = "ok" /\ Plain(tree, node) THEN <<addr>> ELSE arr
      BY <1>4, <1>7 DEF StartTranslate, Plain
    <2>3. CASE err # "ok"
      BY <1>2, <1>4, <2>1, <2>2, <2>3 DEF TranslateInv
    <2>4. CASE err = "ok" /\ Plain(tree, node)
      BY <1>2, <1>4, <2>1, <2>2, <2>4 DEF TranslateInv
    <2>5. CASE err = "ok" /\ ~Plain(tree, node)
      <3>1. Tries(tree, node) /\ Missed(w, 0, a)
        BY <1>4, <2>5 DEF Tries, Missed
      <3>2. 0 <= Len(w)
        BY <1>6, <3>1
      <3>3. status' = "loop" /\ arr' = <<>> /\ n' = 0
        BY <2>1, <2>2, <2>5
      <3> QED
        BY <1>2, <1>3, <1>5, <3>1, <3>2, <3>3 DEF TranslateInv
    <2> QED
      BY <2>3, <2>4, <2>5
  <1>8. CASE WindowTried
    <2>1. status = "loop" /\ Tries(tree, node) /\ n < Len(w) /\ Missed(w, n, a) /\ arr = <<>>
      BY <1>3, <1>5, <1>8 DEF WindowTried, TranslateInv
    <2>2. Len(w) \in Nat
      BY <1>6, <2>1
    <2>3. IF Hit(w[n + 1], a)
          THEN arr' = <<Translated(w[n + 1], a)>> /\ status' = "ok" /\ n' = n
          ELSE n' = n + 1 /\ arr' = arr /\ status' = status
      BY <1>3, <1>5, <1>8 DEF WindowTried, Translated, InWindow, Hit
    <2>4. CASE Hit(w[n + 1], a)
      BY <1>2, <1>3, <1>5, <2>1, <2>3, <2>4 DEF TranslateInv
    <2>5. CASE ~Hit(w[n + 1], a)
      <3>1. Missed(w, n + 1, a)
        <4>1. \A q \in 1 .. n + 1 : q \in 1 .. n \/ q = n + 1
          BY <1>1
        <4> QED
          BY <2>1, <2>5, <4>1 DEF Missed
      <3>2. n + 1 <= Len(w)
        BY <1>1, <2>1, <2>2
      <3>3. n' = n + 1 /\ arr' = <<>> /\ status' = "loop"
        BY <2>1, <2>3, <2>5
      <3> QED
        BY <1>2, <1>3, <1>5, <2>1, <3>1, <3>2, <3>3 DEF TranslateInv
    <2> QED
      BY <2>4, <2>5
  <1>9. CASE NoWindow
    <2>1. status = "loop" /\ Tries(tree, node) /\ n = Len(w) /\ Missed(w, n, a) /\ arr = <<>>
      BY <1>3, <1>5, <1>9 DEF NoWindow, TranslateInv
    <2>2. status' = "notfound" /\ arr' = <<>> /\ Missed(w, Len(w), a)
      BY <1>9, <2>1 DEF NoWindow
    <2> QED
      BY <1>2, <1>3, <1>5, <2>1, <2>2 DEF TranslateInv
  <1>10. CASE UNCHANGED scanVars
    BY <1>10 DEF TranslateInv, scanVars
  <1> QED
    BY <1>1, <1>7, <1>8, <1>9, <1>10, TranslateSteps

\* The end of a window wraps exactly when the window reaches the top.
LEMMA HitIs ==
    ASSUME NEW w \in Window, addr \in 0 .. AddressSpan - 1
    PROVE  Hit(w, addr) <=> Holds(w, addr) /\ ~ReachesTop(w)
  <1>1. PICK s \in Nat \ {0} : s = AddressSpan
    BY DtbAssumption DEF AddressSpan
  <1>2. PICK b \in 0 .. s - 1 : b = w.cbase
    BY <1>1 DEF Window
  <1>3. PICK z \in 0 .. s - 1 : z = w.size
    BY <1>1 DEF Window
  <1>4. PICK a \in 0 .. s - 1 : a = addr
    BY <1>1
  <1>5. (b + z) % s = IF b + z < s THEN b + z ELSE b + z - s
    OBVIOUS
  <1>6. (b <= a /\ a < (b + z) % s) <=> (b <= a /\ a < b + z /\ b + z < s)
    BY <1>5
  <1> QED
    BY <1>1, <1>2, <1>3, <1>4, <1>6 DEF Hit, Holds, ReachesTop

-----------------------------------------------------------------------------
(* Types.                                                                   *)

\* The entries stored are of the kind the call hands out, and fit into the buffer.
TypeInv == arr \in Seq(Stored) /\ Len(arr) <= IF call = "translate" THEN 1 ELSE min_int(n, cap)

\* The cells of the properties that are read as such.
LEMMA U32Type ==
    ASSUME Given, NEW k, NEW name \in {"interrupts", "interrupt-parent", "#interrupt-cells"}
    PROVE  get_u32_prop(tree, k, name).val \in Nat
  <1>1. CASE ~HasProp(tree, k, name) \/ PropOf(tree, k, name, <<>>) = <<>>
    BY <1>1 DEF get_u32_prop
  <1>2. CASE HasProp(tree, k, name) /\ PropOf(tree, k, name, <<>>) # <<>>
    <2>1. PICK cells : cells = PropOf(tree, k, name, <<>>)
      OBVIOUS
    <2>2. k \in DOMAIN tree
      BY <1>2 DEF HasProp, IsNode
    <2>3. cells \in Seq(0 .. CellSpan - 1) /\ cells # <<>>
      BY <1>2, <2>1, <2>2, GivenFacts DEF PropOf
    <2>4. PICK c \in Nat : c = Len(cells) /\ \A q \in 1 .. c : cells[q] \in 0 .. CellSpan - 1
      BY <2>3, SeqDomain
    <2>5. c # 0
      BY <2>3, <2>4
    <2>6. cells[1] \in 0 .. CellSpan - 1 /\ CellSpan \in Nat
      BY <2>4, <2>5, DtbAssumption
    <2>7. get_u32_prop(tree, k, name) = [err |-> "ok", val |-> cells[1]]
      BY <1>2, <2>1, <2>3 DEF get_u32_prop
    <2> QED
      BY <2>6, <2>7
  <1> QED
    BY <1>1, <1>2

\* The interrupts of a device, with any size of a group.
Interrupt == [irq : Nat, parent_phandle : Nat, cells : Nat \ {0}]

LEMMA IrqsType ==
    ASSUME Given, NEW parent \in Nat, NEW cells \in Int
    PROVE  DeviceIrqs(tree, node, parent, cells) \in Seq(Interrupt)
  <1>1. PICK ints : ints = PropOf(tree, node, "interrupts", <<>>)
    OBVIOUS
  <1>2. ints \in Seq(0 .. CellSpan - 1)
    BY <1>1, GivenFacts, EmptySeq DEF PropOf
  <1>3. PICK c \in Nat : c = Len(ints) /\ \A q \in 1 .. c : ints[q] \in 0 .. CellSpan - 1
    BY <1>2, SeqDomain
  <1>4. CellSpan \in Nat /\ DTB_MAX_IRQS \in Nat
    BY DtbAssumption, DeviceAssumption
  <1>5. PICK groups \in Nat : groups = IF cells > 0 THEN c \div cells ELSE 0
    <2>1. cells > 0 => c \div cells \in Nat
      BY RowsFit
    <2> QED
      BY <2>1
  <1>6. PICK m \in Nat : m = min_int(groups, DTB_MAX_IRQS) /\ m <= groups
    BY <1>4 DEF min_int
  <1>7. PICK irqs : irqs = [q \in 1 .. m |-> [irq |-> ints[(q - 1) * cells + 1],
                                            parent_phandle |-> parent, cells |-> cells]]
    OBVIOUS
  <1>8. DeviceIrqs(tree, node, parent, cells) = irqs
    BY <1>1, <1>3, <1>5, <1>6, <1>7 DEF DeviceIrqs
  <1>9. ASSUME NEW q \in 1 .. m PROVE irqs[q] \in Interrupt
    <2>1. groups > 0 /\ q - 1 \in Nat /\ q - 1 < groups
      BY <1>6
    <2>2. cells \in Nat \ {0} /\ q - 1 < c \div cells
      BY <1>5, <2>1
    <2>3. (q - 1) * cells \in Nat /\ (q - 1) * cells + cells <= c
      BY <2>1, <2>2, RowsFit
    <2>4. PICK i \in 1 .. c : i = (q - 1) * cells + 1
      BY <2>2, <2>3
    <2>5. ints[i] \in Nat
      BY <1>3, <1>4
    <2>6. irqs[q] = [irq |-> ints[i], parent_phandle |-> parent, cells |-> cells]
      BY <1>7, <2>4
    <2> QED
      BY <2>2, <2>5, <2>6 DEF Interrupt
  <1> QED
    BY <1>7, <1>8, <1>9, FunctionIsSeq

\* What dtb_interrupt_map_device stores.
LEMMA MapType ==
    ASSUME Given, call = "interrupts", InterruptsRead
    PROVE  \E e \in Seq(Stored) : Store(e) /\ status' \in {"ok", "nospace"}
  <1>1. PICK parent : parent = get_u32_prop(tree, off, "interrupt-parent")
    OBVIOUS
  <1>2. parent.val \in Nat
    BY <1>1, U32Type
  <1>3. PICK cells : cells = IF parent.err = "ok" THEN InterruptCells(tree, parent.val) ELSE 1
    OBVIOUS
  <1>4. cells \in Int
    <2>1. PICK v \in Nat : v = get_u32_prop(tree,
              fdt_node_offset_by_phandle(tree, parent.val, CellSpan - 1), "#interrupt-cells").val
      BY U32Type
    <2>2. ToInt(v) \in Int
      BY DtbAssumption DEF ToInt
    <2> QED
      BY <1>3, <2>1, <2>2 DEF InterruptCells
  <1>5. PICK irqs : irqs = DeviceIrqs(tree, node, parent.val, cells)
    OBVIOUS
  <1>6. irqs \in Seq(Stored)
    BY <1>2, <1>4, <1>5, IrqsType DEF Stored, Interrupt
  <1>7. DeviceRead(tree, node, parent.val, cells).irqs = irqs
    BY <1>5 DEF DeviceRead
  <1>8. Store(irqs) /\ status' = IF Len(irqs) > cap THEN "nospace" ELSE "ok"
    BY <1>1, <1>3, <1>7 DEF InterruptsRead, MapInterrupts
  <1> QED
    BY <1>6, <1>8

\* Storing entries of the right kind keeps the buffer well formed.
LEMMA StoreType ==
    ASSUME WalkInv, TypeInv, call # "translate", UNCHANGED inputVars, NEW e \in Seq(Stored), Store(e)
    PROVE  TypeInv' /\ n' \in Nat
  <1>1. PICK T : T = Stored
    OBVIOUS
  <1>2. T' = T /\ Stored' = Stored /\ cap' = cap /\ call' = call
    BY DEF Stored, inputVars
  <1>3. PICK a \in Nat : a = Len(arr) /\ arr \in Seq(T) /\ a <= min_int(n, cap)
    BY <1>1, SeqDomain DEF TypeInv
  <1>4. PICK d \in Nat : d = Len(e) /\ e \in Seq(T)
    BY <1>1, SeqDomain
  <1>5. cap \in Nat /\ n \in Nat
    BY GivenFacts DEF WalkInv
  <1>6. PICK u \in Seq(T) : u = arr \o e /\ Len(u) = a + d
    BY <1>3, <1>4, ConcatFacts
  <1>7. arr' = Cut(u) /\ n' = n + d
    BY <1>3, <1>4, <1>6 DEF Store, Cut
  <1>8. arr' \in Seq(T) /\ Len(arr') = min_int(a + d, cap)
    BY <1>5, <1>6, <1>7, CutFacts
  <1>9. min_int(a + d, cap) <= min_int(n + d, cap)
    BY <1>3, <1>5 DEF min_int
  <1>10. n' \in Nat /\ Len(arr') <= min_int(n', cap)
    BY <1>5, <1>7, <1>8, <1>9
  <1>11. Len(arr') <= min_int(n', cap')
    BY <1>2, <1>10
  <1>12. TypeInv' = (arr' \in Seq(Stored') /\ Len(arr') <= IF call' = "translate" THEN 1 ELSE min_int(n', cap'))
    BY DEF TypeInv, min_int
  <1> QED
    BY <1>1, <1>2, <1>8, <1>10, <1>11, <1>12

LEMMA NothingType ==
    ASSUME WalkInv, TypeInv, UNCHANGED inputVars, Nothing
    PROVE  TypeInv' /\ n' \in Nat
  BY DEF WalkInv, TypeInv, Nothing, inputVars, Stored, min_int

\* What a loop stores at a node is of the right kind.
LEMMA TakenType ==
    ASSUME Given, NEW k \in DOMAIN tree
    PROVE  /\ call \in {"memory", "reserved"} =>
                decode_reg_list(tree, k, DTB_MAX_REGS).list \in Seq(Stored)
           /\ call = "controllers" => <<dtb_interrupt_controller_read(tree, k)>> \in Seq(Stored)
           /\ call = "cpu_list" => <<dtb_cpu_read(tree, k)>> \in Seq(Stored)
           /\ call \in {"devices", "bus", "find_hart", "compatible"} => <<k>> \in Seq(Stored)
  <1>1. IsTree(tree) /\ DTB_MAX_REGS \in Nat /\ k \in Nat
    BY GivenFacts, TreeFacts, DtbAssumption
  <1>2. ASSUME call \in {"memory", "reserved"}
        PROVE  decode_reg_list(tree, k, DTB_MAX_REGS).list \in Seq(Stored)
    <2>1. Stored = Extents
      BY <1>2 DEF Stored, Extents
    <2> QED
      BY <1>1, <2>1, RegListType
  <1>3. ASSUME call = "controllers" PROVE <<dtb_interrupt_controller_read(tree, k)>> \in Seq(Stored)
    <2>1. dtb_interrupt_controller_read(tree, k) \in Stored
      BY <1>3 DEF Stored
    <2> QED
      BY <2>1
  <1>4. ASSUME call = "cpu_list" PROVE <<dtb_cpu_read(tree, k)>> \in Seq(Stored)
    <2>1. dtb_cpu_read(tree, k) \in Stored
      BY <1>4 DEF Stored
    <2> QED
      BY <2>1
  <1>5. ASSUME call \in {"devices", "bus", "find_hart", "compatible"} PROVE <<k>> \in Seq(Stored)
    <2>1. Stored = Nat
      BY <1>5 DEF Stored
    <2> QED
      BY <1>1, <2>1
  <1> QED
    BY <1>2, <1>3, <1>4, <1>5

\* The loop over all nodes and the loop over subnodes are at a node when they take something.
LEMMA AtNode ==
    ASSUME WalkInv
    PROVE  /\ Go /\ call \in ByPath => off \in DOMAIN tree
           /\ \A name : HasProp(tree, off, name) => off \in DOMAIN tree
           /\ node_is_memory(tree, off) => off \in DOMAIN tree
           /\ node_is_cpu(tree, off) => off \in DOMAIN tree
           /\ node_is_device(tree, off) => off \in DOMAIN tree
  <1>1. Go /\ call \in ByPath => off \in Children(tree, Top)
    BY DEF WalkInv, Go
  <1>2. \A name : HasProp(tree, off, name) => off \in DOMAIN tree
    BY DEF HasProp, IsNode
  <1> QED
    BY <1>1, <1>2 DEF Children, node_is_memory, node_is_cpu, node_is_device, CompatOf, PropOf

LEMMA CompatibleNext ==
    ASSUME Given, CompatibleTried
    PROVE  LET S == {k \in DOMAIN tree : k > off /\ compat_has(tree, k, Needle)}
           IN  \/ S = {} /\ status' = "ok" /\ off' = off /\ Nothing
               \/ /\ off' \in S /\ off' \in DOMAIN tree /\ \A k \in S : off' <= k
                  /\ status' = "found" /\ Store(<<off'>>)
  <1>1. PICK S : S = {k \in DOMAIN tree : k > off /\ compat_has(tree, k, Needle)}
    OBVIOUS
  <1>2. S \in SUBSET Nat
    BY <1>1, GivenFacts, TreeFacts
  <1>3. PICK next : next = FirstOf(S)
    OBVIOUS
  <1>4. next = fdt_node_offset_by_compatible(tree, off, Needle)
    BY <1>1, <1>3 DEF fdt_node_offset_by_compatible, compat_has
  <1>5. \/ next = NoOffset /\ status' = "ok" /\ off' = off /\ Nothing
        \/ next # NoOffset /\ status' = "found" /\ off' = next /\ Store(<<next>>)
    BY <1>4 DEF CompatibleTried
  <1>6. /\ next = NoOffset => S = {}
        /\ next # NoOffset => next \in S /\ \A k \in S : next <= k
    BY <1>2, <1>3, FirstFacts
  <1> QED
    BY <1>1, <1>5, <1>6

LEMMA TranslatedType ==
    ASSUME Given, NEW w \in Window
    PROVE  Translated(w, addr) \in Nat
  <1>1. PICK s \in Nat \ {0} : s = AddressSpan
    BY DtbAssumption DEF AddressSpan
  <1>2. w.pbase \in Int /\ w.cbase \in Int /\ addr \in Int
    BY <1>1, GivenFacts, DtbAssumption DEF Window
  <1>3. PICK x \in Int : x = w.pbase + (addr - w.cbase)
    BY <1>2
  <1>4. x % s \in Nat
    BY <1>1, <1>3
  <1> QED
    BY <1>1, <1>3, <1>4 DEF Translated

LEMMA NextType ==
    ASSUME WalkInv, TypeInv, TranslateInv, [ScanNext]_scanVars
    PROVE  TypeInv' /\ n' \in Nat
  <1>1. Given /\ IsTree(tree) /\ n \in Nat /\ cap \in Nat
    BY GivenFacts DEF WalkInv
  <1>2. UNCHANGED inputVars
    BY InputsStay
  <1>3. ASSUME Nothing PROVE TypeInv' /\ n' \in Nat
    BY <1>2, <1>3, NothingType
  <1>4. ASSUME call # "translate", NEW e \in Seq(Stored), Store(e) PROVE TypeInv' /\ n' \in Nat
    BY <1>2, <1>4, StoreType
  <1>5. CASE Start \/ DeviceNext \/ Return \/ StartInterrupts \/ AskAbove \/ NoWindow \/ Finished
             \/ UNCHANGED scanVars
    BY <1>3, <1>5 DEF Start, DeviceNext, Return, StartInterrupts, AskAbove, NoWindow, Finished,
         scanVars, Nothing
  <1>6. CASE MemoryNode \/ ReservedNode
    <2>1. Nothing \/ (off \in DOMAIN tree /\ Store(decode_reg_list(tree, off, DTB_MAX_REGS).list))
      BY <1>6, AtNode DEF MemoryNode, ReservedNode, StoreRegs, ByPath
    <2>2. call \in {"memory", "reserved"}
      BY <1>6 DEF MemoryNode, ReservedNode
    <2>3. CASE off \in DOMAIN tree /\ Store(decode_reg_list(tree, off, DTB_MAX_REGS).list)
      <3>1. decode_reg_list(tree, off, DTB_MAX_REGS).list \in Seq(Stored)
        BY <1>1, <2>2, <2>3, TakenType
      <3> QED
        BY <1>4, <2>2, <2>3, <3>1
    <2> QED
      BY <1>3, <2>1, <2>3
  <1>7. CASE ControllerNode
    <2>1. call = "controllers"
      BY <1>7 DEF ControllerNode
    <2>2. Nothing \/ (off \in DOMAIN tree /\ Store(<<dtb_interrupt_controller_read(tree, off)>>))
      BY <1>7, AtNode DEF ControllerNode
    <2>3. CASE off \in DOMAIN tree /\ Store(<<dtb_interrupt_controller_read(tree, off)>>)
      <3>1. <<dtb_interrupt_controller_read(tree, off)>> \in Seq(Stored)
        BY <1>1, <2>1, <2>3, TakenType
      <3> QED
        BY <1>4, <2>1, <2>3, <3>1
    <2> QED
      BY <1>3, <2>2, <2>3
  <1>8. CASE CpuListed
    <2>1. call = "cpu_list"
      BY <1>8 DEF CpuListed
    <2>2. Nothing \/ (off \in DOMAIN tree /\ Store(<<dtb_cpu_read(tree, off)>>))
      BY <1>8, AtNode DEF CpuListed
    <2>3. CASE off \in DOMAIN tree /\ Store(<<dtb_cpu_read(tree, off)>>)
      <3>1. <<dtb_cpu_read(tree, off)>> \in Seq(Stored)
        BY <1>1, <2>1, <2>3, TakenType
      <3> QED
        BY <1>4, <2>1, <2>3, <3>1
    <2> QED
      BY <1>3, <2>2, <2>3
  <1>9. CASE CpuTried \/ DeviceTried \/ BusChild
    <2>1. call \in {"devices", "bus", "find_hart", "compatible"}
      BY <1>9 DEF CpuTried, DeviceTried, BusChild
    <2>2. Nothing \/ (off \in DOMAIN tree /\ Store(<<off>>))
      BY <1>9, AtNode DEF CpuTried, DeviceTried, BusChild, IsHart, ByPath
    <2>3. CASE off \in DOMAIN tree /\ Store(<<off>>)
      <3>1. <<off>> \in Seq(Stored)
        BY <1>1, <2>1, <2>3, TakenType
      <3> QED
        BY <1>4, <2>1, <2>3, <3>1
    <2> QED
      BY <1>3, <2>2, <2>3
  <1>10. CASE CompatibleTried
    <2>1. call = "compatible"
      BY <1>10 DEF CompatibleTried
    <2>2. Nothing \/ (off' \in DOMAIN tree /\ Store(<<off'>>))
      BY <1>1, <1>10, CompatibleNext
    <2>3. CASE off' \in DOMAIN tree /\ Store(<<off'>>)
      <3>1. <<off'>> \in Seq(Stored)
        BY <1>1, <2>1, <2>3, TakenType
      <3> QED
        BY <1>4, <2>1, <2>3, <3>1
    <2> QED
      BY <1>3, <2>2, <2>3
  <1>11. CASE CpuCounted
    <2>1. call = "cpu_count" /\ arr' = arr /\ n' \in Nat /\ n <= n'
      BY <1>1, <1>11 DEF CpuCounted
    <2>2. min_int(n, cap) <= min_int(n', cap)
      BY <1>1, <2>1 DEF min_int
    <2>3. PICK a \in Nat : a = Len(arr) /\ a <= min_int(n, cap) /\ arr \in Seq(Stored)
      BY <2>1, SeqDomain DEF TypeInv
    <2>4. min_int(n, cap) \in Nat /\ min_int(n', cap) \in Nat
      BY <1>1, <2>1 DEF min_int
    <2>5. cap' = cap /\ call' = call /\ Stored' = Stored
      BY <1>2 DEF inputVars, Stored
    <2>6. Len(arr') <= min_int(n', cap')
      BY <2>1, <2>2, <2>3, <2>4, <2>5
    <2>7. TypeInv' = (arr' \in Seq(Stored') /\ Len(arr') <= IF call' = "translate" THEN 1 ELSE min_int(n', cap'))
      BY DEF TypeInv, min_int
    <2> QED
      BY <2>1, <2>3, <2>5, <2>6, <2>7
  <1>12. CASE InterruptsRead
    BY <1>1, <1>4, <1>12, MapType DEF InterruptsRead
  <1>13. CASE StartTranslate \/ WindowTried
    <2>1. call = "translate" /\ n' \in Nat
      BY <1>1, <1>13 DEF StartTranslate, WindowTried
    <2>2. call' = call /\ Stored' = Nat /\ Stored = Nat
      BY <1>2, <2>1 DEF inputVars, Stored
    <2>3. TypeInv' = (arr' \in Seq(Stored') /\ Len(arr') <= IF call' = "translate" THEN 1 ELSE min_int(n', cap'))
      BY DEF TypeInv, min_int
    <2>4. ASSUME NEW x \in Nat, arr' = <<x>> PROVE TypeInv'
      <3>1. <<x>> \in Seq(Nat) /\ Len(<<x>>) <= 1
        OBVIOUS
      <3>2. arr' \in Seq(Stored')
        BY <2>2, <2>4, <3>1
      <3>3. Len(arr') <= 1
        BY <2>4, <3>1
      <3> QED
        BY <2>1, <2>2, <2>3, <3>2, <3>3, Zenon
    <2>5. arr' = arr => TypeInv'
      BY <2>1, <2>2, <2>3 DEF TypeInv
    <2>6. CASE StartTranslate
      <3>1. arr' = <<addr>> \/ arr' = arr
        BY <2>6 DEF StartTranslate
      <3>2. addr \in Nat
        BY <1>1, GivenFacts, DtbAssumption
      <3> QED
        BY <2>1, <2>4, <2>5, <3>1, <3>2
    <2>7. CASE WindowTried
      <3>1. PICK w : w = Windows(tree, node)
        OBVIOUS
      <3>2. arr' = arr \/ arr' = <<Translated(w[n + 1], addr)>>
        BY <2>7, <3>1 DEF WindowTried, Translated
      <3>3. Tries(tree, node) /\ n < Len(w)
        BY <2>7, <3>1 DEF WindowTried, TranslateInv
      <3>4. w \in Seq(Window)
        BY <1>1, <3>1, <3>3, WindowFacts DEF Tries
      <3>5. n + 1 \in 1 .. Len(w)
        <4>1. PICK m \in Nat : m = Len(w)
          BY <3>4, SeqDomain
        <4> QED
          BY <1>1, <3>3, <4>1
      <3>6. w[n + 1] \in Window
        BY <3>4, <3>5, SeqDomain
      <3>7. Translated(w[n + 1], addr) \in Nat
        BY <1>1, <3>6, TranslatedType
      <3> QED
        BY <2>1, <2>4, <2>5, <3>2, <3>7
    <2> QED
      BY <1>13, <2>1, <2>6, <2>7
  <1> QED
    BY <1>5, <1>6, <1>7, <1>8, <1>9, <1>10, <1>11, <1>12, <1>13 DEF ScanNext

\* The errors of decode_reg_list.
LEMMA RegListErrors ==
    ASSUME NEW t, NEW k, NEW c
    PROVE  decode_reg_list(t, k, c).err \in Results
  BY DEF decode_reg_list, RegError, Results

\* What makes up WalkInv after a step that is not the first.
LEMMA WalkHolds ==
    ASSUME Given', UNCHANGED inputVars, Top' = Top, n' \in Nat,
           off' \in {NoOffset} \cup 1 .. Len(tree) + 1, depth' \in Int,
           status' \in Results \cup {"loop", "found"},
           status' = "loop" => call # "compatible",
           status' = "found" => call \in {"devices", "compatible"} /\ off' \in 1 .. Len(tree),
           call \in {"memory", "controllers"} /\ off' \in 1 .. Len(tree) => depth' = tree[off'].depth,
           call \in ByPath =>
             \/ Top = NoOffset /\ status' = "notfound" /\ n' = 0 /\ arr' = <<>> /\ off' = NoOffset
             \/ Top # NoOffset /\ (off' = NoOffset \/ off' \in Children(tree, Top)),
           call = "interrupts" => off' \in {NoOffset} \cup 1 .. Len(tree)
    PROVE  WalkInv'
  <1>1. UNCHANGED <<tree, call>> /\ status' # "start"
    BY DEF inputVars, Results
  <1> QED
    BY <1>1 DEF WalkInv

\* Every step keeps the walk where it may be.
LEMMA NextWalk ==
    ASSUME WalkInv, n' \in Nat, [ScanNext]_scanVars
    PROVE  WalkInv'
  <1>1. /\ Given /\ IsTree(tree) /\ n \in Nat /\ depth \in Int /\ Len(tree) \in Nat \ {0}
        /\ DOMAIN tree = 1 .. Len(tree) /\ off \in {NoOffset} \cup 1 .. Len(tree) + 1
        /\ status \in Results \cup {"start", "loop", "found"}
    BY GivenFacts, TreeFacts DEF WalkInv
  <1>2. Given' /\ Top' = Top /\ UNCHANGED inputVars /\ UNCHANGED <<tree, call, cap, node, addr>>
    BY <1>1, InputsStay, GivenStays DEF inputVars
  <1>3. 1 .. Len(tree) \subseteq 1 .. Len(tree) + 1
    BY <1>1
  <1>4. CASE Start
    <2>1. Children(tree, Top) \subseteq 1 .. Len(tree)
      BY <1>1, ChildrenFacts
    <2>2. CASE call \in ByNextNode
      <3>1. off' = 1 /\ depth' = 0 /\ status' = "loop" /\ tree[1].depth = 0 /\ off' \in 1 .. Len(tree) + 1
        BY <1>1, <1>4, <2>2, StartKeeps, TreeFacts
      <3>2. call \notin ByPath /\ call \notin {"interrupts", "compatible"}
        BY <2>2 DEF ByNextNode, ByPath
      <3> QED
        BY <1>2, <3>1, <3>2, WalkHolds
    <2>3. CASE call \in ByPath
      <3>1. /\ \/ Top = NoOffset /\ status' = "notfound" /\ off' = NoOffset
               \/ Top \in 1 .. Len(tree) /\ status' = "loop" /\ (off' = NoOffset \/ off' \in Children(tree, Top))
            /\ depth' \in Int /\ n' = 0 /\ arr' = <<>>
        BY <1>4, <2>3, StartKeeps
      <3>2. call \notin {"memory", "controllers", "interrupts", "compatible"}
        BY <2>3 DEF ByPath
      <3>3. off' \in {NoOffset} \cup 1 .. Len(tree) + 1 /\ status' \in Results \cup {"loop"}
        BY <1>3, <2>1, <3>1 DEF Results
      <3>4. Top \in 1 .. Len(tree) => Top # NoOffset
        BY <1>1 DEF NoOffset
      <3> QED
        BY <1>2, <3>1, <3>2, <3>3, <3>4, WalkHolds
    <2> QED
      BY <1>4, <2>2, <2>3, StartKeeps
  <1>5. ASSUME Go, NextNode, status' \in Results \cup {"loop"}, call \in ByNextNode PROVE WalkInv'
    <2>1. /\ off' \in {NoOffset} \cup 1 .. Len(tree) + 1 /\ depth' \in Int
          /\ call \in {"memory", "controllers"} => (off' \in 1 .. Len(tree) => depth' = tree[off'].depth)
      BY <1>5, NextNodeKeeps DEF Go
    <2>2. call \notin ByPath /\ call \notin {"interrupts", "compatible"}
      BY <1>5 DEF ByNextNode, ByPath
    <2>3. status' # "found"
      BY <1>5 DEF Results
    <2> QED
      BY <1>2, <1>5, <2>1, <2>2, <2>3, WalkHolds
  <1>6. ASSUME Go, NextSubnode, status' \in Results \cup {"loop"}, call \in ByPath PROVE WalkInv'
    <2>1. /\ Top # NoOffset /\ (off' = NoOffset \/ off' \in Children(tree, Top))
          /\ off' \in {NoOffset} \cup 1 .. Len(tree) + 1 /\ depth' \in Int
      BY <1>6, NextSubnodeKeeps DEF Go
    <2>2. call \notin {"memory", "controllers", "interrupts", "compatible"}
      BY <1>6 DEF ByPath
    <2>3. status' # "found"
      BY <1>6 DEF Results
    <2> QED
      BY <1>2, <1>6, <2>1, <2>2, <2>3, WalkHolds
  <1>7. CASE MemoryNode \/ ControllerNode
    <2>1. Go /\ NextNode /\ call \in ByNextNode /\ status = "loop"
      BY <1>7 DEF MemoryNode, ControllerNode, ByNextNode, Go
    <2>2. status' = status \/ status' = decode_reg_list(tree, off, DTB_MAX_REGS).err
      BY <1>7 DEF MemoryNode, ControllerNode, StoreRegs
    <2>3. status' \in Results \cup {"loop"}
      BY <2>1, <2>2, RegListErrors
    <2> QED
      BY <1>5, <2>1, <2>3
  <1>8. CASE ReservedNode \/ CpuCounted \/ CpuListed \/ BusChild
    <2>1. Go /\ NextSubnode /\ call \in ByPath /\ status = "loop"
      BY <1>8 DEF ReservedNode, CpuCounted, CpuListed, BusChild, ByPath, Go
    <2>2. status' = status \/ status' = decode_reg_list(tree, off, DTB_MAX_REGS).err
      BY <1>8 DEF ReservedNode, CpuCounted, CpuListed, BusChild, StoreRegs
    <2>3. status' \in Results \cup {"loop"}
      BY <2>1, <2>2, RegListErrors
    <2> QED
      BY <1>6, <2>1, <2>3
  <1>9. CASE CpuTried
    <2>1. Go /\ call \in ByPath /\ call = "find_hart" /\ status = "loop"
      BY <1>9 DEF CpuTried, ByPath, Go
    <2>2. CASE NextSubnode /\ status' = status
      BY <1>6, <2>1, <2>2
    <2>3. CASE status' = "ok" /\ UNCHANGED <<off, depth>>
      <3>1. Top # NoOffset /\ (off = NoOffset \/ off \in Children(tree, Top))
        BY <2>1 DEF WalkInv
      <3> QED
        BY <1>1, <1>2, <2>1, <2>3, <3>1, WalkHolds DEF Results
    <2> QED
      BY <1>9, <2>2, <2>3 DEF CpuTried
  <1>10. CASE DeviceTried
    <2>1. Go /\ call \in ByNextNode /\ call = "devices" /\ status = "loop"
      BY <1>10 DEF DeviceTried, ByNextNode, Go
    <2>2. CASE NextNode /\ status' = status
      BY <1>5, <2>1, <2>2
    <2>3. CASE node_is_device(tree, off) /\ status' = "found" /\ UNCHANGED <<off, depth>>
      <3>1. off \in 1 .. Len(tree)
        BY <1>1, <2>3, AtNode
      <3>2. call \notin ByPath
        BY <2>1 DEF ByPath
      <3> QED
        BY <1>1, <1>2, <2>1, <2>3, <3>1, <3>2, WalkHolds
    <2> QED
      BY <1>10, <2>2, <2>3 DEF DeviceTried
  <1>11. CASE DeviceNext
    <2>1. call = "devices" /\ status = "found" /\ off \in 1 .. Len(tree) + 1 /\ call \notin ByPath
      BY <1>3, <1>11 DEF DeviceNext, WalkInv, ByPath
    <2>2. /\ off' = NoOffset \/ off' \in off + 1 .. Len(tree) + 1
          /\ depth' \in Int
      BY <1>1, <1>11, <2>1, NextNodeForward DEF DeviceNext
    <2>3. off' \in {NoOffset} \cup 1 .. Len(tree) + 1
      BY <1>1, <2>1, <2>2
    <2>4. status' = "loop"
      BY <1>11 DEF DeviceNext
    <2> QED
      BY <1>2, <2>1, <2>2, <2>3, <2>4, WalkHolds
  <1>12. CASE CompatibleTried
    <2>1. call = "compatible" /\ call \notin ByPath /\ depth' = depth
      BY <1>12 DEF CompatibleTried, ByPath
    <2>2. \/ status' = "ok" /\ off' = off
          \/ off' \in DOMAIN tree /\ status' = "found"
      BY <1>1, <1>12, CompatibleNext
    <2> QED
      BY <1>1, <1>2, <1>3, <2>1, <2>2, WalkHolds DEF Results
  <1>13. CASE StartInterrupts \/ AskAbove \/ InterruptsRead
    <2>1. call = "interrupts" /\ call \notin ByPath /\ depth' = depth
          /\ off \in {NoOffset} \cup 1 .. Len(tree)
      BY <1>13 DEF StartInterrupts, AskAbove, InterruptsRead, ByPath, WalkInv
    <2>2. off' = off \/ off' = node \/ (off # NoOffset /\ off' = fdt_parent_offset(tree, off))
      BY <1>13 DEF StartInterrupts, AskAbove, InterruptsRead, Go
    <2>3. off # NoOffset => fdt_parent_offset(tree, off) \in {NoOffset} \cup 1 .. Len(tree)
      <3> SUFFICES ASSUME off # NoOffset PROVE fdt_parent_offset(tree, off) \in {NoOffset} \cup 1 .. Len(tree)
        OBVIOUS
      <3>1. off \in 1 .. Len(tree) /\ Len(tree) \in Nat
        BY <1>1, <2>1
      <3>2. fdt_parent_offset(tree, off) = NoOffset \/ fdt_parent_offset(tree, off) \in 1 .. off - 1
        BY <1>1, <3>1, ParentFacts
      <3> QED
        BY <3>1, <3>2
    <2>4. off' \in {NoOffset} \cup 1 .. Len(tree)
      BY <1>1, <2>1, <2>2, <2>3, GivenFacts
    <2>5. status' \in Results \cup {"loop"}
      <3>1. CASE StartInterrupts
        BY <3>1, RegListErrors DEF StartInterrupts
      <3>2. CASE AskAbove
        BY <3>2 DEF AskAbove, Go
      <3>3. CASE InterruptsRead
        BY <1>1, <2>1, <3>3, MapType DEF Results
      <3> QED
        BY <1>13, <3>1, <3>2, <3>3
    <2>6. status' # "found"
      BY <2>5 DEF Results
    <2> QED
      BY <1>1, <1>2, <1>3, <2>1, <2>4, <2>5, <2>6, WalkHolds
  <1>14. CASE StartTranslate \/ WindowTried \/ NoWindow
    <2>1. call = "translate" /\ call \notin ByPath /\ depth' = depth /\ off' = off
      BY <1>14 DEF StartTranslate, WindowTried, NoWindow, ByPath
    <2>2. status' \in Results \cup {"loop"}
      BY <1>14 DEF StartTranslate, WindowTried, NoWindow, Results, TranslateError
    <2>3. status' # "found"
      BY <2>2 DEF Results
    <2> QED
      BY <1>1, <1>2, <2>1, <2>2, <2>3, WalkHolds
  <1>15. CASE Return
    <2>1. status = "loop" /\ status' \in Results /\ UNCHANGED <<off, depth, n, arr>>
          /\ off = NoOffset /\ call \in ByNextNode \cup ByPath
      BY <1>15 DEF Return, Results
    <2>2. call \notin {"interrupts", "compatible"}
      BY <2>1 DEF ByNextNode, ByPath
    <2>3. off' \notin 1 .. Len(tree)
      BY <1>1, <2>1 DEF NoOffset
    <2>4. call \in ByPath => Top # NoOffset
      BY <2>1 DEF WalkInv
    <2>5. status' # "found"
      BY <2>1 DEF Results
    <2> QED
      BY <1>1, <1>2, <2>1, <2>2, <2>3, <2>4, <2>5, WalkHolds
  <1>16. CASE Finished \/ UNCHANGED scanVars
    BY <1>2, <1>16 DEF WalkInv, Finished, scanVars
  <1> QED
    BY <1>4, <1>7, <1>8, <1>9, <1>10, <1>11, <1>12, <1>13, <1>14, <1>15, <1>16 DEF ScanNext

-----------------------------------------------------------------------------
(* The invariant and what follows from it for types and translations.       *)

ScanInv == WalkInv /\ TypeInv /\ TranslateInv

LEMMA InitScan ==
    ASSUME ScanInit
    PROVE  ScanInv
  <1>1. Given /\ off = NoOffset /\ depth = -1 /\ n = 0 /\ arr = <<>> /\ status = "start"
    BY DEF ScanInit, Given
  <1>2. cap \in Nat
    BY <1>1, GivenFacts
  <1>3. WalkInv
    BY <1>1 DEF WalkInv, NoOffset
  <1>4. arr \in Seq(Stored) /\ Len(arr) = 0
    BY <1>1
  <1>5. min_int(n, cap) = 0
    BY <1>1, <1>2 DEF min_int
  <1>6. TypeInv
    BY <1>4, <1>5 DEF TypeInv
  <1>7. TranslateInv
    BY <1>1 DEF TranslateInv
  <1> QED
    BY <1>3, <1>6, <1>7 DEF ScanInv

LEMMA ScanInvHolds == ScanSpec => []ScanInv
  <1>1. ScanInv /\ [ScanNext]_scanVars => ScanInv'
    <2> SUFFICES ASSUME ScanInv, [ScanNext]_scanVars PROVE ScanInv'
      OBVIOUS
    <2>1. WalkInv /\ TypeInv /\ TranslateInv
      BY DEF ScanInv
    <2>2. TypeInv' /\ n' \in Nat
      BY <2>1, NextType
    <2>3. WalkInv'
      BY <2>1, <2>2, NextWalk
    <2>4. TranslateInv'
      BY <2>1, NextTranslate
    <2> QED
      BY <2>2, <2>3, <2>4 DEF ScanInv
  <1> QED
    BY <1>1, InitScan, PTL DEF ScanSpec

\* Every call stores entries of its own kind, never more than its buffer holds and
\* never more than it counts, and stays inside the tree (dtb.c, all the loops over nodes).
THEOREM TypesHold == ScanSpec => []ScanTypeOK
  <1>1. ScanInv => ScanTypeOK
    BY GivenFacts DEF ScanInv, WalkInv, TypeInv, ScanTypeOK
  <1> QED
    BY <1>1, ScanInvHolds, PTL

\* A translation goes through a window that holds the address and finds nothing where
\* there is none; it takes the earliest when none of them reaches the top of the address
\* space (dtb_translate_ranges).
THEOREM TranslatesRight == ScanSpec => []TranslationRight
  <1>1. ASSUME ScanInv PROVE TranslationRight
    <2> SUFFICES ASSUME call = "translate", status \in {"ok", "notfound"},
                        fdt_parent_offset(tree, node) # NoOffset
                 PROVE  IF ~dtb_bus_info(tree, node).has_ranges \/ Prop(tree, node, "ranges") = <<>>
                        THEN status = "ok" /\ arr = <<addr>>
                        ELSE /\ status = "ok" =>
                                  \E q \in Holding : arr = <<Through(Windows(tree, node)[q])>>
                             /\ Holding # {} /\ (\A q \in Holding : ~ReachesTop(Windows(tree, node)[q])) =>
                                  status = "ok" /\ arr = <<Through(Windows(tree, node)[Min(Holding)])>>
      BY DEF TranslationRight
    <2>1. Given /\ n \in Nat /\ TranslateInv
      BY <1>1 DEF ScanInv, WalkInv
    <2>2. PICK w : w = Windows(tree, node)
      OBVIOUS
    <2>3. TranslateError(tree, node) # "notfound"
      BY DEF TranslateError
    <2>4. Plain(tree, node) <=> ~dtb_bus_info(tree, node).has_ranges \/ Prop(tree, node, "ranges") = <<>>
      BY DEF Plain, PropOf, dtb_bus_info, prop_exists
    <2>5. CASE Plain(tree, node)
      <3>1. status = "ok" /\ arr = <<addr>>
        BY <2>1, <2>3, <2>5 DEF TranslateInv, Tries
      <3> QED
        BY <2>4, <2>5, <3>1
    <2>6. CASE ~Plain(tree, node)
      <3>1. Tries(tree, node)
        BY <2>1, <2>3, <2>6 DEF TranslateInv
      <3>2. w \in Seq(Window)
        BY <2>1, <2>2, <3>1, WindowFacts DEF Tries
      <3>3. PICK m \in Nat : m = Len(w) /\ DOMAIN w = 1 .. m
        BY <3>2, SeqDomain
      <3>4. ASSUME NEW q \in 1 .. m PROVE Hit(w[q], addr) <=> q \in Holding /\ ~ReachesTop(w[q])
        <4>1. w[q] \in Window
          BY <3>2, <3>3, SeqDomain
        <4>2. addr \in 0 .. AddressSpan - 1
          BY <2>1, GivenFacts DEF AddressSpan
        <4>3. Hit(w[q], addr) <=> Holds(w[q], addr) /\ ~ReachesTop(w[q])
          BY <4>1, <4>2, HitIs
        <4> QED
          BY <2>2, <3>3, <4>3 DEF Holding
      <3>5. Holding \in SUBSET Nat /\ Holding \subseteq 1 .. m
        BY <2>2, <3>3 DEF Holding
      <3>6. CASE status = "ok"
        <4>1. /\ n < m /\ Missed(w, n, addr) /\ Hit(w[n + 1], addr)
              /\ arr = <<Translated(w[n + 1], addr)>>
          BY <2>1, <2>2, <2>6, <3>3, <3>6 DEF TranslateInv
        <4>2. n + 1 \in Holding
          <5>1. n + 1 \in 1 .. m
            BY <2>1, <4>1
          <5> QED
            BY <3>4, <4>1, <5>1
        <4>3. arr = <<Through(w[n + 1])>>
          BY <4>1 DEF Translated, Through
        <4>4. ASSUME \A q \in Holding : ~ReachesTop(w[q]) PROVE Min(Holding) = n + 1
          <5>1. ASSUME NEW y \in Holding PROVE n + 1 <= y
            <6>1. y \in 1 .. m /\ Hit(w[y], addr)
              BY <3>4, <3>5, <4>4
            <6>2. ~(y \in 1 .. n)
              BY <4>1, <6>1 DEF Missed
            <6> QED
              BY <2>1, <6>1, <6>2
          <5>2. Min(Holding) \in Holding /\ Min(Holding) <= n + 1
            BY <3>5, <4>2, MinFacts
          <5>3. n + 1 <= Min(Holding) /\ Min(Holding) \in Nat
            BY <3>5, <5>1, <5>2
          <5> QED
            BY <2>1, <5>2, <5>3
        <4> QED
          BY <2>2, <2>4, <2>6, <3>6, <4>2, <4>3, <4>4
      <3>7. CASE status = "notfound"
        <4>1. Missed(w, m, addr)
          BY <2>1, <2>2, <2>3, <3>3, <3>7 DEF TranslateInv
        <4>2. \A q \in Holding : ReachesTop(w[q])
          BY <3>4, <3>5, <4>1 DEF Missed
        <4> QED
          BY <2>2, <2>4, <2>6, <3>7, <4>2
      <3> QED
        BY <3>6, <3>7
    <2> QED
      BY <2>5, <2>6
  <1> QED
    BY <1>1, ScanInvHolds, PTL

-----------------------------------------------------------------------------
(* The loop over devices.                                                   *)

\* Ascends, and is made of enabled devices.
Ascends(s) == \A p, q \in DOMAIN s : p < q => s[p] < s[q]

Devices(t, s) ==
    \A p \in DOMAIN s : s[p] \in DOMAIN t /\ node_is_device(t, s[p]) /\ node_is_enabled(t, s[p])

AllBefore(s, k) == \A p \in DOMAIN s : s[p] < k

DeviceInv ==
    call = "devices" =>
        /\ Ascends(arr) /\ Devices(tree, arr)
        /\ status = "loop" => off = NoOffset \/ AllBefore(arr, off)
        /\ status = "found" => AllBefore(arr, off + 1)

\* One more entry goes behind the others, if there is room.
LEMMA StoreOne ==
    ASSUME NEW T, NEW x \in T, arr \in Seq(T), cap \in Nat, Store(<<x>>)
    PROVE  /\ arr' \in Seq(T)
           /\ \A p \in DOMAIN arr' :
                \/ p \in DOMAIN arr /\ arr'[p] = arr[p]
                \/ p = Len(arr) + 1 /\ arr'[p] = x
  <1>1. PICK a \in Nat : a = Len(arr) /\ DOMAIN arr = 1 .. a
    BY SeqDomain
  <1>2. <<x>> \in Seq(T) /\ Len(<<x>>) = 1 /\ <<x>>[1] = x
    OBVIOUS
  <1>3. PICK u \in Seq(T) : /\ u = arr \o <<x>> /\ Len(u) = a + 1
                            /\ \A q \in 1 .. a : u[q] = arr[q]
                            /\ u[a + 1] = x
    <2>1. PICK e \in Seq(T) : e = <<x>> /\ Len(e) = 1 /\ e[1] = x
      BY <1>2
    <2>2. arr \o e \in Seq(T) /\ Len(arr \o e) = a + 1 /\ \A q \in 1 .. a : (arr \o e)[q] = arr[q]
      BY <1>1, <2>1, ConcatFacts
    <2>3. 1 \in 1 .. Len(e) /\ (arr \o e)[a + 1] = e[1]
      BY <1>1, <2>1, ConcatFacts
    <2> QED
      BY <2>1, <2>2, <2>3
  <1>4. arr' = Cut(u)
    BY <1>1, <1>2, <1>3 DEF Store, Cut
  <1>5. PICK m \in Nat : /\ m = min_int(a + 1, cap) /\ m <= a + 1 /\ arr' \in Seq(T)
                         /\ arr' = [q \in 1 .. m |-> u[q]] /\ DOMAIN arr' = 1 .. m
    BY <1>1, <1>3, <1>4, CutFacts
  <1>6. ASSUME NEW q \in 1 .. m
        PROVE  (q \in 1 .. a /\ arr'[q] = arr[q]) \/ (q = a + 1 /\ arr'[q] = x)
    <2>1. q \in 1 .. a \/ q = a + 1
      BY <1>5
    <2>2. arr'[q] = u[q]
      BY <1>5
    <2>3. CASE q \in 1 .. a
      BY <1>3, <2>2, <2>3
    <2>4. CASE q = a + 1
      BY <1>3, <2>2, <2>4
    <2> QED
      BY <2>1, <2>3, <2>4
  <1>7. ASSUME NEW p \in DOMAIN arr'
        PROVE  (p \in DOMAIN arr /\ arr'[p] = arr[p]) \/ (p = Len(arr) + 1 /\ arr'[p] = x)
    <2>1. p \in 1 .. m
      BY <1>5
    <2>2. (p \in 1 .. a /\ arr'[p] = arr[p]) \/ (p = a + 1 /\ arr'[p] = x)
      BY <1>6, <2>1
    <2> QED
      BY <1>1, <2>2
  <1> QED
    BY <1>5, <1>7

\* A device found behind all the others.
LEMMA DeviceStored ==
    ASSUME Given, arr \in Seq(Nat), Ascends(arr), Devices(tree, arr), AllBefore(arr, off),
           off \in DOMAIN tree, node_is_device(tree, off), node_is_enabled(tree, off),
           Store(<<off>>), UNCHANGED inputVars
    PROVE  Ascends(arr') /\ Devices(tree, arr') /\ AllBefore(arr', off + 1)
  <1>1. off \in Nat /\ cap \in Nat
    BY GivenFacts, TreeFacts
  <1>2. PICK a \in Nat : a = Len(arr) /\ DOMAIN arr = 1 .. a /\ \A p \in DOMAIN arr : arr[p] \in Nat
    BY SeqDomain
  <1>3. PICK c \in Nat : DOMAIN arr' = 1 .. c
    BY <1>1, StoreOne, SeqDomain
  <1>4. \A p \in DOMAIN arr' :
          \/ p \in DOMAIN arr /\ arr'[p] = arr[p] /\ arr[p] < off /\ arr[p] \in Nat
          \/ p = a + 1 /\ arr'[p] = off
    BY <1>1, <1>2, StoreOne DEF AllBefore
  <1>5. Devices(tree, arr')
    BY <1>4 DEF Devices
  <1>6. AllBefore(arr', off + 1)
    BY <1>1, <1>4 DEF AllBefore
  <1>7. ASSUME NEW p \in DOMAIN arr', NEW q \in DOMAIN arr', p < q PROVE arr'[p] < arr'[q]
    <2>1. p \in 1 .. a \/ p = a + 1
      BY <1>2, <1>4
    <2>2. q \in 1 .. a \/ q = a + 1
      BY <1>2, <1>4
    <2>3. p \in 1 .. a
      BY <1>7, <2>1, <2>2
    <2>4. p # a + 1 /\ p \in DOMAIN arr
      BY <1>2, <2>3
    <2>5. arr'[p] = arr[p] /\ arr[p] < off
      BY <1>4, <2>4
    <2>6. CASE q \in DOMAIN arr /\ arr'[q] = arr[q]
      BY <1>7, <2>4, <2>5, <2>6 DEF Ascends
    <2>7. CASE arr'[q] = off
      BY <2>5, <2>7
    <2> QED
      BY <1>4, <2>6, <2>7
  <1> QED
    BY <1>5, <1>6, <1>7 DEF Ascends

LEMMA NextDevice ==
    ASSUME WalkInv, TypeInv, DeviceInv, [ScanNext]_scanVars
    PROVE  DeviceInv'
  <1> SUFFICES ASSUME call = "devices" PROVE DeviceInv'
    BY InputsStay DEF DeviceInv, inputVars
  <1>1. Given /\ IsTree(tree) /\ off \in {NoOffset} \cup 1 .. Len(tree) + 1 /\ depth \in Int
        /\ Len(tree) \in Nat
    BY GivenFacts, TreeFacts DEF WalkInv
  <1>2. UNCHANGED inputVars /\ UNCHANGED <<tree, call, cap>>
    BY InputsStay DEF inputVars
  <1>3. arr \in Seq(Nat) /\ \A p \in DOMAIN arr : arr[p] \in Nat
    BY SeqDomain DEF TypeInv, Stored
  <1>4. Ascends(arr) /\ Devices(tree, arr)
    BY DEF DeviceInv
  <1>5. Start \/ DeviceTried \/ DeviceNext \/ Return \/ Finished \/ UNCHANGED scanVars
    BY DEF ScanNext, MemoryNode, ReservedNode, ControllerNode, CpuCounted, CpuListed, CpuTried,
           BusChild, CompatibleTried, StartInterrupts, AskAbove, InterruptsRead,
           StartTranslate, WindowTried, NoWindow
  <1>6. ASSUME NEW k \in 1 .. Len(tree) + 1, AllBefore(arr, k),
               off' = NoOffset \/ off' \in k .. Len(tree) + 1
        PROVE  off' = NoOffset \/ AllBefore(arr, off')
    BY <1>1, <1>3, <1>6 DEF AllBefore
  <1>7. CASE Start
    <2>1. arr' = <<>> /\ DOMAIN arr' = {} /\ status' = "loop"
      BY <1>7, StartKeeps DEF ByNextNode
    <2> QED
      BY <1>2, <2>1 DEF DeviceInv, Ascends, Devices, AllBefore
  <1>8. CASE DeviceTried
    <2>1. status = "loop" /\ off # NoOffset /\ AllBefore(arr, off)
      BY <1>8 DEF DeviceTried, Go, DeviceInv
    <2>2. CASE node_is_device(tree, off) /\ node_is_enabled(tree, off) /\ Store(<<off>>)
               /\ status' = "found" /\ off' = off
      <3>1. off \in DOMAIN tree
        BY <2>2, AtNode
      <3>2. Ascends(arr') /\ Devices(tree, arr') /\ AllBefore(arr', off + 1)
        BY <1>1, <1>2, <1>3, <1>4, <2>1, <2>2, <3>1, DeviceStored
      <3> QED
        BY <1>2, <2>2, <3>2 DEF DeviceInv
    <2>3. CASE NextNode /\ Nothing /\ status' = status
      <3>1. off \in 1 .. Len(tree) + 1 /\ (off' = NoOffset \/ off' \in off + 1 .. Len(tree) + 1)
        BY <2>1, <2>3, NextNodeKeeps
      <3>2. off' = NoOffset \/ off' \in off .. Len(tree) + 1
        BY <1>1, <3>1
      <3>3. arr' = arr /\ (off' = NoOffset \/ AllBefore(arr, off'))
        BY <1>6, <2>1, <2>3, <3>1, <3>2 DEF Nothing
      <3> QED
        BY <1>2, <1>4, <2>1, <2>3, <3>3 DEF DeviceInv
    <2> QED
      BY <1>8, <2>2, <2>3 DEF DeviceTried
  <1>9. CASE DeviceNext
    <2>1. status = "found" /\ off \in 1 .. Len(tree) /\ AllBefore(arr, off + 1)
          /\ off \in 1 .. Len(tree) + 1 /\ off + 1 \in 1 .. Len(tree) + 1
      BY <1>1, <1>9 DEF DeviceNext, DeviceInv, WalkInv
    <2>2. off' = NoOffset \/ off' \in off + 1 .. Len(tree) + 1
      BY <1>1, <1>9, <2>1, NextNodeForward DEF DeviceNext
    <2>3. arr' = arr /\ status' = "loop" /\ (off' = NoOffset \/ AllBefore(arr, off'))
      BY <1>6, <1>9, <2>1, <2>2 DEF DeviceNext
    <2> QED
      BY <1>2, <1>4, <2>3 DEF DeviceInv
  <1>10. CASE Return
    <2>1. arr' = arr /\ status' = "ok"
      BY <1>10 DEF Return
    <2> QED
      BY <1>2, <1>4, <2>1 DEF DeviceInv
  <1>11. CASE Finished \/ UNCHANGED scanVars
    BY <1>2, <1>11 DEF Finished, scanVars, DeviceInv
  <1> QED
    BY <1>5, <1>7, <1>8, <1>9, <1>10, <1>11

LEMMA DeviceInvHolds == ScanSpec => []DeviceInv
  <1>1. ScanInit => DeviceInv
    BY DEF ScanInit, DeviceInv, Ascends, Devices, AllBefore
  <1>2. ScanInv /\ DeviceInv /\ [ScanNext]_scanVars => DeviceInv'
    BY NextDevice DEF ScanInv
  <1> QED
    BY <1>1, <1>2, ScanInvHolds, PTL DEF ScanSpec

\* A client that asks for one device after the other is handed enabled devices, each
\* further on in the tree than the one before (dtb_device_first, dtb_device_next).
THEOREM DevicesGoForward == ScanSpec => []DevicesAscend
  <1>1. DeviceInv => DevicesAscend
    BY DEF DeviceInv, DevicesAscend, Ascends, Devices
  <1> QED
    BY <1>1, DeviceInvHolds, PTL

-----------------------------------------------------------------------------
(* Nodes passed.                                                            *)

\* The last node the loop has passed: at the end of the walk the last of all.
Passed(t, o) == IF o = NoOffset THEN Len(t) ELSE o - 1

\* The nodes a walk comes to.
Walked(t, c) == IF c \in ByPath THEN Children(t, fdt_path_offset(t, Parent(c))) ELSE DOMAIN t

\* How the walk goes on.
Steps == (call \in {"memory", "controllers"} /\ NextNode) \/ (call \in ByPath /\ NextSubnode)

LEMMA Between ==
    ASSUME NEW m \in Nat, NEW o \in 1 .. m, NEW p \in 1 .. m, p > o
    PROVE  p - 1 \in o - 1 .. m /\ o \in (o - 1) + 1 .. p - 1
  OBVIOUS

\* A step passes the node the loop is at, and of those the walk comes to no other.
LEMMA StepPasses ==
    ASSUME WalkInv, Go, Steps
    PROVE  /\ Passed(tree, off) = off - 1 /\ off \in 1 .. Len(tree) + 1
           /\ Passed(tree, off) \in 0 .. Len(tree)
           /\ Passed(tree, off') \in Passed(tree, off) .. Len(tree)
           /\ off \in Walked(tree, call) => off \in Passed(tree, off) + 1 .. Passed(tree, off')
           /\ \A j \in Walked(tree, call) :
                j \in Passed(tree, off) + 1 .. Passed(tree, off') => j = off
  <1>1. PICK m \in Nat \ {0} : m = Len(tree) /\ DOMAIN tree = 1 .. m
    BY GivenFacts, TreeFacts DEF WalkInv
  <1>2. off \in 1 .. m + 1 /\ off # NoOffset /\ Passed(tree, off) = off - 1 /\ NoOffset \notin Nat
        /\ status = "loop"
    BY <1>1 DEF WalkInv, Go, Passed, NoOffset
  <1>3. CASE call \in {"memory", "controllers"} /\ NextNode
    <2>1. /\ off \in 1 .. m => off' = off + 1
          /\ off = m + 1 => off' = NoOffset
      BY <1>1, <1>2, <1>3, NextNodeKeeps
    <2>2. CASE off \in 1 .. m
      <3>1. Passed(tree, off') = off
        BY <1>2, <2>1, <2>2 DEF Passed, NoOffset
      <3> QED
        BY <1>1, <1>2, <2>2, <3>1
    <2>3. CASE off = m + 1
      <3>1. Passed(tree, off') = m
        BY <1>1, <2>1, <2>3 DEF Passed
      <3>2. Walked(tree, call) = DOMAIN tree
        BY <1>3 DEF Walked, ByPath
      <3> QED
        BY <1>1, <1>2, <2>3, <3>1, <3>2
    <2> QED
      BY <1>2, <2>2, <2>3
  <1>4. CASE call \in ByPath /\ NextSubnode
    <2>1. PICK C \in SUBSET (1 .. m) : C = Walked(tree, call) /\ C = Children(tree, Top)
      <3>1. Walked(tree, call) = Children(tree, Top)
        BY <1>4 DEF Walked, Top
      <3>2. Children(tree, Top) \subseteq 1 .. m
        BY <1>1 DEF Children
      <3> QED
        BY <3>1, <3>2
    <2>2. off \in C /\ \/ off' = NoOffset /\ \A y \in C : y <= off
                       \/ off' \in C /\ off' > off /\ \A y \in C : y > off => off' <= y
      BY <1>2, <1>4, <2>1, NextSubnodeKeeps
    <2>3. CASE off' = NoOffset /\ \A y \in C : y <= off
      <3>1. Passed(tree, off') = m
        BY <1>1, <2>3 DEF Passed
      <3> QED
        BY <1>1, <1>2, <2>1, <2>2, <2>3, <3>1
    <2>4. CASE off' \in C /\ off' > off /\ \A y \in C : y > off => off' <= y
      <3>1. Passed(tree, off') = off' - 1
        BY <1>2, <2>1, <2>4 DEF Passed
      <3>2. PICK o \in 1 .. m : o = off /\ o \in C
        BY <2>1, <2>2
      <3>3. PICK p \in 1 .. m : p = off' /\ p > o
        BY <2>1, <2>4, <3>2
      <3>4. \A y \in C : y \in 1 .. m /\ (y > o => p <= y)
        BY <2>1, <2>4, <3>2, <3>3
      <3>5. p - 1 \in o - 1 .. m /\ o \in (o - 1) + 1 .. p - 1
        <4>1. p > o
          BY <3>3
        <4> QED
          BY <4>1, Between
      <3>6. \A y \in C : y \in (o - 1) + 1 .. p - 1 => y = o
        BY <3>4
      <3>7. Passed(tree, off) = o - 1 /\ Passed(tree, off') = p - 1
        BY <1>2, <3>1, <3>2, <3>3
      <3> QED
        BY <1>1, <2>1, <3>2, <3>5, <3>6, <3>7
    <2> QED
      BY <2>2, <2>3, <2>4
  <1> QED
    BY <1>3, <1>4 DEF Steps

\* The first offset is before all the nodes the walk comes to.
LEMMA StartPasses ==
    ASSUME WalkInv, Start, status' = "loop"
    PROVE  /\ Passed(tree, off') \in 0 .. Len(tree)
           /\ \A j \in Walked(tree, call) : ~(j \in 1 .. Passed(tree, off'))
  <1>1. PICK m \in Nat \ {0} : m = Len(tree) /\ DOMAIN tree = 1 .. m
    BY GivenFacts, TreeFacts DEF WalkInv
  <1>2. CASE call \in ByNextNode
    <2>1. off' = 1
      BY <1>2, StartKeeps
    <2>2. Passed(tree, off') = 0
      BY <2>1 DEF Passed, NoOffset
    <2> QED
      BY <1>1, <2>2
  <1>3. CASE call \in ByPath
    <2>1. PICK C \in SUBSET (1 .. m) : C = Walked(tree, call) /\ C = Children(tree, Top)
      <3>1. Walked(tree, call) = Children(tree, Top)
        BY <1>3 DEF Walked, Top
      <3>2. Children(tree, Top) \subseteq 1 .. m
        BY <1>1 DEF Children
      <3> QED
        BY <3>1, <3>2
    <2>2. \/ off' = NoOffset /\ C = {}
          \/ off' \in C /\ \A y \in C : off' <= y
      BY <1>3, <2>1, StartKeeps
    <2>3. CASE off' = NoOffset /\ C = {}
      BY <1>1, <2>1, <2>3 DEF Passed
    <2>4. CASE off' \in C /\ \A y \in C : off' <= y
      <3>1. Passed(tree, off') = off' - 1
        BY <1>1, <2>1, <2>4 DEF Passed, NoOffset
      <3>2. PICK p \in 1 .. m : p = off'
        BY <2>1, <2>4
      <3>3. \A y \in C : y \in 1 .. m /\ p <= y
        BY <2>1, <2>4, <3>2
      <3>4. p - 1 \in 0 .. m /\ \A y \in C : ~(y \in 1 .. p - 1)
        BY <3>3
      <3> QED
        BY <1>1, <2>1, <3>1, <3>2, <3>4
    <2> QED
      BY <2>2, <2>3, <2>4
  <1> QED
    BY <1>2, <1>3, StartKeeps

-----------------------------------------------------------------------------
(* What has been gathered.                                                  *)

Gathering == {"memory", "reserved", "controllers", "cpu_list", "bus", "compatible"}

\* The nodes a gathering call takes something from, and what it takes.
Chosen(t, c) == CASE c = "memory" -> MemoryNodes(t)
                  [] c \in {"reserved", "bus"} -> Children(t, fdt_path_offset(t, Parent(c)))
                  [] c = "controllers" -> ControllersOf(t)
                  [] c = "cpu_list" -> EnabledCpus(t)
                  [] OTHER -> {k \in DOMAIN t : compat_has(t, k, Needle)}

Taken(t, c, k) == CASE c \in {"memory", "reserved"} -> decode_reg_list(t, k, DTB_MAX_REGS).list
                    [] c = "controllers" -> <<dtb_interrupt_controller_read(t, k)>>
                    [] c = "cpu_list" -> <<dtb_cpu_read(t, k)>>
                    [] OTHER -> <<k>>

Pieces(t, c) == [k \in 1 .. Len(t) |-> IF k \in Chosen(t, c) THEN Taken(t, c, k) ELSE <<>>]

\* All that the nodes up to k give.
Found(t, c, k) == Upto(Pieces(t, c), k)

Kept(s, b) == SubSeq(s, 1, min_int(Len(s), b))

\* A buffer of b entries holds a, of x found, after the nodes up to k.
Gathered(t, c, k, b, a, x) == a = Kept(Found(t, c, k), b) /\ x = Len(Found(t, c, k))

LEMMA ChosenFacts ==
    ASSUME Given, call \in Gathering
    PROVE  Chosen(tree, call) \subseteq Walked(tree, call) /\ Chosen(tree, call) \subseteq 1 .. Len(tree)
  <1>1. DOMAIN tree = 1 .. Len(tree)
    BY GivenFacts, TreeFacts
  <1>2. Walked(tree, call) \subseteq DOMAIN tree
    BY DEF Walked, Children
  <1>3. Chosen(tree, call) \subseteq Walked(tree, call)
    <2>1. CASE call \in {"memory", "controllers", "compatible"}
      <3>1. Walked(tree, call) = DOMAIN tree
        BY <2>1 DEF Walked, ByPath
      <3> QED
        BY <2>1, <3>1 DEF Chosen, MemoryNodes, ControllersOf
    <2>2. CASE call \in {"reserved", "bus"}
      BY <2>2 DEF Walked, ByPath, Chosen
    <2>3. CASE call = "cpu_list"
      <3>1. Walked(tree, call) = Children(tree, fdt_path_offset(tree, "cpus"))
        BY <2>3 DEF Walked, ByPath, Parent
      <3> QED
        BY <2>3, <3>1 DEF Chosen, EnabledCpus, Cpus
    <2> QED
      BY <2>1, <2>2, <2>3 DEF Gathering
  <1> QED
    BY <1>1, <1>2, <1>3

LEMMA PiecesType ==
    ASSUME Given, call \in Gathering
    PROVE  /\ Pieces(tree, call) \in [1 .. Len(tree) -> Seq(Stored)]
           /\ Runner(Pieces(tree, call), Len(tree), Stored)
           /\ Found(tree, call, 0) = <<>>
  <1>1. PICK m \in Nat \ {0} : m = Len(tree) /\ DOMAIN tree = 1 .. m
    BY GivenFacts, TreeFacts
  <1>2. ASSUME NEW k \in 1 .. m
        PROVE  (IF k \in Chosen(tree, call) THEN Taken(tree, call, k) ELSE <<>>) \in Seq(Stored)
    <2>1. Taken(tree, call, k) \in Seq(Stored)
      <3>1. /\ call \in {"memory", "reserved"} =>
                 decode_reg_list(tree, k, DTB_MAX_REGS).list \in Seq(Stored)
            /\ call = "controllers" => <<dtb_interrupt_controller_read(tree, k)>> \in Seq(Stored)
            /\ call = "cpu_list" => <<dtb_cpu_read(tree, k)>> \in Seq(Stored)
            /\ call \in {"bus", "compatible"} => <<k>> \in Seq(Stored)
        BY <1>1, TakenType
      <3>2. CASE call \in {"memory", "reserved"}
        BY <3>1, <3>2 DEF Taken
      <3>3. CASE call = "controllers"
        BY <3>1, <3>3 DEF Taken
      <3>4. CASE call = "cpu_list"
        BY <3>1, <3>4 DEF Taken
      <3>5. CASE call \in {"bus", "compatible"}
        BY <3>1, <3>5 DEF Taken
      <3> QED
        BY <3>2, <3>3, <3>4, <3>5 DEF Gathering
    <2> QED
      BY <2>1, EmptySeq
  <1>3. Pieces(tree, call) \in [1 .. m -> Seq(Stored)]
    BY <1>1, <1>2 DEF Pieces
  <1>4. Runner(Pieces(tree, call), m, Stored)
    BY <1>3, UptoRuns
  <1> QED
    BY <1>1, <1>3, <1>4 DEF Runner, Found

\* Going on from node a to node b, taking from the one chosen between them, if any.
LEMMA Gathers ==
    ASSUME Given, call \in Gathering, cap' = cap,
           NEW a \in 0 .. Len(tree), NEW b \in a .. Len(tree),
           Gathered(tree, call, a, cap, arr, n),
           \/ Nothing /\ \A j \in a + 1 .. b : j \notin Chosen(tree, call)
           \/ \E k \in a + 1 .. b : /\ k \in Chosen(tree, call) /\ Store(Taken(tree, call, k))
                                    /\ \A j \in a + 1 .. b : j \in Chosen(tree, call) => j = k
    PROVE  Gathered(tree, call, b, cap, arr', n')
  <1>1. PICK m \in Nat \ {0} : m = Len(tree)
    BY GivenFacts, TreeFacts
  <1>2. PICK T : T = Stored
    OBVIOUS
  <1>3. PICK ss \in [1 .. m -> Seq(T)] :
          /\ ss = Pieces(tree, call) /\ Runner(ss, m, T)
          /\ \A j \in 1 .. m : ss[j] = IF j \in Chosen(tree, call) THEN Taken(tree, call, j) ELSE <<>>
    BY <1>1, <1>2, PiecesType DEF Pieces
  <1>4. cap \in Nat
    BY GivenFacts
  <1>5. \A j \in a + 1 .. b : j \in 1 .. m
    BY <1>1
  <1>6. CASE Nothing /\ \A j \in a + 1 .. b : j \notin Chosen(tree, call)
    <2>1. Gap(ss, a, b)
      BY <1>3, <1>5, <1>6 DEF Gap
    <2>2. Upto(ss, b) = Upto(ss, a)
      <3>1. a \in 0 .. m /\ b \in a .. m
        BY <1>1
      <3> QED
        BY <2>1, <3>1, UptoGap
    <2> QED
      BY <1>3, <1>6, <2>2 DEF Gathered, Found, Nothing
  <1>7. ASSUME NEW k \in a + 1 .. b, k \in Chosen(tree, call), Store(Taken(tree, call, k)),
               \A j \in a + 1 .. b : j \in Chosen(tree, call) => j = k
        PROVE  Gathered(tree, call, b, cap, arr', n')
    <2>1. k \in 1 .. m /\ k - 1 \in a .. m /\ b \in k .. m /\ k \in 0 .. m /\ k - 1 \in 0 .. m
      BY <1>1
    <2>2. Gap(ss, a, k - 1)
      <3>1. \A j \in a + 1 .. k - 1 : j \in a + 1 .. b /\ j # k
        BY <1>1
      <3> QED
        BY <1>3, <1>5, <1>7, <3>1 DEF Gap
    <2>3. Gap(ss, k, b)
      <3>1. \A j \in k + 1 .. b : j \in a + 1 .. b /\ j # k
        BY <1>1
      <3> QED
        BY <1>3, <1>5, <1>7, <3>1 DEF Gap
    <2>4. Upto(ss, k - 1) = Upto(ss, a)
      <3>1. a \in 0 .. m
        BY <1>1
      <3> QED
        BY <2>1, <2>2, <3>1, UptoGap
    <2>5. Upto(ss, b) = Upto(ss, k)
      BY <1>1, <2>1, <2>3, UptoGap, SMTT(30)
    <2>6. PICK s \in Seq(T) : s = Upto(ss, k - 1)
      BY <1>3, <2>1 DEF Runner
    <2>7. PICK e \in Seq(T) : e = Taken(tree, call, k) /\ ss[k] = e
      BY <1>3, <1>7, <2>1
    <2>8. Upto(ss, k) = s \o e
      BY <1>3, <2>1, <2>6, <2>7 DEF Runner
    <2>9. arr = Cut(s) /\ n = Len(s)
      BY <1>3, <2>4, <2>6 DEF Gathered, Found, Kept, Cut
    <2>10. arr' = Cut(s \o e) /\ n' = Len(s \o e)
      BY <1>4, <1>7, <2>7, <2>9, StoreFacts
    <2> QED
      BY <1>3, <2>5, <2>8, <2>10 DEF Gathered, Found, Kept, Cut
  <1> QED
    BY <1>6, <1>7

\* Before the first node nothing is stored.
LEMMA GathersNothing ==
    ASSUME Given, call \in Gathering, arr = <<>>, n = 0
    PROVE  Gathered(tree, call, 0, cap, arr, n)
  <1>1. Found(tree, call, 0) = <<>>
    BY PiecesType
  <1>2. PICK s \in Seq(Nat) : s = <<>> /\ Len(s) = 0
    BY EmptySeq
  <1>3. min_int(0, cap) = 0
    BY GivenFacts DEF min_int
  <1>4. Cut(s) \in Seq(Nat) /\ Len(Cut(s)) = 0
    BY <1>2, <1>3, GivenFacts, CutFacts
  <1>5. Cut(s) = <<>>
    BY <1>4
  <1> QED
    BY <1>1, <1>2, <1>5 DEF Gathered, Kept, Cut

\* A step of a loop takes what the node it leaves behind gives.
LEMMA LoopGathers ==
    ASSUME WalkInv, Go, Steps, call \in Gathering, cap' = cap,
           Gathered(tree, call, Passed(tree, off), cap, arr, n),
           \/ off \notin Chosen(tree, call) /\ Nothing
           \/ off \in Chosen(tree, call) /\ Store(Taken(tree, call, off))
    PROVE  Gathered(tree, call, Passed(tree, off'), cap, arr', n')
  <1>1. Given /\ Chosen(tree, call) \subseteq Walked(tree, call)
    BY ChosenFacts DEF WalkInv
  <1>2. PICK a \in 0 .. Len(tree) : a = Passed(tree, off)
    BY StepPasses
  <1>3. PICK b \in a .. Len(tree) : b = Passed(tree, off')
    BY <1>2, StepPasses
  <1>4. /\ off \in Chosen(tree, call) => off \in a + 1 .. b
        /\ \A j \in Chosen(tree, call) : j \in a + 1 .. b => j = off
    BY <1>1, <1>2, <1>3, StepPasses
  <1>5. \/ Nothing /\ \A j \in a + 1 .. b : j \notin Chosen(tree, call)
        \/ \E k \in a + 1 .. b : /\ k \in Chosen(tree, call) /\ Store(Taken(tree, call, k))
                                 /\ \A j \in a + 1 .. b : j \in Chosen(tree, call) => j = k
    BY <1>4
  <1> QED
    BY <1>1, <1>2, <1>3, <1>5, Gathers

\* What has been stored is what the nodes passed give, cut to the buffer.
GatherInv ==
    call \in Gathering =>
        /\ status = "loop" => Gathered(tree, call, Passed(tree, off), cap, arr, n)
        /\ status = "found" => Gathered(tree, call, off, cap, arr, n)
        /\ status \in {"ok", "nospace"} => Gathered(tree, call, Len(tree), cap, arr, n)
        /\ call = "controllers" => status \notin {"notfound", "badncells"}
        /\ call = "cpu_list" /\ status \in {"notfound", "badncells"} => Top = NoOffset

\* The part of a step that fails says what it does with the node.
LEMMA RegsTaken ==
    ASSUME NEW tolerated, StoreRegs(tolerated), status = "loop"
    PROVE  \/ /\ decode_reg_list(tree, off, DTB_MAX_REGS).err \in tolerated /\ status' = status
              /\ Store(decode_reg_list(tree, off, DTB_MAX_REGS).list)
           \/ /\ decode_reg_list(tree, off, DTB_MAX_REGS).err \notin tolerated /\ Nothing
              /\ status' = decode_reg_list(tree, off, DTB_MAX_REGS).err
  BY DEF StoreRegs

LEMMA NextGather ==
    ASSUME WalkInv, GatherInv, [ScanNext]_scanVars
    PROVE  GatherInv'
  <1> SUFFICES ASSUME call \in Gathering PROVE GatherInv'
    BY InputsStay DEF GatherInv, inputVars
  <1>1. /\ Given /\ IsTree(tree) /\ Len(tree) \in Nat \ {0} /\ DOMAIN tree = 1 .. Len(tree)
        /\ off \in {NoOffset} \cup 1 .. Len(tree) + 1
        /\ Chosen(tree, call) \subseteq 1 .. Len(tree) /\ Chosen(tree, call) \subseteq Walked(tree, call)
    BY GivenFacts, TreeFacts, ChosenFacts DEF WalkInv
  <1>2. UNCHANGED <<tree, call, cap>> /\ Top' = Top
    BY <1>1, InputsStay, GivenStays DEF inputVars
  <1>3. \/ Start \/ MemoryNode \/ ReservedNode \/ ControllerNode \/ CpuListed \/ BusChild
        \/ CompatibleTried \/ Return \/ Finished \/ UNCHANGED scanVars
    BY DEF ScanNext, CpuCounted, CpuTried, DeviceTried, DeviceNext, StartInterrupts, AskAbove,
           InterruptsRead, StartTranslate, WindowTried, NoWindow, Gathering
  <1>4. CASE Start
    <2>1. arr' = <<>> /\ n' = 0 /\ arr = <<>> /\ n = 0 /\ Nothing /\ status = "start"
      BY <1>4, StartKeeps DEF Start, WalkInv, Nothing
    <2>2. CASE status' = "loop"
      <3>1. PICK b \in 0 .. Len(tree) :
              b = Passed(tree, off') /\ \A j \in Walked(tree, call) : ~(j \in 1 .. b)
        BY <1>4, <2>2, StartPasses
      <3>2. Gathered(tree, call, 0, cap, arr, n)
        BY <1>1, <2>1, GathersNothing
      <3>3. 0 \in 0 .. Len(tree) /\ 0 + 1 = 1
        BY <1>1
      <3>4. \A j \in 0 + 1 .. b : j \notin Chosen(tree, call)
        BY <1>1, <3>1, <3>3
      <3>5. Gathered(tree, call, b, cap, arr', n')
        BY <1>1, <1>2, <2>1, <3>2, <3>3, <3>4, Gathers
      <3> QED
        BY <1>2, <2>2, <3>1, <3>5 DEF GatherInv
    <2>3. CASE status' # "loop"
      <3>1. status' = "notfound" /\ Top = NoOffset /\ call \in ByPath
        BY <1>4, <2>3, StartKeeps
      <3>2. call # "controllers"
        BY <3>1 DEF ByPath
      <3> QED
        BY <1>2, <3>1, <3>2 DEF GatherInv
    <2> QED
      BY <2>2, <2>3
  <1>5. ASSUME Go, Steps, status' = status,
               \/ off \notin Chosen(tree, call) /\ Nothing
               \/ off \in Chosen(tree, call) /\ Store(Taken(tree, call, off))
        PROVE  GatherInv'
    <2>1. status = "loop" /\ Gathered(tree, call, Passed(tree, off), cap, arr, n)
      BY <1>5 DEF Go, GatherInv
    <2>2. Gathered(tree, call, Passed(tree, off'), cap, arr', n')
      BY <1>2, <1>5, <2>1, LoopGathers
    <2> QED
      BY <1>2, <1>5, <2>1, <2>2 DEF GatherInv
  <1>6. CASE MemoryNode
    <2>1. Go /\ Steps /\ call = "memory" /\ status = "loop"
      BY <1>6 DEF MemoryNode, Steps, Go
    <2>2. Chosen(tree, call) = MemoryNodes(tree)
          /\ Taken(tree, call, off) = decode_reg_list(tree, off, DTB_MAX_REGS).list
      BY <2>1 DEF Chosen, Taken
    <2>3. off \in Chosen(tree, call) <=> node_is_memory(tree, off)
      BY <2>2, AtNode DEF MemoryNodes
    <2>4. CASE ~node_is_memory(tree, off)
      BY <1>5, <1>6, <2>1, <2>3, <2>4 DEF MemoryNode, Nothing
    <2>5. CASE node_is_memory(tree, off)
      <3>1. StoreRegs({"ok", "nospace"})
        BY <1>6, <2>5 DEF MemoryNode
      <3>2. \/ status' = status /\ Store(decode_reg_list(tree, off, DTB_MAX_REGS).list)
            \/ /\ status' = decode_reg_list(tree, off, DTB_MAX_REGS).err
               /\ decode_reg_list(tree, off, DTB_MAX_REGS).err \notin {"ok", "nospace"}
        BY <2>1, <3>1, RegsTaken
      <3>3. CASE status' = status /\ Store(decode_reg_list(tree, off, DTB_MAX_REGS).list)
        BY <1>5, <2>1, <2>2, <2>3, <2>5, <3>3
      <3>4. CASE status' \in Results \ {"ok", "nospace"}
        BY <1>2, <2>1, <3>4 DEF GatherInv, Results
      <3> QED
        BY <3>2, <3>3, <3>4, RegListErrors
    <2> QED
      BY <2>4, <2>5
  <1>7. CASE ReservedNode
    <2>1. Go /\ Steps /\ call = "reserved" /\ status = "loop" /\ call \in ByPath
      BY <1>7 DEF ReservedNode, Steps, Go, ByPath
    <2>2. Chosen(tree, call) = Children(tree, Top)
          /\ Taken(tree, call, off) = decode_reg_list(tree, off, DTB_MAX_REGS).list
      BY <2>1 DEF Chosen, Taken, Top
    <2>3. off \in Chosen(tree, call)
      BY <2>1, <2>2 DEF WalkInv, Go
    <2>4. StoreRegs({"ok", "nospace", "notfound"})
      BY <1>7 DEF ReservedNode
    <2>5. \/ status' = status /\ Store(decode_reg_list(tree, off, DTB_MAX_REGS).list)
          \/ /\ status' = decode_reg_list(tree, off, DTB_MAX_REGS).err
             /\ decode_reg_list(tree, off, DTB_MAX_REGS).err \notin {"ok", "nospace", "notfound"}
      BY <2>1, <2>4, RegsTaken
    <2>6. CASE status' = status /\ Store(decode_reg_list(tree, off, DTB_MAX_REGS).list)
      BY <1>5, <2>1, <2>2, <2>3, <2>6
    <2>7. CASE status' \in Results \ {"ok", "nospace", "notfound"}
      BY <1>2, <2>1, <2>7 DEF GatherInv, Results
    <2> QED
      BY <2>5, <2>6, <2>7, RegListErrors
  <1>8. CASE ControllerNode
    <2>1. Go /\ Steps /\ call = "controllers" /\ status' = status
      BY <1>8 DEF ControllerNode, Steps
    <2>2. Chosen(tree, call) = ControllersOf(tree)
          /\ Taken(tree, call, off) = <<dtb_interrupt_controller_read(tree, off)>>
      BY <2>1 DEF Chosen, Taken
    <2>3. off \in Chosen(tree, call) <=> HasProp(tree, off, "interrupt-controller")
      BY <2>2, AtNode DEF ControllersOf
    <2> QED
      BY <1>5, <1>8, <2>1, <2>2, <2>3 DEF ControllerNode
  <1>9. CASE CpuListed
    <2>1. Go /\ Steps /\ call = "cpu_list" /\ status' = status /\ status = "loop" /\ call \in ByPath
      BY <1>9 DEF CpuListed, Steps, Go, ByPath
    <2>2. Chosen(tree, call) = EnabledCpus(tree)
          /\ Taken(tree, call, off) = <<dtb_cpu_read(tree, off)>>
      BY <2>1 DEF Chosen, Taken
    <2>3. off \in Children(tree, fdt_path_offset(tree, "cpus"))
      BY <2>1 DEF WalkInv, Go, Top, Parent
    <2>4. off \in Chosen(tree, call) <=> node_is_cpu(tree, off) /\ node_is_enabled(tree, off)
      BY <2>2, <2>3 DEF EnabledCpus, Cpus
    <2> QED
      BY <1>5, <1>9, <2>1, <2>2, <2>4 DEF CpuListed
  <1>10. CASE BusChild
    <2>1. Go /\ Steps /\ call = "bus" /\ status' = status /\ status = "loop" /\ call \in ByPath
          /\ Store(<<off>>)
      BY <1>10 DEF BusChild, Steps, Go, ByPath
    <2>2. Chosen(tree, call) = Children(tree, Top) /\ Taken(tree, call, off) = <<off>>
      BY <2>1 DEF Chosen, Taken, Top
    <2>3. off \in Chosen(tree, call)
      BY <2>1, <2>2 DEF WalkInv, Go
    <2> QED
      BY <1>5, <2>1, <2>2, <2>3
  <1>11. CASE CompatibleTried
    <2>1. call = "compatible" /\ status \in {"start", "found"}
      BY <1>11 DEF CompatibleTried
    <2>2. PICK a \in 0 .. Len(tree) :
            /\ Gathered(tree, call, a, cap, arr, n)
            /\ \A k \in 1 .. Len(tree) : k > off <=> k > a
      <3>1. CASE status = "start"
        <4>1. arr = <<>> /\ n = 0 /\ off = NoOffset
          BY <3>1 DEF WalkInv
        <4>2. Gathered(tree, call, 0, cap, arr, n)
          BY <1>1, <4>1, GathersNothing
        <4>3. 0 \in 0 .. Len(tree) /\ \A k \in 1 .. Len(tree) : k > off <=> k > 0
          BY <1>1, <4>1 DEF NoOffset
        <4> QED
          BY <4>2, <4>3
      <3>2. CASE status = "found"
        <4>1. off \in 0 .. Len(tree) /\ Gathered(tree, call, off, cap, arr, n)
          BY <1>1, <3>2 DEF WalkInv, GatherInv
        <4> QED
          BY <4>1
      <3> QED
        BY <2>1, <3>1, <3>2
    <2>3. Chosen(tree, call) = {k \in DOMAIN tree : compat_has(tree, k, Needle)}
      BY <2>1 DEF Chosen
    <2>4. PICK S : S = {k \in DOMAIN tree : k > off /\ compat_has(tree, k, Needle)}
      OBVIOUS
    <2>5. S = {k \in Chosen(tree, call) : k > a}
      BY <1>1, <2>2, <2>3, <2>4
    <2>6. \/ S = {} /\ status' = "ok" /\ off' = off /\ Nothing
          \/ /\ off' \in S /\ off' \in DOMAIN tree /\ \A k \in S : off' <= k
             /\ status' = "found" /\ Store(<<off'>>)
      BY <1>1, <1>11, <2>4, CompatibleNext
    <2>7. CASE S = {} /\ status' = "ok" /\ Nothing
      <3>1. \A j \in a + 1 .. Len(tree) : j \notin Chosen(tree, call)
        BY <1>1, <2>5, <2>7
      <3>2. Len(tree) \in a .. Len(tree)
        BY <1>1
      <3>3. Gathered(tree, call, Len(tree), cap, arr', n')
        BY <1>1, <1>2, <2>2, <2>7, <3>1, <3>2, Gathers
      <3> QED
        BY <1>2, <2>1, <2>7, <3>3 DEF GatherInv
    <2>8. ASSUME off' \in S, \A k \in S : off' <= k, status' = "found", Store(<<off'>>)
          PROVE  GatherInv'
      <3>1. PICK b \in a .. Len(tree) : b = off' /\ b \in a + 1 .. b /\ b \in Chosen(tree, call)
        <4>1. off' \in Chosen(tree, call) /\ off' > a /\ off' \in 1 .. Len(tree)
          BY <1>1, <2>5, <2>8
        <4> QED
          BY <1>1, <4>1
      <3>2. \A j \in a + 1 .. b : j \in Chosen(tree, call) => j = b
        <4>1. ASSUME NEW j \in a + 1 .. b, j \in Chosen(tree, call) PROVE j = b
          <5>1. j > a /\ j <= b
            BY <1>1, <3>1
          <5>2. b <= j
            BY <2>5, <2>8, <3>1, <4>1, <5>1
          <5> QED
            BY <1>1, <5>1, <5>2
        <4> QED
          BY <4>1
      <3>3. Taken(tree, call, b) = <<b>>
        BY <2>1 DEF Taken
      <3>4. Store(Taken(tree, call, b))
        BY <2>8, <3>1, <3>3
      <3>5. Gathered(tree, call, b, cap, arr', n')
        BY <1>1, <1>2, <2>2, <3>1, <3>2, <3>4, Gathers
      <3> QED
        BY <1>2, <2>1, <2>8, <3>1, <3>5 DEF GatherInv
    <2> QED
      BY <2>6, <2>7, <2>8
  <1>12. CASE Return
    <2>1. status = "loop" /\ status' \in {"ok", "nospace", "notfound"} /\ off = NoOffset
          /\ UNCHANGED <<n, arr>> /\ (call # "find_hart" => status' # "notfound")
      BY <1>12 DEF Return
    <2>2. Gathered(tree, call, Len(tree), cap, arr, n)
      BY <2>1 DEF GatherInv, Passed
    <2>3. status' \in {"ok", "nospace"}
      BY <2>1 DEF Gathering
    <2> QED
      BY <1>2, <2>1, <2>2, <2>3 DEF GatherInv
  <1>13. CASE Finished \/ UNCHANGED scanVars
    BY <1>2, <1>13 DEF Finished, scanVars, GatherInv
  <1> QED
    BY <1>3, <1>4, <1>6, <1>7, <1>8, <1>9, <1>10, <1>11, <1>12, <1>13

-----------------------------------------------------------------------------
(* Errors, counts and harts.                                                *)

Tolerated(c) == IF c = "memory" THEN {"ok", "nospace"} ELSE {"ok", "nospace", "notfound"}

ErrorAt(t, k) == decode_reg_list(t, k, DTB_MAX_REGS).err

\* The nodes that end the call.
Fatal(t, c) == {k \in Chosen(t, c) : ErrorAt(t, k) \notin Tolerated(c)}

FullResult(x, c) == IF x > c THEN "nospace" ELSE "ok"

\* The call has come past no fatal node, or has ended at the first.
FatalInv ==
    call \in {"memory", "reserved"} =>
        /\ status = "loop" => \A k \in Fatal(tree, call) : ~(k \in 1 .. Passed(tree, off))
        /\ status \in {"ok", "nospace"} => Fatal(tree, call) = {} /\ status = FullResult(n, cap)
        /\ status \in {"notfound", "badncells"} =>
             \/ call = "reserved" /\ Top = NoOffset /\ status = "notfound"
             \/ \E k \in Fatal(tree, call) :
                   status = ErrorAt(tree, k) /\ \A j \in Fatal(tree, call) : k <= j

LEMMA FatalFacts ==
    ASSUME Given, call \in {"memory", "reserved"}
    PROVE  Fatal(tree, call) \subseteq Walked(tree, call) /\ Fatal(tree, call) \subseteq 1 .. Len(tree)
  BY ChosenFacts DEF Fatal, Gathering

\* A loop that meets no node of S goes on without having passed one.
LEMMA LoopMisses ==
    ASSUME WalkInv, Go, Steps, NEW S \in SUBSET Walked(tree, call), off \notin S,
           \A k \in S : ~(k \in 1 .. Passed(tree, off))
    PROVE  \A k \in S : ~(k \in 1 .. Passed(tree, off'))
  <1>1. PICK m \in Nat : m = Len(tree)
    BY GivenFacts, TreeFacts DEF WalkInv
  <1>2. PICK a \in 0 .. m : a = Passed(tree, off)
    BY <1>1, StepPasses
  <1>3. PICK b \in a .. m : b = Passed(tree, off')
    BY <1>1, <1>2, StepPasses
  <1>4. \A k \in S : k \in a + 1 .. b => k = off
    BY <1>2, <1>3, StepPasses
  <1>5. \A k \in 1 .. b : k \in 1 .. a \/ k \in a + 1 .. b
    OBVIOUS
  <1> QED
    BY <1>2, <1>3, <1>4, <1>5

\* The first node of S a loop meets is the least.
LEMMA LoopMeets ==
    ASSUME WalkInv, Go, Steps, NEW S \in SUBSET (1 .. Len(tree)), off \in S,
           \A k \in S : ~(k \in 1 .. Passed(tree, off))
    PROVE  \A k \in S : off <= k
  <1>1. PICK m \in Nat : m = Len(tree)
    BY GivenFacts, TreeFacts DEF WalkInv
  <1>2. PICK o \in 1 .. m : o = off /\ Passed(tree, off) = o - 1
    BY <1>1, StepPasses
  <1>3. ASSUME NEW k \in S PROVE o <= k
    <2>1. k \in 1 .. m /\ ~(k \in 1 .. o - 1)
      BY <1>1, <1>2
    <2> QED
      BY <2>1
  <1> QED
    BY <1>2, <1>3

LEMMA NextFatal ==
    ASSUME WalkInv, FatalInv, [ScanNext]_scanVars
    PROVE  FatalInv'
  <1> SUFFICES ASSUME call \in {"memory", "reserved"} PROVE FatalInv'
    BY InputsStay DEF FatalInv, inputVars
  <1>1. /\ Given /\ IsTree(tree) /\ Len(tree) \in Nat \ {0} /\ DOMAIN tree = 1 .. Len(tree)
        /\ Fatal(tree, call) \subseteq 1 .. Len(tree) /\ Fatal(tree, call) \subseteq Walked(tree, call)
    BY GivenFacts, TreeFacts, FatalFacts DEF WalkInv
  <1>2. UNCHANGED <<tree, call, cap>> /\ Top' = Top
    BY <1>1, InputsStay, GivenStays DEF inputVars
  <1>3. Start \/ MemoryNode \/ ReservedNode \/ Return \/ Finished \/ UNCHANGED scanVars
    BY DEF ScanNext, ControllerNode, CpuListed, BusChild, CompatibleTried,
           CpuCounted, CpuTried, DeviceTried, DeviceNext, StartInterrupts, AskAbove,
           InterruptsRead, StartTranslate, WindowTried, NoWindow
  <1>4. CASE Start
    <2>1. CASE status' = "loop"
      <3>1. \A k \in Fatal(tree, call) : ~(k \in 1 .. Passed(tree, off'))
        BY <1>1, <1>4, <2>1, StartPasses
      <3> QED
        BY <1>2, <2>1, <3>1 DEF FatalInv
    <2>2. CASE status' # "loop"
      <3>1. status' = "notfound" /\ Top = NoOffset /\ call = "reserved"
        BY <1>4, <2>2, StartKeeps DEF ByNextNode
      <3> QED
        BY <1>2, <3>1 DEF FatalInv
    <2> QED
      BY <2>1, <2>2
  <1>5. CASE MemoryNode \/ ReservedNode
    <2>1. Go /\ Steps /\ status = "loop" /\ \A k \in Fatal(tree, call) : ~(k \in 1 .. Passed(tree, off))
      BY <1>5 DEF MemoryNode, ReservedNode, Steps, Go, ByPath, FatalInv
    <2>2. /\ off \in Chosen(tree, call) => StoreRegs(Tolerated(call))
          /\ off \notin Chosen(tree, call) => status' = status
      <3>1. CASE MemoryNode
        <4>1. call = "memory" /\ Chosen(tree, call) = MemoryNodes(tree)
          BY <3>1 DEF MemoryNode, Chosen
        <4>2. off \in Chosen(tree, call) <=> node_is_memory(tree, off)
          BY <4>1, AtNode DEF MemoryNodes
        <4> QED
          BY <3>1, <4>1, <4>2 DEF MemoryNode, Tolerated
      <3>2. CASE ReservedNode
        <4>1. call = "reserved" /\ call \in ByPath /\ Chosen(tree, call) = Children(tree, Top)
          BY <3>2 DEF ReservedNode, Chosen, Top, ByPath
        <4>2. off \in Chosen(tree, call)
          BY <2>1, <4>1 DEF WalkInv, Go
        <4> QED
          BY <3>2, <4>1, <4>2 DEF ReservedNode, Tolerated
      <3> QED
        BY <1>5, <3>1, <3>2
    <2>3. off \notin Fatal(tree, call) => status' = status
      BY <2>1, <2>2, RegsTaken DEF Fatal, ErrorAt
    <2>4. off \in Fatal(tree, call) => status' = ErrorAt(tree, off)
      BY <2>1, <2>2, RegsTaken DEF Fatal, ErrorAt
    <2>5. CASE off \notin Fatal(tree, call)
      <3>1. \A k \in Fatal(tree, call) : ~(k \in 1 .. Passed(tree, off'))
        BY <1>1, <2>1, <2>5, LoopMisses
      <3> QED
        BY <1>2, <2>1, <2>3, <2>5, <3>1 DEF FatalInv
    <2>6. CASE off \in Fatal(tree, call)
      <3>1. \A k \in Fatal(tree, call) : off <= k
        BY <1>1, <2>1, <2>6, LoopMeets
      <3>2. status' \in Results \ {"ok", "nospace"}
        BY <2>4, <2>6, RegListErrors DEF Fatal, ErrorAt, Tolerated
      <3> QED
        BY <1>2, <2>4, <2>6, <3>1, <3>2 DEF FatalInv, Results
    <2> QED
      BY <2>5, <2>6
  <1>6. CASE Return
    <2>1. status = "loop" /\ off = NoOffset /\ n' = n /\ status' = FullResult(n, cap)
      BY <1>6 DEF Return, FullResult
    <2>2. Fatal(tree, call) = {}
      BY <1>1, <2>1 DEF FatalInv, Passed
    <2>3. status' \in {"ok", "nospace"}
      BY <2>1 DEF FullResult
    <2> QED
      BY <1>2, <2>1, <2>2, <2>3 DEF FatalInv
  <1>7. CASE Finished \/ UNCHANGED scanVars
    BY <1>2, <1>7 DEF Finished, scanVars, FatalInv
  <1> QED
    BY <1>3, <1>4, <1>5, <1>6, <1>7

\* The enabled cpus among the first k nodes.
CpusUpto(t, k) == {j \in EnabledCpus(t) : j \in 1 .. k}

CountInv ==
    call = "cpu_count" =>
        /\ status = "loop" => n = Cardinality(CpusUpto(tree, Passed(tree, off)))
        /\ status = "ok" => n = Cardinality(EnabledCpus(tree))
        /\ status \in Results \ {"ok"} => status = "notfound" /\ Top = NoOffset

LEMMA CpusFacts ==
    ASSUME Given, call \in {"cpu_count", "find_hart"}
    PROVE  /\ Walked(tree, call) = Children(tree, fdt_path_offset(tree, "cpus"))
           /\ Top = fdt_path_offset(tree, "cpus")
           /\ Cpus(tree) \subseteq Walked(tree, call) /\ EnabledCpus(tree) \subseteq Cpus(tree)
           /\ Cpus(tree) \subseteq 1 .. Len(tree)
  <1>1. DOMAIN tree = 1 .. Len(tree)
    BY GivenFacts, TreeFacts
  <1>2. Walked(tree, call) = Children(tree, fdt_path_offset(tree, "cpus"))
        /\ Top = fdt_path_offset(tree, "cpus")
    BY DEF Walked, ByPath, Parent, Top
  <1> QED
    BY <1>1, <1>2 DEF Cpus, EnabledCpus, Children

LEMMA NextCount ==
    ASSUME WalkInv, CountInv, [ScanNext]_scanVars
    PROVE  CountInv'
  <1> SUFFICES ASSUME call = "cpu_count" PROVE CountInv'
    BY InputsStay DEF CountInv, inputVars
  <1>1. Given /\ EnabledCpus(tree) \subseteq Walked(tree, call) /\ EnabledCpus(tree) \subseteq 1 .. Len(tree)
    BY CpusFacts DEF WalkInv
  <1>2. PICK m \in Nat \ {0} : m = Len(tree)
    BY <1>1, GivenFacts, TreeFacts
  <1>3. UNCHANGED <<tree, call, cap>> /\ Top' = Top
    BY <1>1, InputsStay, GivenStays DEF inputVars
  <1>4. Start \/ CpuCounted \/ Return \/ Finished \/ UNCHANGED scanVars
    BY DEF ScanNext, MemoryNode, ReservedNode, ControllerNode, CpuListed, BusChild, CompatibleTried,
           CpuTried, DeviceTried, DeviceNext, StartInterrupts, AskAbove,
           InterruptsRead, StartTranslate, WindowTried, NoWindow
  <1>5. ASSUME NEW k PROVE IsFiniteSet(CpusUpto(tree, k))
    <2>1. IsFiniteSet(1 .. m)
      BY FS_Interval
    <2>2. CpusUpto(tree, k) \subseteq 1 .. m
      BY <1>1, <1>2 DEF CpusUpto
    <2> QED
      BY <2>1, <2>2, FS_Subset
  <1>6. CASE Start
    <2>1. n' = 0
      BY <1>6, StartKeeps
    <2>2. CASE status' = "loop"
      <3>1. CpusUpto(tree, Passed(tree, off')) = {}
        BY <1>1, <1>6, <2>2, StartPasses DEF CpusUpto
      <3> QED
        BY <1>3, <2>1, <2>2, <3>1, FS_EmptySet DEF CountInv, Results
    <2>3. CASE status' # "loop"
      <3>1. status' = "notfound" /\ Top = NoOffset
        BY <1>6, <2>3, StartKeeps DEF ByNextNode
      <3> QED
        BY <1>3, <3>1 DEF CountInv
    <2> QED
      BY <2>2, <2>3
  <1>7. CASE CpuCounted
    <2>1. Go /\ Steps /\ status = "loop" /\ status' = "loop" /\ call \in ByPath
          /\ n = Cardinality(CpusUpto(tree, Passed(tree, off)))
      BY <1>7 DEF CpuCounted, Steps, Go, ByPath, CountInv
    <2>2. off \in EnabledCpus(tree) <=> node_is_cpu(tree, off) /\ node_is_enabled(tree, off)
      <3>1. off \in Children(tree, fdt_path_offset(tree, "cpus"))
        BY <1>1, <2>1, CpusFacts DEF WalkInv, Go
      <3> QED
        BY <3>1 DEF EnabledCpus, Cpus
    <2>3. n' = IF off \in EnabledCpus(tree) THEN n + 1 ELSE n
      BY <1>7, <2>2 DEF CpuCounted
    <2>4. PICK a \in 0 .. m : a = Passed(tree, off) /\ a = off - 1 /\ off \in 1 .. m + 1
      BY <1>2, <2>1, StepPasses
    <2>5. PICK b \in a .. m : b = Passed(tree, off')
      BY <1>2, <2>1, <2>4, StepPasses
    <2>6. /\ off \in EnabledCpus(tree) => off \in a + 1 .. b
          /\ \A j \in EnabledCpus(tree) : j \in a + 1 .. b => j = off
      BY <1>1, <2>1, <2>4, <2>5, StepPasses
    <2>7. \A j \in 1 .. m : j \in 1 .. b <=> j \in 1 .. a \/ j \in a + 1 .. b
      OBVIOUS
    <2>8. CpusUpto(tree, b) = CpusUpto(tree, a) \cup (IF off \in EnabledCpus(tree) THEN {off} ELSE {})
      BY <1>1, <1>2, <2>6, <2>7 DEF CpusUpto
    <2>9. off \notin CpusUpto(tree, a)
      BY <2>4 DEF CpusUpto
    <2>10. n' = Cardinality(CpusUpto(tree, b))
      <3>1. CASE off \in EnabledCpus(tree)
        BY <1>5, <2>1, <2>3, <2>4, <2>8, <2>9, <3>1, FS_AddElement
      <3>2. CASE off \notin EnabledCpus(tree)
        BY <2>1, <2>3, <2>4, <2>8, <3>2
      <3> QED
        BY <3>1, <3>2
    <2> QED
      BY <1>3, <2>1, <2>5, <2>10 DEF CountInv, Results
  <1>8. CASE Return
    <2>1. status = "loop" /\ off = NoOffset /\ n' = n /\ status' = "ok"
      BY <1>8 DEF Return
    <2>2. CpusUpto(tree, Passed(tree, off)) = EnabledCpus(tree)
      BY <1>1, <2>1 DEF CpusUpto, Passed
    <2> QED
      BY <1>3, <2>1, <2>2 DEF CountInv
  <1>9. CASE Finished \/ UNCHANGED scanVars
    BY <1>3, <1>9 DEF Finished, scanVars, CountInv
  <1> QED
    BY <1>4, <1>6, <1>7, <1>8, <1>9

\* The cpus that are the boot hart.
Harts(t) == {k \in Cpus(t) : IsHart(t, k, BootHart)}

HartInv ==
    call = "find_hart" =>
        /\ status = "loop" => arr = <<>> /\ n = 0 /\ \A k \in Harts(tree) : ~(k \in 1 .. Passed(tree, off))
        /\ status = "ok" => arr = <<off>> /\ off \in Harts(tree) /\ \A k \in Harts(tree) : off <= k
        /\ status \in Results \ {"ok"} => status = "notfound" /\ arr = <<>> /\ Harts(tree) = {}

LEMMA FirstOfOne ==
    ASSUME NEW T, NEW x \in T
    PROVE  SubSeq(<<x>>, 1, 1) = <<x>>
  <1>0. <<x>> \in Seq(T) /\ Len(<<x>>) = 1
    OBVIOUS
  <1>1. PICK e \in Seq(T) : e = <<x>> /\ Len(e) = 1
    BY <1>0
  <1>2. PICK c \in Nat : c = Len(e) /\ DOMAIN e = 1 .. c /\ c = 1
    BY <1>1, SeqDomain
  <1>3. SubSeq(e, 1, c) = [q \in 1 .. c |-> e[q]]
    BY <1>2
  <1>4. SubSeq(e, 1, c) = e
    BY <1>2, <1>3
  <1> QED
    BY <1>1, <1>2, <1>4

LEMMA NextHart ==
    ASSUME WalkInv, HartInv, [ScanNext]_scanVars
    PROVE  HartInv'
  <1> SUFFICES ASSUME call = "find_hart" PROVE HartInv'
    BY InputsStay DEF HartInv, inputVars
  <1>1. /\ Given /\ Harts(tree) \subseteq Walked(tree, call) /\ Harts(tree) \subseteq 1 .. Len(tree)
        /\ Top = fdt_path_offset(tree, "cpus") /\ Walked(tree, call) = Children(tree, Top)
        /\ IsTree(tree) /\ cap \in Nat \ {0}
    BY CpusFacts, GivenFacts DEF WalkInv, Harts
  <1>2. PICK m \in Nat \ {0} : m = Len(tree)
    BY <1>1, GivenFacts, TreeFacts
  <1>3. UNCHANGED <<tree, call, cap>> /\ Top' = Top
    BY <1>1, InputsStay, GivenStays DEF inputVars
  <1>4. Start \/ CpuTried \/ Return \/ Finished \/ UNCHANGED scanVars
    BY DEF ScanNext, MemoryNode, ReservedNode, ControllerNode, CpuListed, BusChild, CompatibleTried,
           CpuCounted, DeviceTried, DeviceNext, StartInterrupts, AskAbove,
           InterruptsRead, StartTranslate, WindowTried, NoWindow
  <1>5. CASE Start
    <2>1. n' = 0 /\ arr' = <<>>
      BY <1>5, StartKeeps
    <2>2. CASE status' = "loop"
      <3>1. \A k \in Harts(tree) : ~(k \in 1 .. Passed(tree, off'))
        BY <1>1, <1>5, <2>2, StartPasses
      <3> QED
        BY <1>3, <2>1, <2>2, <3>1 DEF HartInv, Results
    <2>3. CASE status' # "loop"
      <3>1. status' = "notfound" /\ Top = NoOffset
        BY <1>5, <2>3, StartKeeps DEF ByNextNode
      <3>2. Harts(tree) = {}
        BY <1>1, <3>1, ChildrenFacts
      <3> QED
        BY <1>3, <2>1, <3>1, <3>2 DEF HartInv
    <2> QED
      BY <2>2, <2>3
  <1>6. CASE CpuTried
    <2>1. Go /\ status = "loop" /\ call \in ByPath /\ arr = <<>> /\ n = 0
          /\ \A k \in Harts(tree) : ~(k \in 1 .. Passed(tree, off))
      BY <1>6 DEF CpuTried, Go, ByPath, HartInv
    <2>2. off \in Harts(tree) <=> IsHart(tree, off, BootHart)
      <3>1. off \in Children(tree, fdt_path_offset(tree, "cpus"))
        BY <1>1, <2>1 DEF WalkInv, Go
      <3> QED
        BY <3>1 DEF Harts, Cpus, IsHart
    <2>3. CASE IsHart(tree, off, BootHart)
      <3>1. Store(<<off>>) /\ status' = "ok" /\ off' = off
        BY <1>6, <2>3 DEF CpuTried
      <3>2. PICK o \in 1 .. m : o = off
        BY <1>1, <1>2, <2>2, <2>3
      <3>3. \A k \in Harts(tree) : off <= k
        <4>1. ASSUME NEW k \in Harts(tree) PROVE o <= k
          <5>1. k \in 1 .. m /\ ~(k \in 1 .. o - 1)
            BY <1>1, <1>2, <2>1, <3>2 DEF Passed, NoOffset
          <5> QED
            BY <5>1
        <4> QED
          BY <3>2, <4>1
      <3>4. arr' = <<off>>
        <4>1. arr \o <<off>> = <<off>> /\ Len(arr) + Len(<<off>>) = 1 /\ min_int(1, cap) = 1
          BY <1>1, <2>1 DEF min_int
        <4>2. arr' = SubSeq(<<o>>, 1, 1)
          BY <3>1, <3>2, <4>1 DEF Store
        <4> QED
          BY <3>2, <4>2, FirstOfOne
      <3> QED
        BY <1>3, <2>2, <2>3, <3>1, <3>3, <3>4 DEF HartInv, Results
    <2>4. CASE ~IsHart(tree, off, BootHart)
      <3>1. Steps /\ Nothing /\ status' = status
        BY <1>6, <2>1, <2>4 DEF CpuTried, Steps
      <3>2. \A k \in Harts(tree) : ~(k \in 1 .. Passed(tree, off'))
        BY <1>1, <2>1, <2>2, <2>4, <3>1, LoopMisses
      <3> QED
        BY <1>3, <2>1, <3>1, <3>2 DEF HartInv, Results, Nothing
    <2> QED
      BY <2>3, <2>4
  <1>7. CASE Return
    <2>1. status = "loop" /\ off = NoOffset /\ arr' = arr /\ status' = "notfound"
      BY <1>7 DEF Return
    <2>2. Harts(tree) = {} /\ arr = <<>>
      BY <1>1, <2>1 DEF HartInv, Passed
    <2> QED
      BY <1>3, <2>1, <2>2 DEF HartInv
  <1>8. CASE Finished \/ UNCHANGED scanVars
    BY <1>3, <1>8 DEF Finished, scanVars, HartInv
  <1> QED
    BY <1>4, <1>5, <1>6, <1>7, <1>8

-----------------------------------------------------------------------------
(* The answers.                                                             *)

\* A list that was cut has NOSPACE for its result.
FullInv ==
    call \in {"controllers", "cpu_list"} /\ status \in {"ok", "nospace"} => status = FullResult(n, cap)

LEMMA NextFull ==
    ASSUME WalkInv, FullInv, [ScanNext]_scanVars
    PROVE  FullInv'
  <1> SUFFICES ASSUME call \in {"controllers", "cpu_list"}, status' \in {"ok", "nospace"}
               PROVE  status' = FullResult(n', cap)
    BY InputsStay DEF FullInv, inputVars
  <1>1. status # "found"
    BY DEF WalkInv
  <1>2. Start \/ ControllerNode \/ CpuListed \/ Return \/ Finished \/ UNCHANGED scanVars
    BY <1>1 DEF ScanNext, MemoryNode, ReservedNode, CpuCounted, CpuTried, DeviceTried, DeviceNext, BusChild,
           CompatibleTried, StartInterrupts, AskAbove, InterruptsRead, StartTranslate, WindowTried, NoWindow
  <1>3. ~Start
    BY DEF Start
  <1>4. ~ControllerNode /\ ~CpuListed
    BY DEF ControllerNode, CpuListed, Go
  <1>5. CASE Return
    BY <1>5 DEF Return, FullResult
  <1>6. CASE Finished \/ UNCHANGED scanVars
    <2>1. status' = status /\ n' = n
      BY <1>6 DEF Finished, scanVars
    <2> QED
      BY <2>1 DEF FullInv
  <1> QED
    BY <1>2, <1>3, <1>4, <1>5, <1>6

AnswerInv == GatherInv /\ FatalInv /\ CountInv /\ HartInv /\ FullInv

LEMMA AnswerInvHolds == ScanSpec => []AnswerInv
  <1>1. ScanInit => AnswerInv
    BY DEF ScanInit, AnswerInv, GatherInv, FatalInv, CountInv, HartInv, FullInv, Results
  <1>2. ScanInv /\ AnswerInv /\ [ScanNext]_scanVars => AnswerInv'
    <2> SUFFICES ASSUME ScanInv, AnswerInv, [ScanNext]_scanVars PROVE AnswerInv'
      OBVIOUS
    <2>1. WalkInv /\ GatherInv /\ FatalInv /\ CountInv /\ HartInv /\ FullInv
      BY DEF ScanInv, AnswerInv
    <2>2. GatherInv'
      BY <2>1, NextGather
    <2>3. FatalInv'
      BY <2>1, NextFatal
    <2>4. CountInv'
      BY <2>1, NextCount
    <2>5. HartInv'
      BY <2>1, NextHart
    <2>6. FullInv'
      BY <2>1, NextFull
    <2> QED
      BY <2>2, <2>3, <2>4, <2>5, <2>6 DEF AnswerInv
  <1> QED
    BY <1>1, <1>2, ScanInvHolds, PTL DEF ScanSpec

\* What the whole tree gives.
LEMMA AllFound ==
    ASSUME Given, call \in Gathering
    PROVE  /\ Found(tree, call, Len(tree)) = FlattenSeq(Pieces(tree, call))
           /\ Gathered(tree, call, Len(tree), cap, arr, n) =>
                arr = Cut(FlattenSeq(Pieces(tree, call))) /\ n = Len(FlattenSeq(Pieces(tree, call)))
  <1>1. Pieces(tree, call) \in [1 .. Len(tree) -> Seq(Stored)]
    BY PiecesType
  <1>2. Pieces(tree, call) = [j \in 1 .. Len(tree) |-> Pieces(tree, call)[j]]
    BY <1>1
  <1>3. Found(tree, call, Len(tree)) = FlattenSeq(Pieces(tree, call))
    BY <1>2 DEF Found, Upto
  <1> QED
    BY <1>3 DEF Gathered, Kept, Cut

\* A scan over register lists that has come to its end agrees with Collected.
LEMMA CollectedIs ==
    ASSUME Given, GatherInv, FatalInv, Returned, call \in {"memory", "reserved"},
           call = "reserved" => Top # NoOffset
    PROVE  Collected(tree, Chosen(tree, call), Tolerated(call), cap) = [err |-> status, list |-> Handed]
  <1>1. call \in Gathering /\ DOMAIN tree = 1 .. Len(tree) /\ Len(tree) \in Nat
    BY GivenFacts, TreeFacts DEF Gathering
  <1>2. PICK all : all = RegsOfAll(tree, Chosen(tree, call))
    OBVIOUS
  <1>3. FlattenSeq(Pieces(tree, call)) = all
    <2>1. \A k : Taken(tree, call, k) = decode_reg_list(tree, k, DTB_MAX_REGS).list
      BY DEF Taken
    <2>2. Pieces(tree, call) = [k \in DOMAIN tree |-> IF k \in Chosen(tree, call)
                                 THEN decode_reg_list(tree, k, DTB_MAX_REGS).list ELSE <<>>]
      BY <1>1, <2>1 DEF Pieces
    <2> QED
      BY <1>2, <2>2 DEF RegsOfAll
  <1>4. Fatal(tree, call) \in SUBSET Nat
        /\ Fatal(tree, call) = {k \in Chosen(tree, call) :
               decode_reg_list(tree, k, DTB_MAX_REGS).err \notin Tolerated(call)}
    BY <1>1, FatalFacts DEF Fatal, ErrorAt
  <1>5. Collected(tree, Chosen(tree, call), Tolerated(call), cap) =
          IF Fatal(tree, call) # {}
          THEN [err |-> decode_reg_list(tree, Min(Fatal(tree, call)), DTB_MAX_REGS).err, list |-> <<>>]
          ELSE [err |-> IF Len(all) > cap THEN "nospace" ELSE "ok", list |-> Cut(all)]
    BY <1>2, <1>4 DEF Collected, Cut
  <1>6. CASE status \in {"ok", "nospace"}
    <2>1. Fatal(tree, call) = {} /\ status = FullResult(n, cap)
      BY <1>6 DEF FatalInv
    <2>2. arr = Cut(all) /\ n = Len(all)
      BY <1>1, <1>3, <1>6, AllFound DEF GatherInv
    <2> QED
      BY <1>5, <1>6, <2>1, <2>2 DEF Handed, FullResult
  <1>7. CASE status \notin {"ok", "nospace"}
    <2>1. PICK k \in Fatal(tree, call) : status = ErrorAt(tree, k) /\ \A j \in Fatal(tree, call) : k <= j
      BY <1>7 DEF FatalInv, Returned, Results
    <2>2. Min(Fatal(tree, call)) = k
      <3>1. Min(Fatal(tree, call)) \in Fatal(tree, call) /\ Min(Fatal(tree, call)) <= k
        BY <1>4, <2>1, MinFacts
      <3>2. k <= Min(Fatal(tree, call)) /\ k \in Nat /\ Min(Fatal(tree, call)) \in Nat
        BY <1>4, <2>1, <3>1
      <3> QED
        BY <3>1, <3>2
    <2> QED
      BY <1>5, <1>7, <2>1, <2>2 DEF Handed, ErrorAt
  <1> QED
    BY <1>6, <1>7

\* Whatever a walk over the tree returns is what the whole tree holds, cut to the buffer.
LEMMA AnswersAll ==
    ASSUME ScanInv, AnswerInv
    PROVE  ScansAnswer
  <1>1. /\ Given /\ WalkInv /\ GatherInv /\ FatalInv /\ CountInv /\ HartInv /\ FullInv
        /\ IsTree(tree) /\ DOMAIN tree = 1 .. Len(tree)
    BY GivenFacts, TreeFacts DEF ScanInv, WalkInv, AnswerInv
  <1>2. ASSUME Returned, call = "memory"
        PROVE  dtb_memory_regions(tree, cap) = [err |-> status, list |-> Handed]
    <2>1. Chosen(tree, call) = MemoryNodes(tree) /\ Tolerated(call) = {"ok", "nospace"}
      BY <1>2 DEF Chosen, Tolerated
    <2>2. Collected(tree, Chosen(tree, call), Tolerated(call), cap) = [err |-> status, list |-> Handed]
      BY <1>1, <1>2, CollectedIs
    <2> QED
      BY <2>1, <2>2 DEF dtb_memory_regions
  <1>3. ASSUME Returned, call = "reserved"
        PROVE  dtb_reserved_memory_regions(tree, cap) = [err |-> status, list |-> Handed]
    <2>1. /\ Top = fdt_path_offset(tree, "reserved-memory")
          /\ Chosen(tree, call) = ReservedNodes(tree)
          /\ Tolerated(call) = {"ok", "nospace", "notfound"}
      BY <1>3 DEF Chosen, Tolerated, Top, Parent, ReservedNodes
    <2>2. CASE Top = NoOffset
      <3>1. status = "notfound" /\ Handed = <<>>
        BY <1>1, <1>3, <2>2 DEF WalkInv, ByPath, Returned, Results, Handed
      <3> QED
        BY <2>1, <2>2, <3>1 DEF dtb_reserved_memory_regions
    <2>3. CASE Top # NoOffset
      <3>1. Collected(tree, Chosen(tree, call), Tolerated(call), cap) = [err |-> status, list |-> Handed]
        BY <1>1, <1>3, <2>3, CollectedIs
      <3> QED
        BY <2>1, <2>3, <3>1 DEF dtb_reserved_memory_regions
    <2> QED
      BY <2>2, <2>3
  <1>4. ASSUME Returned, call = "controllers"
        PROVE  Gives(InTreeOrder(ControllersOf(tree), LAMBDA k : dtb_interrupt_controller_read(tree, k)))
    <2>1. status \in {"ok", "nospace"} /\ call \in Gathering
      BY <1>1, <1>4 DEF GatherInv, Returned, Results, Gathering
    <2>2. Gives(FlattenSeq(Pieces(tree, call)))
      BY <1>1, <1>4, <2>1, AllFound DEF GatherInv, FullInv, FullResult, Gives
    <2>3. Pieces(tree, call) = [k \in DOMAIN tree |-> IF k \in ControllersOf(tree)
                                 THEN <<dtb_interrupt_controller_read(tree, k)>> ELSE <<>>]
      <3>1. /\ Chosen(tree, call) = ControllersOf(tree)
            /\ \A k : Taken(tree, call, k) = <<dtb_interrupt_controller_read(tree, k)>>
        BY <1>4 DEF Chosen, Taken
      <3> QED
        BY <1>1, <3>1 DEF Pieces
    <2> QED
      BY <2>2, <2>3 DEF InTreeOrder
  <1>5. ASSUME Returned, call = "cpu_count"
        PROVE  dtb_get_cpu_count(tree) = [err |-> status, count |-> n]
    <2>1. Top = fdt_path_offset(tree, "cpus") /\ call \in ByPath /\ status # "start"
      BY <1>1, <1>5, CpusFacts DEF ByPath, Returned, Results
    <2>2. CASE status = "ok"
      <3>1. Top # NoOffset /\ n = Cardinality(EnabledCpus(tree))
        BY <1>1, <1>5, <2>1, <2>2 DEF WalkInv, CountInv
      <3> QED
        BY <2>1, <2>2, <3>1 DEF dtb_get_cpu_count
    <2>3. CASE status # "ok"
      <3>1. status = "notfound" /\ Top = NoOffset
        BY <1>1, <1>5, <2>3 DEF CountInv, Returned
      <3>2. n = 0
        BY <1>1, <2>1, <3>1 DEF WalkInv
      <3> QED
        BY <2>1, <3>1, <3>2 DEF dtb_get_cpu_count
    <2> QED
      BY <2>2, <2>3
  <1>6. ASSUME Returned, call = "cpu_list"
        PROVE  IF fdt_path_offset(tree, "cpus") = NoOffset THEN status = "notfound" /\ arr = <<>>
               ELSE Gives(InTreeOrder(EnabledCpus(tree), LAMBDA k : dtb_cpu_read(tree, k)))
    <2>1. call \in Gathering /\ call \in ByPath /\ status # "start" /\ Top = fdt_path_offset(tree, "cpus")
      BY <1>6 DEF Gathering, ByPath, Returned, Results, Top, Parent
    <2>2. CASE Top = NoOffset
      <3>1. status = "notfound" /\ arr = <<>>
        BY <1>1, <2>1, <2>2 DEF WalkInv
      <3> QED
        BY <2>1, <2>2, <3>1
    <2>3. CASE Top # NoOffset
      <3>1. Chosen(tree, call) = EnabledCpus(tree)
            /\ \A k : Taken(tree, call, k) = <<dtb_cpu_read(tree, k)>>
        BY <1>6 DEF Chosen, Taken
      <3>2. Pieces(tree, call) = [k \in DOMAIN tree |-> IF k \in EnabledCpus(tree)
                                   THEN <<dtb_cpu_read(tree, k)>> ELSE <<>>]
        BY <1>1, <3>1 DEF Pieces
      <3>3. status \in {"ok", "nospace"}
        BY <1>1, <1>6, <2>3 DEF GatherInv, Returned, Results, Gathering
      <3>4. Gives(FlattenSeq(Pieces(tree, call)))
        BY <1>1, <1>6, <2>1, <3>3, AllFound DEF GatherInv, FullInv, FullResult, Gives
      <3>5. Gives(InTreeOrder(EnabledCpus(tree), LAMBDA k : dtb_cpu_read(tree, k)))
        BY <3>2, <3>4 DEF InTreeOrder
      <3> QED
        BY <2>1, <2>3, <3>5
    <2> QED
      BY <2>2, <2>3
  <1>7. ASSUME Returned, call = "find_hart"
        PROVE  /\ arr = (IF status = "ok" THEN <<dtb_cpu_find_hart(tree, BootHart)>> ELSE <<>>)
               /\ status = "notfound" <=> dtb_cpu_find_hart(tree, BootHart) = NoOffset
    <2>1. PICK S \in SUBSET Nat : S = Harts(tree) /\ dtb_cpu_find_hart(tree, BootHart) = FirstOf(S)
      <3>1. Harts(tree) \in SUBSET Nat
        BY <1>1, <1>7, CpusFacts, GivenFacts, TreeFacts DEF Harts
      <3> QED
        BY <3>1 DEF Harts, dtb_cpu_find_hart
    <2>2. CASE status = "ok"
      <3>1. arr = <<off>> /\ off \in S /\ \A k \in S : off <= k
        BY <1>1, <1>7, <2>1, <2>2 DEF HartInv
      <3>2. FirstOf(S) \in S /\ FirstOf(S) <= off /\ FirstOf(S) # NoOffset
        BY <3>1, FirstFacts
      <3>3. FirstOf(S) = off
        <4>1. off <= FirstOf(S) /\ off \in Nat /\ FirstOf(S) \in Nat
          BY <3>1, <3>2
        <4> QED
          BY <3>2, <4>1
      <3> QED
        BY <2>1, <2>2, <3>1, <3>2, <3>3
    <2>3. CASE status # "ok"
      <3>1. status = "notfound" /\ arr = <<>> /\ S = {}
        BY <1>1, <1>7, <2>1, <2>3 DEF HartInv, Returned
      <3> QED
        BY <2>1, <3>1, FirstFacts
    <2> QED
      BY <2>2, <2>3
  <1>8. ASSUME status = "ok", call = "bus"
        PROVE  arr = Cut(InOrder(Children(tree, fdt_path_offset(tree, "soc"))))
    <2>1. /\ call \in Gathering
          /\ Chosen(tree, call) = Children(tree, fdt_path_offset(tree, "soc"))
          /\ \A k : Taken(tree, call, k) = <<k>>
      BY <1>8 DEF Gathering, Chosen, Taken, Parent
    <2>2. arr = Cut(FlattenSeq(Pieces(tree, call)))
      BY <1>1, <1>8, <2>1, AllFound DEF GatherInv
    <2>3. Pieces(tree, call) = [k \in DOMAIN tree |->
             IF k \in Children(tree, fdt_path_offset(tree, "soc")) THEN <<k>> ELSE <<>>]
      BY <1>1, <2>1 DEF Pieces
    <2> QED
      BY <2>2, <2>3 DEF InOrder, InTreeOrder
  <1>9. ASSUME status = "ok", call = "compatible"
        PROVE  arr = Cut(InOrder({k \in DOMAIN tree : compat_has(tree, k, Needle)}))
    <2>1. /\ call \in Gathering
          /\ Chosen(tree, call) = {k \in DOMAIN tree : compat_has(tree, k, Needle)}
          /\ \A k : Taken(tree, call, k) = <<k>>
      BY <1>9 DEF Gathering, Chosen, Taken
    <2>2. arr = Cut(FlattenSeq(Pieces(tree, call)))
      BY <1>1, <1>9, <2>1, AllFound DEF GatherInv
    <2>3. Pieces(tree, call) = [k \in DOMAIN tree |->
             IF k \in {j \in DOMAIN tree : compat_has(tree, j, Needle)} THEN <<k>> ELSE <<>>]
      BY <1>1, <2>1 DEF Pieces
    <2> QED
      BY <2>2, <2>3 DEF InOrder, InTreeOrder
  <1> QED
    BY <1>2, <1>3, <1>4, <1>5, <1>6, <1>7, <1>8, <1>9 DEF ScansAnswer

\* The loops over fdt_next_node and over subnodes come to every node they should, in
\* spite of the depth counter that is thrown away, and stop only at an error that is not
\* tolerated, and say NOSPACE when the buffer cuts the answer (dtb_memory_regions,
\* dtb_reserved_memory_regions,
\* dtb_interrupt_controllers_scan, the cpu queries, dtb_bus_walk, dtb_find_compatible_n).
THEOREM ScansFindAll == ScanSpec => []ScansAnswer
  <1>1. ScanInv /\ AnswerInv => ScansAnswer
    BY AnswersAll
  <1> QED
    BY <1>1, ScanInvHolds, AnswerInvHolds, PTL

-----------------------------------------------------------------------------
(* Interrupts.                                                              *)

\* On the way from a node to a deeper one behind it the depth just above the latter comes.
LEMMA DepthsComeBetween ==
    ASSUME NEW t, IsTree(t), NEW a \in 1 .. Len(t), NEW b \in 1 .. a - 1, t[b].depth < t[a].depth
    PROVE  \E c \in b .. a - 1 : t[c].depth = t[a].depth - 1
  <1>1. PICK m \in Nat \ {0} : m = Len(t)
    BY TreeFacts
  <1>2. PICK d \in Nat : d = t[a].depth
    BY TreeFacts
  <1>3. \A k \in 1 .. m : t[k].depth \in Nat
    BY <1>1, TreeFacts
  <1>4. PICK S : S = {k \in b .. a - 1 : t[k].depth < d}
    OBVIOUS
  <1>5. S \in SUBSET Nat /\ (\A x \in S : x <= a) /\ b \in S /\ a \in Nat
    BY <1>1, <1>2, <1>4
  <1>6. PICK c \in S : \A y \in S : y <= c
    BY <1>5, MaxFacts
  <1>7. c \in b .. a - 1 /\ t[c].depth < d /\ c \in 1 .. m /\ c + 1 \in 2 .. m /\ (c + 1) - 1 = c
    BY <1>1, <1>4, <1>6
  <1>8. t[c + 1].depth <= t[c].depth + 1
    BY <1>1, <1>7, TreeFacts
  <1>9. t[c + 1].depth >= d
    <2>1. CASE c + 1 = a
      BY <1>2, <2>1
    <2>2. CASE c + 1 # a
      <3>1. c + 1 \in b .. a - 1 /\ c + 1 \notin S
        BY <1>6, <1>7, <2>2
      <3>2. ~(t[c + 1].depth < d)
        BY <1>4, <3>1
      <3> QED
        BY <1>2, <1>3, <1>7, <3>2
    <2> QED
      BY <2>1, <2>2
  <1>10. t[c].depth = d - 1
    BY <1>2, <1>3, <1>7, <1>8, <1>9, SMTT(30)
  <1> QED
    BY <1>2, <1>7, <1>10

\* At or above a node, as a function of the tree.
Above(t, k) == {a \in 1 .. k : \A b \in a + 1 .. k : t[b].depth > t[a].depth}

\* Going to the parent misses no node above.
LEMMA ParentAbove ==
    ASSUME NEW t, IsTree(t), NEW k \in 1 .. Len(t), NEW a \in Above(t, k)
    PROVE  \/ fdt_parent_offset(t, a) = NoOffset /\ \A e \in Above(t, k) : a <= e
           \/ /\ fdt_parent_offset(t, a) \in Above(t, k) /\ fdt_parent_offset(t, a) < a
              /\ \A e \in Above(t, k) : e <= fdt_parent_offset(t, a) \/ a <= e
  <1>1. PICK m \in Nat \ {0} : m = Len(t) /\ k \in 1 .. m /\ \A j \in 1 .. m : t[j].depth \in Nat
    BY TreeFacts
  <1>2. a \in 1 .. k /\ a \in 1 .. m /\ \A b \in a + 1 .. k : t[b].depth > t[a].depth
    BY <1>1 DEF Above
  <1>3. PICK d \in Nat : d = t[a].depth
    BY <1>1, <1>2
  <1>4. ASSUME NEW e \in Above(t, k), e < a
        PROVE  e \in 1 .. a - 1 /\ t[e].depth < d
    <2>1. e \in 1 .. k /\ \A b \in e + 1 .. k : t[b].depth > t[e].depth
      BY DEF Above
    <2>2. a \in e + 1 .. k /\ e \in 1 .. a - 1
      BY <1>2, <1>4, <2>1
    <2> QED
      BY <1>1, <1>3, <2>1, <2>2
  <1>5. ASSUME NEW b \in 1 .. a - 1, t[b].depth < d
        PROVE  \E c \in b .. a - 1 : t[c].depth = d - 1
    BY <1>1, <1>2, <1>3, <1>5, DepthsComeBetween
  <1>6. PICK p : p = fdt_parent_offset(t, a)
    OBVIOUS
  <1>7. CASE p = NoOffset
    <2>1. {j \in 1 .. a - 1 : t[j].depth = t[a].depth - 1} = {}
      <3>1. PICK S : S = {j \in 1 .. a - 1 : t[j].depth = t[a].depth - 1}
        OBVIOUS
      <3>2. p = IF S = {} THEN NoOffset ELSE Max(S)
        BY <1>6, <3>1 DEF fdt_parent_offset
      <3>3. S # {} => Max(S) \in S
        <4>1. S \in SUBSET Nat /\ a \in Nat /\ \A x \in S : x <= a
          BY <1>2, <3>1
        <4> QED
          BY <4>1, MaxFacts
      <3>4. NoOffset \notin S
        BY <3>1 DEF NoOffset
      <3> QED
        BY <1>7, <3>1, <3>2, <3>3, <3>4
    <2>2. ASSUME NEW e \in Above(t, k) PROVE a <= e
      <3> SUFFICES ASSUME e < a PROVE FALSE
        BY <1>2 DEF Above
      <3>1. e \in 1 .. a - 1 /\ t[e].depth < d
        BY <1>4
      <3>2. PICK c \in e .. a - 1 : t[c].depth = d - 1
        BY <1>5, <3>1
      <3>3. c \in 1 .. a - 1
        BY <1>2, <3>1
      <3> QED
        BY <1>3, <2>1, <3>2, <3>3
    <2> QED
      BY <1>6, <1>7, <2>2
  <1>8. CASE p # NoOffset
    <2>1. /\ p \in 1 .. a - 1 /\ t[p].depth = d - 1
          /\ \A j \in 1 .. a - 1 : t[j].depth = d - 1 => j <= p
      BY <1>1, <1>2, <1>3, <1>6, <1>8, ParentFacts
    <2>2. ASSUME NEW b \in p + 1 .. a - 1 PROVE ~(t[b].depth < d)
      <3> SUFFICES ASSUME t[b].depth < d PROVE FALSE
        OBVIOUS
      <3>1. b \in 1 .. a - 1
        BY <1>2, <2>1
      <3>2. PICK c \in b .. a - 1 : t[c].depth = d - 1
        BY <1>5, <3>1
      <3>3. c \in 1 .. a - 1 /\ c > p
        BY <1>2, <2>1, <3>1
      <3> QED
        BY <2>1, <3>2, <3>3
    <2>3. ASSUME NEW b \in p + 1 .. k PROVE t[b].depth > t[p].depth
      <3>1. b \in 1 .. m /\ p \in 1 .. m /\ (b \in p + 1 .. a - 1 \/ b = a \/ b \in a + 1 .. k)
        BY <1>1, <1>2, <2>1
      <3>2. t[b].depth \in Nat
        BY <1>1, <3>1
      <3>3. CASE b \in p + 1 .. a - 1
        BY <2>1, <2>2, <3>2, <3>3
      <3>4. CASE b = a
        BY <1>3, <2>1, <3>4
      <3>5. CASE b \in a + 1 .. k
        BY <1>2, <1>3, <2>1, <3>2, <3>5
      <3> QED
        BY <3>1, <3>3, <3>4, <3>5
    <2>4. p \in Above(t, k) /\ p < a
      BY <1>2, <2>1, <2>3 DEF Above
    <2>5. ASSUME NEW e \in Above(t, k) PROVE e <= p \/ a <= e
      <3> SUFFICES ASSUME p < e, e < a PROVE FALSE
        BY <1>2, <2>1 DEF Above
      <3>1. e \in 1 .. a - 1 /\ t[e].depth < d
        BY <1>4
      <3>2. e \in p + 1 .. a - 1
        BY <2>1, <3>1
      <3> QED
        BY <2>2, <3>1, <3>2
    <2> QED
      BY <1>6, <2>4, <2>5
  <1> QED
    BY <1>7, <1>8

\* The walk to the interrupt parent is at a node above, and has passed no name.
NamesAt(t, k) == {a \in Above(t, k) : HasProp(t, a, "interrupt-parent")}

Climbing(t, k, o) ==
    \/ o = NoOffset /\ NamesAt(t, k) = {}
    \/ o \in Above(t, k) /\ \A a \in NamesAt(t, k) : a <= o

InterruptInv ==
    call = "interrupts" =>
        /\ status \in {"start", "loop"} => arr = <<>> /\ n = 0
        /\ status = "loop" => Climbing(tree, node, off)
        /\ InterruptsGrouped

LEMMA NextClimb ==
    ASSUME Given, off # NoOffset, Climbing(tree, node, off), ~HasProp(tree, off, "interrupt-parent")
    PROVE  Climbing(tree, node, fdt_parent_offset(tree, off))
  <1>1. IsTree(tree) /\ node \in 1 .. Len(tree) /\ off \in Above(tree, node)
        /\ \A a \in NamesAt(tree, node) : a <= off
    BY GivenFacts DEF Climbing
  <1>2. off \in Nat /\ \A e \in Above(tree, node) : e \in Nat
    BY <1>1 DEF Above
  <1>3. PICK p : p = fdt_parent_offset(tree, off)
    OBVIOUS
  <1>4. \/ p = NoOffset /\ \A e \in Above(tree, node) : off <= e
        \/ /\ p \in Above(tree, node) /\ p < off
           /\ \A e \in Above(tree, node) : e <= p \/ off <= e
    BY <1>1, <1>3, ParentAbove
  <1>5. ASSUME NEW a \in NamesAt(tree, node) PROVE a # off /\ a <= off /\ a \in Above(tree, node)
    BY <1>1 DEF NamesAt
  <1>6. ASSUME NEW a \in NamesAt(tree, node) PROVE ~(off <= a)
    <2>1. a # off /\ a <= off /\ a \in Nat
      BY <1>2, <1>5
    <2> QED
      BY <1>2, <2>1
  <1>7. CASE p = NoOffset /\ \A e \in Above(tree, node) : off <= e
    <2>1. NamesAt(tree, node) = {}
      BY <1>5, <1>6, <1>7
    <2> QED
      BY <1>3, <1>7, <2>1 DEF Climbing
  <1>8. CASE p \in Above(tree, node) /\ \A e \in Above(tree, node) : e <= p \/ off <= e
    <2>1. \A a \in NamesAt(tree, node) : a <= p
      BY <1>5, <1>6, <1>8
    <2> QED
      BY <1>3, <1>8, <2>1 DEF Climbing
  <1> QED
    BY <1>4, <1>7, <1>8

\* Where the walk ends: the name is the first cell there, if there is one.
LEMMA NameFound ==
    ASSUME Given, Climbing(tree, node, off),
           off = NoOffset \/ get_u32_prop(tree, off, "interrupt-parent").err # "notfound"
    PROVE  Name = IF get_u32_prop(tree, off, "interrupt-parent").err = "ok"
                  THEN get_u32_prop(tree, off, "interrupt-parent").val ELSE 0
  <1>1. IsTree(tree) /\ node \in 1 .. Len(tree) /\ Len(tree) \in Nat
    BY GivenFacts, TreeFacts
  <1>2. Naming = NamesAt(tree, node)
    BY DEF Naming, NamesAt, AtOrAbove, Above
  <1>3. NamesAt(tree, node) \in SUBSET (1 .. node)
    BY DEF NamesAt, Above
  <1>4. CASE off = NoOffset
    <2>1. NamesAt(tree, node) = {}
      BY <1>1, <1>4 DEF Climbing, Above, NoOffset
    <2>2. Name = 0
      BY <1>2, <2>1 DEF Name
    <2>3. ~HasProp(tree, off, "interrupt-parent")
      BY <1>1, <1>4 DEF HasProp, IsNode, NoOffset
    <2>4. get_u32_prop(tree, off, "interrupt-parent").err = "notfound"
      BY <2>3 DEF get_u32_prop
    <2> QED
      BY <2>2, <2>4
  <1>5. CASE off # NoOffset
    <2>1. off \in Above(tree, node) /\ \A a \in NamesAt(tree, node) : a <= off
      BY <1>5 DEF Climbing
    <2>2. HasProp(tree, off, "interrupt-parent")
      BY <1>5 DEF get_u32_prop
    <2>3. off \in NamesAt(tree, node)
      BY <2>1, <2>2 DEF NamesAt
    <2>4. PICK S : S = NamesAt(tree, node)
      OBVIOUS
    <2>5. S \in SUBSET Nat /\ S # {} /\ off \in Nat /\ off \in S /\ \A a \in S : a <= off
      BY <1>3, <2>1, <2>3, <2>4
    <2>6. PICK m : m = Max(S) /\ m \in S /\ \A a \in S : a <= m
      BY <2>5, MaxFacts
    <2>7. Max(S) = off
      <3>1. m \in Nat /\ m <= off /\ off <= m
        BY <2>5, <2>6
      <3> QED
        BY <2>5, <2>6, <3>1
    <2>8. PICK cells : cells = Prop(tree, off, "interrupt-parent")
      OBVIOUS
    <2>9. Name = IF cells = <<>> THEN 0 ELSE cells[1]
      BY <1>2, <2>4, <2>5, <2>7, <2>8 DEF Name
    <2>10. PropOf(tree, off, "interrupt-parent", <<>>) = cells
      BY <2>2, <2>8 DEF PropOf
    <2>11. get_u32_prop(tree, off, "interrupt-parent") =
             IF cells = <<>> THEN [err |-> "badvalue", val |-> 0] ELSE [err |-> "ok", val |-> cells[1]]
      BY <2>2, <2>10 DEF get_u32_prop
    <2> QED
      BY <2>9, <2>11
  <1> QED
    BY <1>4, <1>5

\* Half of the cells are positive ints, or zero.
LEMMA IntFacts ==
    ASSUME NEW g \in 0 .. CellSpan - 1
    PROVE  /\ ToInt(g) > 0 <=> g \in 1 .. CellSpan \div 2 - 1
           /\ g \in 1 .. CellSpan \div 2 - 1 => ToInt(g) = g
           /\ ToInt(1) = 1 /\ 1 \in 0 .. CellSpan - 1
  <1>1. CellSpan \in Nat \ {0, 1} /\ CellSpan % 2 = 0 /\ CellSpan # 2
    BY DtbAssumption, DeviceAssumption
  <1>2. PICK h \in Nat : h = CellSpan \div 2
    BY <1>1
  <1>3. CellSpan = 2 * h /\ h >= 2
    BY <1>1, <1>2
  <1> QED
    BY <1>1, <1>2, <1>3 DEF ToInt

\* The size of a group is the count that dtb_device_read works with.
LEMMA GroupFound ==
    ASSUME Given, NEW parent, Name = IF parent.err = "ok" THEN parent.val ELSE 0
    PROVE  /\ Group \in 0 .. CellSpan - 1
           /\ ToInt(Group) = IF parent.err = "ok" THEN InterruptCells(tree, parent.val) ELSE 1
  <1>1. IsTree(tree) /\ DOMAIN tree = 1 .. Len(tree) /\ Len(tree) \in Nat
    BY GivenFacts, TreeFacts
  <1>2. ToInt(1) = 1 /\ 1 \in 0 .. CellSpan - 1
    <2>1. 0 \in 0 .. CellSpan - 1
      BY DtbAssumption
    <2> QED
      BY <2>1, IntFacts
  <1>3. PICK N : N = Named
    OBVIOUS
  <1>4. N \in SUBSET (DOMAIN tree) /\ N \in SUBSET Nat
    BY <1>1, <1>3 DEF Named
  <1>5. ASSUME parent.err # "ok" PROVE N = {}
    BY <1>3, <1>5 DEF Named
  <1>6. PICK k : k = fdt_node_offset_by_phandle(tree, parent.val, CellSpan - 1)
    OBVIOUS
  <1>7. ASSUME parent.err = "ok" PROVE k = FirstOf(N)
    <2>1. parent.val = Name
      BY <1>7
    <2>2. CASE Name \in {0, CellSpan - 1}
      <3>1. N = {} /\ k = NoOffset
        BY <1>3, <1>6, <2>1, <2>2 DEF Named, fdt_node_offset_by_phandle
      <3> QED
        BY <1>4, <3>1, FirstFacts
    <2>3. CASE Name \notin {0, CellSpan - 1}
      <3>1. N = {j \in DOMAIN tree : PropOf(tree, j, "phandle", <<>>) = <<Name>>}
        BY <1>3, <2>3 DEF Named
      <3> QED
        BY <1>6, <2>1, <2>3, <3>1 DEF fdt_node_offset_by_phandle
    <2> QED
      BY <2>2, <2>3
  <1>8. CASE N = {}
    <2>1. Group = 1
      BY <1>3, <1>8 DEF Group
    <2>2. parent.err = "ok" => k = NoOffset
      BY <1>4, <1>7, <1>8, FirstFacts
    <2>3. k = NoOffset => ~HasProp(tree, k, "#interrupt-cells")
      BY <1>1 DEF HasProp, IsNode, NoOffset
    <2>4. parent.err = "ok" => get_u32_prop(tree, k, "#interrupt-cells").err = "notfound"
      BY <2>2, <2>3 DEF get_u32_prop
    <2>5. parent.err = "ok" => InterruptCells(tree, parent.val) = 1
      BY <1>6, <2>4 DEF InterruptCells
    <2> QED
      BY <1>2, <2>1, <2>5
  <1>9. CASE N # {}
    <2>1. parent.err = "ok"
      BY <1>5, <1>9
    <2>2. k = FirstOf(N) /\ Min(N) \in N /\ FirstOf(N) = Min(N)
      BY <1>4, <1>7, <1>9, <2>1, MinFacts DEF FirstOf
    <2>3. k \in DOMAIN tree /\ k = Min(N)
      BY <1>4, <2>2
    <2>4. PICK cells : cells = PropOf(tree, k, "#interrupt-cells", <<>>)
      OBVIOUS
    <2>5. PICK u : u = get_u32_prop(tree, k, "#interrupt-cells")
      OBVIOUS
    <2>6. InterruptCells(tree, parent.val) = IF u.err = "ok" THEN ToInt(u.val) ELSE 1
      BY <1>6, <2>5 DEF InterruptCells
    <2>7. Group = IF cells = <<>> THEN 1 ELSE u.val
      BY <1>3, <1>9, <2>3, <2>4, <2>5 DEF Group, dtb_interrupt_controller_read
    <2>8. CASE cells = <<>>
      <3>1. u.err # "ok"
        BY <2>4, <2>5, <2>8 DEF get_u32_prop
      <3> QED
        BY <1>2, <2>1, <2>6, <2>7, <2>8, <3>1
    <2>9. CASE cells # <<>>
      <3>1. HasProp(tree, k, "#interrupt-cells") /\ cells = Prop(tree, k, "#interrupt-cells")
        BY <2>4, <2>9 DEF PropOf
      <3>2. u = [err |-> "ok", val |-> cells[1]]
        BY <2>4, <2>5, <2>9, <3>1 DEF get_u32_prop
      <3>3. cells \in Seq(0 .. CellSpan - 1) /\ cells # <<>>
        BY <2>3, <2>9, <3>1, GivenFacts
      <3>4. PICK c \in Nat : c = Len(cells) /\ \A q \in 1 .. c : cells[q] \in 0 .. CellSpan - 1
        BY <3>3, SeqDomain
      <3>5. c # 0
        BY <3>3, <3>4
      <3>6. u.val \in 0 .. CellSpan - 1
        BY <3>2, <3>4, <3>5
      <3> QED
        BY <2>1, <2>6, <2>7, <2>9, <3>2, <3>6
    <2> QED
      BY <2>8, <2>9
  <1> QED
    BY <1>8, <1>9

\* What is handed out for the cells ints in groups of g, when the buffer holds b.
GroupedAs(ints, g, a, s, b) ==
    LET groups == IF g \in 1 .. CellSpan \div 2 - 1 THEN Len(ints) \div g ELSE 0
        kept   == min_int(groups, DTB_MAX_IRQS)
    IN  /\ [q \in DOMAIN a |-> a[q].irq] = [q \in 1 .. min_int(kept, b) |-> ints[(q - 1) * g + 1]]
        /\ groups <= DTB_MAX_IRQS => (s = "nospace" <=> groups > b)

\* The irqs of dtb_device_read, cut to the buffer, are the groups.
LEMMA IrqsGrouped ==
    ASSUME Given, NEW parent \in Nat, NEW g \in 0 .. CellSpan - 1,
           NEW irqs, irqs = DeviceIrqs(tree, node, parent, ToInt(g)), NEW s,
           s = IF Len(irqs) > cap THEN "nospace" ELSE "ok"
    PROVE  GroupedAs(PropOf(tree, node, "interrupts", <<>>), g, Cut(irqs), s, cap)
  <1>1. PICK ints : ints = PropOf(tree, node, "interrupts", <<>>)
    OBVIOUS
  <1>2. ints \in Seq(0 .. CellSpan - 1)
    BY <1>1, GivenFacts, EmptySeq DEF PropOf
  <1>3. PICK c \in Nat : c = Len(ints)
    BY <1>2, SeqDomain
  <1>4. cap \in Nat /\ DTB_MAX_IRQS \in Nat /\ ToInt(g) \in Int
    BY GivenFacts, DeviceAssumption, DtbAssumption DEF ToInt
  <1>5. PICK groups : groups = IF g \in 1 .. CellSpan \div 2 - 1 THEN c \div g ELSE 0
    OBVIOUS
  <1>6. groups \in Nat
    <2>1. g \in 1 .. CellSpan \div 2 - 1 => g \in Nat \ {0}
      OBVIOUS
    <2>2. g \in 1 .. CellSpan \div 2 - 1 => c \div g \in Nat
      BY <2>1, RowsFit
    <2> QED
      BY <1>5, <2>2
  <1>7. groups = IF ToInt(g) > 0 THEN c \div ToInt(g) ELSE 0
    <2>1. CASE g \in 1 .. CellSpan \div 2 - 1
      <3>1. ToInt(g) > 0 /\ ToInt(g) = g
        BY <2>1, IntFacts
      <3> QED
        BY <1>5, <2>1, <3>1
    <2>2. CASE g \notin 1 .. CellSpan \div 2 - 1
      <3>1. ~(ToInt(g) > 0)
        BY <2>2, IntFacts
      <3> QED
        BY <1>5, <2>2, <3>1
    <2> QED
      BY <2>1, <2>2
  <1>8. PICK kept \in Nat : kept = min_int(groups, DTB_MAX_IRQS) /\ kept <= groups
    BY <1>4, <1>6 DEF min_int
  <1>9. irqs = [q \in 1 .. kept |-> [irq |-> ints[(q - 1) * ToInt(g) + 1],
                                     parent_phandle |-> parent, cells |-> ToInt(g)]]
    BY <1>1, <1>3, <1>7, <1>8 DEF DeviceIrqs
  <1>10. irqs \in Seq(Interrupt) /\ Len(irqs) = kept
    <2>1. irqs \in Seq(Interrupt) /\ DOMAIN irqs = 1 .. kept
      BY <1>4, <1>9, IrqsType
    <2>2. PICK e \in Seq(Interrupt) : e = irqs
      BY <2>1
    <2>3. DOMAIN e = 1 .. Len(e) /\ Len(e) \in Nat
      BY SeqDomain
    <2> QED
      BY <2>1, <2>2, <2>3
  <1>11. PICK m \in Nat : m = min_int(kept, cap) /\ m <= kept
    BY <1>4 DEF min_int
  <1>12. Cut(irqs) = [q \in 1 .. m |-> irqs[q]]
    BY <1>4, <1>10, <1>11, CutFacts
  <1>13. ASSUME NEW q \in 1 .. m PROVE Cut(irqs)[q].irq = ints[(q - 1) * g + 1]
    <2>1. q \in 1 .. kept
      BY <1>11
    <2>2. irqs[q].irq = ints[(q - 1) * ToInt(g) + 1]
      BY <1>9, <2>1
    <2>3. groups # 0
      BY <1>8, <2>1
    <2>4. g \in 1 .. CellSpan \div 2 - 1
      BY <1>5, <2>3
    <2>5. ToInt(g) = g
      BY <2>4, IntFacts
    <2> QED
      BY <1>12, <2>2, <2>5
  <1>14. PICK a : a = Cut(irqs)
    OBVIOUS
  <1>15. DOMAIN a = 1 .. m /\ \A q \in 1 .. m : a[q].irq = ints[(q - 1) * g + 1]
    BY <1>12, <1>13, <1>14
  <1>16. [q \in DOMAIN a |-> a[q].irq] = [q \in 1 .. m |-> ints[(q - 1) * g + 1]]
    BY <1>15
  <1>17. groups <= DTB_MAX_IRQS => (s = "nospace" <=> groups > cap)
    <2>1. groups <= DTB_MAX_IRQS => kept = groups
      BY <1>4, <1>6, <1>8 DEF min_int
    <2> QED
      BY <1>10, <2>1
  <1> QED
    BY <1>1, <1>3, <1>5, <1>8, <1>11, <1>14, <1>16, <1>17 DEF GroupedAs

LEMMA NextInterrupt ==
    ASSUME WalkInv, InterruptInv, [ScanNext]_scanVars
    PROVE  InterruptInv'
  <1> SUFFICES ASSUME call = "interrupts" PROVE InterruptInv'
    BY InputsStay DEF InterruptInv, inputVars
  <1>1. Given /\ IsTree(tree) /\ node \in 1 .. Len(tree) /\ Len(tree) \in Nat
    BY GivenFacts, TreeFacts DEF WalkInv
  <1>2. UNCHANGED <<tree, call, cap, node>> /\ call' = "interrupts"
    BY InputsStay DEF inputVars
  <1>3. Group' = Group
    BY <1>2 DEF Group, Named, Name, Naming, AtOrAbove
  <1>4. StartInterrupts \/ AskAbove \/ InterruptsRead \/ Finished \/ UNCHANGED scanVars
    BY DEF ScanNext, Start, MemoryNode, ReservedNode, ControllerNode, CpuCounted, CpuListed, CpuTried,
           DeviceTried, DeviceNext, BusChild, CompatibleTried, Return, StartTranslate, WindowTried,
           NoWindow, ByNextNode, ByPath
  <1>5. ASSUME status' \notin {"ok", "nospace"} PROVE InterruptsGrouped'
    BY <1>5 DEF InterruptsGrouped
  <1>6. CASE StartInterrupts
    <2>1. arr' = <<>> /\ n' = 0
      BY <1>6 DEF StartInterrupts, Nothing, WalkInv
    <2>2. \/ status' = "loop" /\ off' = node
          \/ status' \in {"notfound", "badncells"}
      <3>1. PICK err : err = decode_reg_list(tree, node, DTB_MAX_REGS).err
        OBVIOUS
      <3>2. err \in {"ok", "nospace", "notfound", "badncells"}
        BY <3>1, RegListErrors DEF Results
      <3>3. IF err \in {"ok", "nospace"} THEN status' = "loop" /\ off' = node ELSE status' = err
        BY <1>6, <3>1 DEF StartInterrupts
      <3> QED
        BY <3>2, <3>3
    <2>3. Climbing(tree, node, node)
      BY <1>1 DEF Climbing, NamesAt, Above
    <2> QED
      BY <1>2, <1>5, <2>1, <2>2, <2>3 DEF InterruptInv
  <1>7. CASE AskAbove
    <2>1. status = "loop" /\ status' = "loop" /\ off # NoOffset /\ arr' = <<>> /\ n' = 0
          /\ Climbing(tree, node, off) /\ off' = fdt_parent_offset(tree, off)
      BY <1>7 DEF AskAbove, Go, Nothing, InterruptInv
    <2>2. ~HasProp(tree, off, "interrupt-parent")
      BY <1>7 DEF AskAbove, get_u32_prop
    <2>3. Climbing(tree, node, off')
      BY <1>1, <2>1, <2>2, NextClimb
    <2> QED
      BY <1>2, <1>5, <2>1, <2>3 DEF InterruptInv
  <1>8. CASE InterruptsRead
    <2>1. status = "loop" /\ arr = <<>> /\ n = 0 /\ Climbing(tree, node, off)
          /\ (off = NoOffset \/ get_u32_prop(tree, off, "interrupt-parent").err # "notfound")
      BY <1>8 DEF InterruptsRead, InterruptInv
    <2>2. PICK parent : parent = get_u32_prop(tree, off, "interrupt-parent")
      OBVIOUS
    <2>3. parent.val \in Nat
      BY <1>1, <2>2, U32Type
    <2>4. Name = IF parent.err = "ok" THEN parent.val ELSE 0
      BY <1>1, <2>1, <2>2, NameFound
    <2>5. PICK cells : cells = IF parent.err = "ok" THEN InterruptCells(tree, parent.val) ELSE 1
      OBVIOUS
    <2>6. Group \in 0 .. CellSpan - 1 /\ cells = ToInt(Group)
      BY <1>1, <2>4, <2>5, GroupFound
    <2>7. PICK irqs : irqs = DeviceIrqs(tree, node, parent.val, ToInt(Group))
      OBVIOUS
    <2>8. DeviceRead(tree, node, parent.val, cells).irqs = irqs
      BY <2>6, <2>7 DEF DeviceRead
    <2>9. Store(irqs) /\ status' = IF Len(irqs) > cap THEN "nospace" ELSE "ok"
      BY <1>8, <2>2, <2>5, <2>8 DEF InterruptsRead, MapInterrupts
    <2>10. arr' = Cut(irqs)
      <3>1. irqs \in Seq(Interrupt)
        <4>1. ToInt(Group) \in Int
          BY <2>6, DtbAssumption DEF ToInt
        <4> QED
          BY <1>1, <2>3, <2>7, <4>1, IrqsType
      <3>2. <<>> \o irqs = irqs /\ Len(<<>>) + Len(irqs) = Len(irqs)
        BY <3>1
      <3> QED
        BY <2>1, <2>9, <3>2 DEF Store, Cut
    <2>11. GroupedAs(PropOf(tree, node, "interrupts", <<>>), Group, arr', status', cap)
      BY <1>1, <2>3, <2>6, <2>7, <2>9, <2>10, IrqsGrouped
    <2>12. InterruptsGrouped'
      BY <1>2, <1>3, <2>11 DEF InterruptsGrouped, GroupedAs
    <2>13. status' \in {"ok", "nospace"}
      BY <2>9
    <2> QED
      BY <2>12, <2>13 DEF InterruptInv
  <1>9. CASE Finished \/ UNCHANGED scanVars
    <2>1. UNCHANGED <<tree, call, cap, node, off, n, arr, status>>
      BY <1>9 DEF Finished, scanVars
    <2>2. InterruptsGrouped'
      BY <1>3, <2>1 DEF InterruptInv, InterruptsGrouped
    <2> QED
      BY <2>1, <2>2 DEF InterruptInv
  <1> QED
    BY <1>4, <1>6, <1>7, <1>8, <1>9

LEMMA InterruptInvHolds == ScanSpec => []InterruptInv
  <1>1. ScanInit => InterruptInv
    BY DEF ScanInit, InterruptInv, InterruptsGrouped
  <1>2. ScanInv /\ InterruptInv /\ [ScanNext]_scanVars => InterruptInv'
    BY NextInterrupt DEF ScanInv
  <1> QED
    BY <1>1, <1>2, ScanInvHolds, PTL DEF ScanSpec

\* The interrupts of a device are cut into groups as the controller says that the
\* nearest node at or above the device names, and of a device with no more than
\* DTB_MAX_IRQS interrupts those that the buffer does not hold are reported
\* (get_interrupt_parent, get_interrupt_cells_for_parent, dtb_interrupt_map_device).
THEOREM InterruptsAreGrouped == ScanSpec => []InterruptsGrouped
  <1>1. InterruptInv => InterruptsGrouped
    BY DEF InterruptInv, InterruptsGrouped
  <1> QED
    BY <1>1, InterruptInvHolds, PTL
=============================================================================
