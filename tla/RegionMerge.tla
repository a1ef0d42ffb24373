---------------------------- MODULE RegionMerge ----------------------------
(***************************************************************************)
(* mm_merge_regions and the insertion sort it starts with                  *)
(* (src/kernel/memory_map.c:165-217), one action per iteration of their    *)
(* loops.  arr is the region array the caller passed; the first out        *)
(* entries are what the call has kept so far.                              *)
(***************************************************************************)
EXTENDS PageMath, Sequences

\* The (pte_flags, protect_flags) pairs that memory_map.c gives to regions.
\* No two call sites of mm_region_add share a pair, except the RAM list and the
\* free list: RW|ALLOCATABLE, kind "allocatable".
Kinds == {"allocatable", "kernel", "boot", "dtb", "dtb_reserved", "mmio"}

\* mm_region_t; the source string is only printed and is left out.
Region == [start : Addr, end : Addr, kind : Kinds]

\* What mm_region_add stores: whole pages, at least one.
WellFormed(r) == r.start < r.end /\ IsAligned(r.start) /\ IsAligned(r.end)

\* The addresses of one region, and of the entries of s with an index in idx.
Inside(a, r) == r.start <= a /\ a < r.end
CoverOf(s, idx) == {a \in Addr : \E q \in idx : Inside(a, s[q])}
Cover(s) == CoverOf(s, DOMAIN s)

\* Every region of s is whole pages.
WholePages(s) == \A q \in DOMAIN s : WellFormed(s[q])

\* In ascending order, with a gap between any two regions.
Separated(s) == \A p, q \in DOMAIN s : p < q => s[p].end < s[q].start

VARIABLES
    arr,    \* the array being sorted and merged
    i,      \* loop index of both loops, from 1
    out,    \* number of entries kept (the variable out of the code, plus one)
    stage   \* where the call is

mergeVars == <<arr, i, out, stage>>

Stages == {"idle", "sort", "merge", "merged"}

MergeTypeOK ==
    /\ arr \in Seq(Region)
    /\ i \in Nat
    /\ out \in Nat
    /\ stage \in Stages

-----------------------------------------------------------------------------
\* mm_merge_regions is entered: an array of at most one region is returned as
\* it is, any other is sorted first.
StartMerge ==
    /\ stage = "idle"
    /\ stage' = IF Len(arr) <= 1 THEN "merged" ELSE "sort"
    /\ i' = 2
    /\ out' = Len(arr)
    /\ UNCHANGED arr

\* Mistake to be noticed: the inner loop runs while j > 0 instead of j >= 0.
StopsAt_firstFixed(pos) ==
    /\ pos > 1
    /\ \A q \in pos .. i - 1 : arr[q].start > arr[i].start
    /\ pos > 2 => arr[pos - 1].start <= arr[i].start

\* The inner while loop stops at position pos: every entry it passed starts
\* above the key, the one before pos does not.
StopsAt(pos) ==
    /\ \A q \in pos .. i - 1 : arr[q].start > arr[i].start
    /\ pos > 1 => arr[pos - 1].start <= arr[i].start

\* The entries passed move up by one and the key takes the freed place.
Inserted(pos) ==
    [q \in DOMAIN arr |-> IF q = pos THEN arr[i]
                          ELSE IF q \in pos + 1 .. i THEN arr[q - 1]
                          ELSE arr[q]]

\* One iteration of the outer loop of mm_sort_regions.
SortStep ==
    /\ stage = "sort" /\ i <= Len(arr)
    /\ \E pos \in 1 .. i : StopsAt(pos) /\ arr' = Inserted(pos)
    /\ i' = i + 1
    /\ UNCHANGED <<out, stage>>

\* mm_sort_regions returns; the merge loop starts with arr[0] kept.
SortReturn ==
    /\ stage = "sort" /\ i > Len(arr)
    /\ stage' = "merge"
    /\ i' = 2
    /\ out' = 1
    /\ UNCHANGED arr

\* Mistakes to be noticed: regions that touch are kept apart; flags are not compared.
Mergeable_strict(kept, next) == next.start < kept.end /\ next.kind = kept.kind
Mergeable_anyFlags(kept, next) == next.start <= kept.end

\* The entry is compared with the last one kept, and with no other.
Mergeable(kept, next) == next.start <= kept.end /\ next.kind = kept.kind

\* Mistakes to be noticed: lengths are added up; the loop index stays.
Absorb_addsLength ==
    /\ stage = "merge" /\ i <= Len(arr)
    /\ Mergeable(arr[out], arr[i])
    /\ arr' = [arr EXCEPT ![out].end = @ + (arr[i].end - arr[i].start)]
    /\ i' = i + 1
    /\ UNCHANGED <<out, stage>>
Absorb_keepsIndex ==
    /\ stage = "merge" /\ i <= Len(arr)
    /\ Mergeable(arr[out], arr[i])
    /\ arr' = [arr EXCEPT ![out].end = mm_max_u64(@, arr[i].end)]
    /\ UNCHANGED <<i, out, stage>>

Absorb ==
    /\ stage = "merge" /\ i <= Len(arr)
    /\ Mergeable(arr[out], arr[i])
    /\ arr' = [arr EXCEPT ![out].end = mm_max_u64(@, arr[i].end)]
    /\ i' = i + 1
    /\ UNCHANGED <<out, stage>>

Advance ==
    /\ stage = "merge" /\ i <= Len(arr)
    /\ ~Mergeable(arr[out], arr[i])
    /\ out' = out + 1
    /\ arr' = [arr EXCEPT ![out + 1] = arr[i]]
    /\ i' = i + 1
    /\ UNCHANGED stage

MergeReturn ==
    /\ stage = "merge" /\ i > Len(arr)
    /\ stage' = "merged"
    /\ UNCHANGED <<arr, i, out>>

MergeStep == SortStep \/ SortReturn \/ Absorb \/ Advance \/ MergeReturn

\* The list the caller goes on with: the first out entries.
Merged == SubSeq(arr, 1, out)

-----------------------------------------------------------------------------
(* The entries that still count while the call runs: those kept and those   *)
(* the loop has not come to.                                                *)
Live == IF stage \in {"merge", "merged"}
        THEN (1 .. out) \cup (i .. Len(arr))
        ELSE 1 .. Len(arr)

LiveCover == CoverOf(arr, Live)

\* The live addresses that carry the flags kind.
KindCover(kind) == CoverOf(arr, {q \in Live : arr[q].kind = kind})
=============================================================================
