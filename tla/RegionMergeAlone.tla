-------------------------- MODULE RegionMergeAlone --------------------------
(***************************************************************************)
(* One call of mm_merge_regions on an arbitrary array of whole-page        *)
(* regions, with nothing else running.                                     *)
(***************************************************************************)
EXTENDS RegionMerge

CONSTANT Lists  \* the arrays the call is given

ASSUME ListsAssumption ==
    \A s \in Lists : s \in Seq(Region) /\ WholePages(s)

MergeInit ==
    /\ arr \in Lists
    /\ i = 0
    /\ out = 0
    /\ stage = "idle"

\* The call has returned.
CallReturned == stage = "merged" /\ UNCHANGED mergeVars

MergeNext == StartMerge \/ MergeStep \/ CallReturned

MergeSpec == MergeInit /\ [][MergeNext]_mergeVars /\ WF_mergeVars(MergeNext)

-----------------------------------------------------------------------------
\* Neither sorting nor merging adds an address to the map, loses one, or gives
\* one other flags: the shifts of the insertion sort, the in-place overwrite of
\* arr[out] and the extension of an end keep, for every kind, the same addresses.
FlagsKept == [][\A kind \in Kinds : KindCover(kind)' = KindCover(kind)]_mergeVars

\* What the call returns starts in ascending order, although entries were
\* overwritten in place behind the loop index (memory_map.c:208-212).
ResultSorted ==
    stage = "merged" =>
        \A p, q \in 1 .. out : p < q => arr[p].start <= arr[q].start

\* A list of one kind (RAM, free memory) comes back disjoint and with a gap
\* between any two regions, so page counts may be added up (mm_sum_pages).
OneKindSeparated ==
    stage = "merged" /\ (\A p, q \in 1 .. out : arr[p].kind = arr[q].kind) =>
        \A p, q \in 1 .. out : p < q => arr[p].end < arr[q].start

\* Regions of one kind never overlap in the result, whatever lies between them:
\* memory_map.c:182 says the call merges adjacent or overlapping regions into
\* one, and line 200 excepts only regions of different flags.
SameKindDisjoint ==
    stage = "merged" =>
        \A p, q \in 1 .. out :
            p < q /\ arr[p].kind = arr[q].kind =>
                ~mm_ranges_overlap(arr[p].start, arr[p].end, arr[q].start, arr[q].end)

\* The call returns: both loops end.
MergeReturns == <>(stage = "merged")
=============================================================================
