--------------------------- MODULE MCRegionMerge ---------------------------
(* Every list of up to MaxLen whole-page regions of two kinds. *)
EXTENDS RegionMergeAlone

CONSTANT MaxLen

MCRegions == {r \in [start : {a \in Addr : IsAligned(a)}, end : {a \in Addr : IsAligned(a)},
                     kind : {"boot", "dtb_reserved"}] : r.start < r.end}

MCLists == UNION {[1 .. len -> MCRegions] : len \in 0 .. MaxLen}
=============================================================================
