------------------------------ MODULE PageMath ------------------------------
(***************************************************************************)
(* Address arithmetic of src/kernel/memory_map.c.  Addresses are uint64_t  *)
(* in the program; here they are the naturals below AddrSpan and every     *)
(* operation that may overflow is taken modulo AddrSpan, as the C operators*)
(* are.  The program's values are PageSize = 2^12 and AddrSpan = 2^64.     *)
(***************************************************************************)
EXTENDS Integers

CONSTANTS
    PageSize,   \* MM_PAGE_SIZE
    AddrSpan    \* number of values of a uint64_t

\* The page size is a positive number of bytes and divides the address space
\* (both are powers of two in the program; only this much is used).
ASSUME PageAssumption ==
    /\ PageSize \in Nat \ {0}
    /\ AddrSpan \in Nat \ {0}
    /\ AddrSpan % PageSize = 0

Addr == 0 .. AddrSpan - 1

UINT64_MAX == AddrSpan - 1

\* Sum of two uint64_t values.
WrapAdd(a, b) == (a + b) % AddrSpan

mm_align_down(value) == value - (value % PageSize)

\* The sum wraps before the mask is applied: a value in the last page that is
\* not aligned comes out as 0.
mm_align_up(value) == mm_align_down(WrapAdd(value, PageSize - 1))

mm_min_u64(a, b) == IF a < b THEN a ELSE b

mm_max_u64(a, b) == IF a > b THEN a ELSE b

mm_pages_u64(start, end) == (IF end > start THEN end - start ELSE 0) \div PageSize

mm_ranges_overlap(a_start, a_end, b_start, b_end) ==
    a_start < b_end /\ b_start < a_end

IsAligned(value) == value % PageSize = 0
=============================================================================
