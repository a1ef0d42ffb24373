SPECIFICATION MergeSpec
CONSTANTS
    PageSize = 2
    AddrSpan = 10
    MaxLen = 3
    Lists <- MCLists
INVARIANT
    SameKindDisjoint
