SPECIFICATION MergeSpec
CONSTANTS
    PageSize = 2
    AddrSpan = 10
    MaxLen = 3
    Lists <- MCLists
INVARIANTS
    MergeTypeOK
    ResultSorted
    OneKindSeparated
PROPERTIES
    FlagsKept
    MergeReturns
