SPECIFICATION BoardSpec
CONSTANTS
    PageSize = 2
    AddrSpan = 36
    CellSpan = 6
    KernelStart = 12
    KernelImageEnd = 17
    DTB_MAX_REGS = 2
    DTB_MAX_MEM_REGIONS = 3
    MaxRam = 3
    WorkspaceCap = 6
    MaxRanges = 4
    Boards <- MCBoards
    Platforms <- MCPlatforms
INVARIANTS
    TotalsAlwaysAgree
