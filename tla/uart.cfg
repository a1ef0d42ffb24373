SPECIFICATION UartSpec
CONSTANTS
    TX_TIMEOUT = 1
    ByteSpan = 2
    WordSpan = 256
    CellSpan = 256
    DTB_MAX_REGS = 2
    DTB_MAX_MEM_REGIONS = 2
    DefaultBaud = 1
    MaxReceived = 1
    MaxString = 3
    MaxCalls = 4
    Trees <- MCTrees
    Strings <- MCStrings
INVARIANTS
    UartTypeOK
    OutputInOrder
    ReturnBeforeFeed
    ReadyBackend
    ReadyChip
PROPERTIES
    GivesUpLate
    ImplementsStream
    CallsReturn
