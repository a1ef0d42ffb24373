SPECIFICATION KernelSpec
CONSTANTS
    TX_TIMEOUT = 1
    ByteSpan = 2
    WordSpan = 256
    CellSpan = 256
    DTB_MAX_REGS = 2
    DTB_MAX_MEM_REGIONS = 2
    DTB_MAX_IRQS = 2
    DTB_MAX_REFS = 2
    DefaultBaud = 1
    MaxReceived = 0
    MaxString = 0
    MaxCalls = 0
    Trees <- MCTrees
    Strings <- MCStrings
    Text <- MCText
    Facts <- MCFacts
    Firmwares <- MCFirmwares
INVARIANTS
    LineSpellsMessages
PROPERTIES
    ImplementsBoot
