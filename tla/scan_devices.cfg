SPECIFICATION ScanSpec
CONSTANTS
    CellSpan = 8
    DTB_MAX_REGS = 2
    DTB_MAX_MEM_REGIONS = 3
    BootHart = 0
    Needle = "dev"
    DTB_MAX_IRQS = 2
    DTB_MAX_REFS = 2
    Inputs <- MCInputs
INVARIANTS
    SeesEveryDevice
