SPECIFICATION BootSpec
CONSTANTS
    Boards <- MCBoards
INVARIANTS
    BootTypeOK
    CallsProbed
    PanicsAreHeard
    IdleIsComplete
PROPERTIES
    BootEnds
