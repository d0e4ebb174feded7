CONSTANTS
    MaxBlocks = 7
    MaxStmts = 5
    MaxFuncs = 2
SPECIFICATION Spec
INVARIANTS
    TypeOK
    InsertAtEnd
    EveryBlockPlacedOnce
    ClosedBlocksTerminate
    AllocaOncePerCall
    JumpStacksFollowLoops
PROPERTIES
    ClosedBlocksFrozen
    ImplementsStructuredFlow
CHECK_DEADLOCK FALSE
