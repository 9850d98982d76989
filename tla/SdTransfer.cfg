SPECIFICATION Spec
CONSTANT MaxBlocks = 2
INVARIANTS
    TypeOK
    StuckOnlyAfterFailure
    OkMeansCardDone
    OkMissesOneBlock
    OkFreesTheHandle
PROPERTIES
    HandlerEnds
    EveryCallReturns
CHECK_DEADLOCK FALSE
