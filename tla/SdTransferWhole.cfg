SPECIFICATION Spec
CONSTANT MaxBlocks = 1
INVARIANT TransferIsWhole
CHECK_DEADLOCK FALSE
