SPECIFICATION Spec
CONSTANTS
    Threads <- TwoThreads
    Registered <- OtherThread
    Entering <- OtherThread
    Collectors <- MainOnly
    CoroThreads <- MainOnly
    Blocks <- TwoBlocks
    MaxCollects = 2
INVARIANT NoDangling
CHECK_DEADLOCK FALSE
