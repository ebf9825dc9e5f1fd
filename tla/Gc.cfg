SPECIFICATION FairSpec
CONSTANTS
    Threads <- TwoThreads
    Registered <- OtherThread
    Entering <- OtherThread
    Collectors <- MainOnly
    CoroThreads <- MainOnly
    Blocks <- TwoBlocks
    MaxCollects = 1
INVARIANT HeapSound
INVARIANT WorldStopped
PROPERTY Promise
PROPERTY AllEnd
CHECK_DEADLOCK FALSE
