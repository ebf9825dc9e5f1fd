SPECIFICATION FairSpec
CONSTANTS
    Slots = 4
    MaxSpawns = 5
INVARIANT TableSound
INVARIANT WaitsOneRound
PROPERTY EveryoneRuns
CHECK_DEADLOCK FALSE
PROPERTY Promise
