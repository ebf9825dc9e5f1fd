SPECIFICATION FairSpec
CONSTANTS
    b = b  r = r
    Chans <- MCChans
    Room <- MCRoom
    Work <- AllWork
    MainWork <- NoWork
    MainYields = FALSE
    Slots = 4
    MaxSpawns = 3
    MaxWaits = 4
INVARIANT BlockedCounted
INVARIANT NoFalseAlarm
PROPERTY DeadlockReported
CHECK_DEADLOCK FALSE
