SPECIFICATION FairSpec
CONSTANTS
    s1 = s1  s2 = s2  r1 = r1  r2 = r2  z = z  a = a
    Values <- MCValues
    Zero = z
    Threads <- SlotThreads
    Ops <- SlotOps
    Cap = 0
    MaxSends = 2
    MaxCloses = 1
INVARIANT RendezvousTaken
INVARIANT DrainedIsFinal
PROPERTY ClosedReceiverReturns
PROPERTY WaitingValueTaken
CHECK_DEADLOCK FALSE
