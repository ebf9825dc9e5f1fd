SPECIFICATION Spec
CONSTANTS
    s1 = s1  s2 = s2  r1 = r1  r2 = r2  z = z  a = a
    Values <- MCValues
    Zero = z
    Threads <- RingThreads
    Ops <- RingOps
    Cap = 2
    MaxSends = 3
    MaxCloses = 1
INVARIANT Guarded
INVARIANT FifoNoLoss
INVARIANT EpochAccounts
PROPERTY AbsSpec
CHECK_DEADLOCK FALSE
