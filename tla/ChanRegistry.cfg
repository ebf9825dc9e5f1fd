SPECIFICATION Spec
CONSTANTS
    w1 = w1  w2 = w2  m = m  a = a  b = b
    Workers <- TwoWorkers
    Bare <- NoThreads
    Joiners <- Main
    Queued <- TwoWorkers
    RegSlots = 3
    Chans <- OneChan
    Room <- OneRoom
    Work <- SendRecv
    MaxOps = 3
INVARIANT ScanFounded
INVARIANT SomeoneSees
SYMMETRY WorkerSymmetry
CHECK_DEADLOCK FALSE
