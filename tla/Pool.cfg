SPECIFICATION FairSpec
CONSTANTS
    N = 2
    QueueLen = 2
    Slots = 3
    Tasks <- MCTasks
    Body <- MCBody
    GoList <- MCGo
INVARIANT QueueFifo
INVARIANT OnePlace
INVARIANT GivesWhatItSpares
PROPERTY Promise
PROPERTY AcceptedEnds
CHECK_DEADLOCK FALSE
