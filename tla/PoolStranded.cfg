SPECIFICATION FairSpec
CONSTANTS
    N = 2
    QueueLen = 1
    Slots = 3
    Tasks <- FewTasks
    Body <- FewBody
    GoList <- FewGo
PROPERTY ReadyIsImported
CHECK_DEADLOCK FALSE
