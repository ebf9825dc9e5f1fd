SPECIFICATION Spec
CONSTANTS
    HeaderBytes = 16
    MinChunk = 4
    Top = 9
    Requests <- MCRequests
INVARIANT Partition
INVARIANT FreeListSound
PROPERTY LiveUntouched
PROPERTY Promise
