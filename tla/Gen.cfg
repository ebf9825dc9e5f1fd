SPECIFICATION SpecGen
CONSTANTS
    Slots = 4
    MaxSpawns = 4
    MaxYields = 2
    Mixing = FALSE
    Recycled = FALSE
INVARIANT GenSound
CHECK_DEADLOCK FALSE
