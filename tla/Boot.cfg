CONSTANTS
  ByteBits = 2
  CtFuel = 60
  MaxNest = 20
  MaxFiles = 5
  Fuel = 200
  MaxCalls = 100
  ElfBase = 1024
  SegGap = 1024
  StackTop = 16384
  StackBytes = 512
  Files <- MCFiles
  Programs <- MCPrograms
SPECIFICATION Spec
INVARIANTS
  MeaningPreserved
  StackAsEmitted
  LinkageIntact
  PlacesApart
  ImportsOnce
  GroupedAsMeant
  WellTyped
  RulesEnforced
PROPERTY Finishes
