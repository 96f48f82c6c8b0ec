SPECIFICATION Spec
CONSTANTS
  DayMin = 6
  TriggerMin = 2
  HtfMin = 3
  MaxDay = 1
  MaxJump = 3
  Prices = {2, 3, 4}
  Edges = {1, 3}
  MaxBorn = 2
  MaxBlocks = 1
  MinConfluences = 3
  MaxTradesPerDay = 1
  StopBuffer = 1
  StopMaxDist = 2
INVARIANTS
  SoundEntry
  EntryLimits
PROPERTIES
  ImplementsContract
CHECK_DEADLOCK TRUE
