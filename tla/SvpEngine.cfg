SPECIFICATION Spec
CONSTANTS
  DayMin = 7
  SessionOpen = 1
  SessionLen = 5
  RangeMin = 1
  MaxDay = 5
  Silences = {1, 2, 7, 28}
  Prices = {2, 3, 4}
  Atrs = {0, 1}
  MinBars = 2
  MaxTrades = 2
  Buffer = 0
  EnableEdge = TRUE
  EnableLvn = TRUE
  EnableAbsorption = TRUE
  AllowLong = TRUE
  AllowShort = TRUE
  BlockOpen = 1
  BlockClose = 2
  Killzone = {}
  TrendMode = "open"
  UseDelta = FALSE
  AtrMult = 1
  AtrFloor = TRUE
INVARIANTS
  SoundEntry
  SessionRules
PROPERTIES
  ImplementsContract
CHECK_DEADLOCK TRUE
