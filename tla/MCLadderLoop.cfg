SPECIFICATION Spec
CONSTANTS
  Rung1R = 2
  Rung1Pct = 40
  Rung2R = 3
  Rung2Pct = 40
  FinalR = 4
  Stage1R = 1
  Stage2R = 2
  MinLockR = 1
  Buffer = 1
  VolMin = 2
  DefaultD = 3
  Dirs = {"LONG", "SHORT"}
  Candles <- MCCandles
  Dist = 3
  Lots = 5
  Quotes <- MCQuotes
  Slips = {0, 1}
  CostSet = {0, 1}
  MaxTickets = 1
  MaxTroubles = 1
INVARIANTS
  WithinLadder
  Earned
PROPERTY
  OnlyTightens
CHECK_DEADLOCK TRUE
