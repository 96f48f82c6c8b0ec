SPECIFICATION Spec
CONSTANTS
  DayMin = 12
  SessionOpen = 7
  SessionLen = 9
  RangeMin = 2
  MaxDay = 1
  MaxJump = 3
  Prices = {1, 2, 3, 4}
  Atrs = {0, 2}
  BarMin = 1
  MaxGapBars = 1
  OnGapReset = TRUE
  WarmBars = 3
  MomentumGate = FALSE
  AllowLong = TRUE
  AllowShort = TRUE
  AtrMult = 1
  StopMin = 1
  StopMax = 2
  UseTp = TRUE
  TpRrr = 1
  TpPartial = TRUE
  Intrabar = TRUE
  OneTrade = FALSE
  Rearm = TRUE
  RearmRebuild = TRUE
INVARIANTS
  Coherence
PROPERTIES
  ImplementsContract
CHECK_DEADLOCK TRUE
