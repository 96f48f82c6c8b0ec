SPECIFICATION FairSpec
CONSTANTS
  DayMin = 10
  SessionOpen = 1
  SessionLen = 8
  RangeMin = 2
  MaxDay = 1
  MaxJump = 3
  Prices = {1, 2, 3, 4}
  Atrs = {1, 2}
  BarMin = 1
  MaxGapBars = 1
  OnGapReset = FALSE
  WarmBars = 3
  MomentumGate = TRUE
  AllowLong = TRUE
  AllowShort = TRUE
  AtrMult = 1
  StopMin = 0
  StopMax = 2
  UseTp = TRUE
  TpRrr = 1
  TpPartial = FALSE
  Intrabar = FALSE
  OneTrade = TRUE
  Rearm = FALSE
  RearmRebuild = TRUE
INVARIANTS
  Coherence
  HeldTrade
  OneTradePerReset
PROPERTIES
  ImplementsContract
  PositionEventuallyCloses
CHECK_DEADLOCK TRUE
