CONSTANTS
  Tf = 2
  Lookback = 1
  RecentBars = 3
  MaxPending = 2
  ConfirmBars = 2
  MaxBlocks = 1
  ExpiryBars = 3
  RowSize = 1
  Unit = 6
  ValueAreaPct = 70
  HvnPct = 70
  LvnPct = 60
  IMaxPeakPct = 110
  TpoFallback = FALSE
  TiebreakUp = TRUE
  MinBars = 2
  MaxRowsPerBar = 3
  Shapes <- MCShapes
  MaxLen = 7
  NyStart = 660
  NyStep = 150
  Killzones = {7200960, 13200120}
  AllowedQuarters = {2, 3}
  UtcOffset = 300
  AtrPeriod = 3
  RocPeriod = 2
  SmaPeriod = 2
  SpikeRatioPct = 150
  SpikeLookback = 3
  SpikeMinBars = 2
SPECIFICATION FeedSpec
INVARIANTS
  StructureIsChart
  BlocksAreChart
  ClockIsChart
  SumsAreChart
CHECK_DEADLOCK FALSE
