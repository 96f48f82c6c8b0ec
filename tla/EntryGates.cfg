SPECIFICATION Spec
CONSTANTS
  WarmupBars = 2
  ReconnectAfter = 2
  MaxReconnects = 2
  StaleAfter = 2
  ClosedAfter = 4
  EventAt = 8
  PreMin = 2
  PostMin = 1
  FetchInterval = 3
  WriteInterval = 1
  Ttl = 2
  BlockWhenStale = FALSE
  Start = 4
  Horizon = 9
  Grace = 1
  Balance = 100
  MaxDailyLoss = 10
  RiskPct = 7
  Dists = {0, 2}
  VolMin = 1
  VolMax = 3
  MaxTroubles = 1
INVARIANTS
  ExposureSound
  BarsComplete
CHECK_DEADLOCK FALSE
