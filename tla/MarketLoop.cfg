SPECIFICATION FairSpec
CONSTANTS
  Stops = {1,2,3,4,5}
  Closes = {3}
  Dists = {1}
  Slips = {1}
  Balances = {0,1}
  MaxLoss = 1
  MaxTickets = 2
  MaxDay = 1
  MaxTroubles = 1
  Want = 3
  Ladder = 1
  PartialLots = 2
  SlippageClose = TRUE
INVARIANTS
  InSync
  Protected
  GhostAtMostOneBar
PROPERTIES
  ServerStopTightens
  HaltHolds
  HaltFollowsLoss
CHECK_DEADLOCK TRUE
