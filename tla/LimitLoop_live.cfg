SPECIFICATION FairSpec
CONSTANTS
  PartialAtR = 2
  PartialTenths = 7
  BreakevenAtR = 0
  DefaultD = 4
  Dirs = {"LONG"}
  Closes = {20,30}
  Dist = 5
  AddonTenths = 8
  Lots = 3
  SpareAge = 1
  Ttl = 2
  Timely = TRUE
  MaxTickets = 2
  MaxFaults = 0
INVARIANT PartialOnce
PROPERTY EveryFillManaged
PROPERTY GhostCleared
CHECK_DEADLOCK TRUE
