SPECIFICATION Spec
CONSTANTS
  PartialAtR = 2
  PartialTenths = 7
  BreakevenAtR = 0
  DefaultD = 4
  Dirs = {"LONG"}
  Closes = {20,30}
  Dist = 5
  AddonTenths = 8
  Lots = 3
  SpareAge = 1
  Ttl = 1
  Timely = TRUE
  MaxTickets = 2
  MaxFaults = 1
PROPERTY OnlyTightens
CHECK_DEADLOCK TRUE
