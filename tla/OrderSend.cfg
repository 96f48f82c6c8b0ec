SPECIFICATION FairCallSpec
CONSTANTS
  MaxRetries = 3
  LadderLen = 3
  OldPositions = 1
  MaxLate = 1
  MaxFailedReads = 1
INVARIANTS
  NeverDouble
  ResultIsTruth
  BoundedSends
PROPERTIES
  CallReturns
CHECK_DEADLOCK TRUE
