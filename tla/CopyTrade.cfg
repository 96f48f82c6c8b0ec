SPECIFICATION Spec
CONSTANTS
  MaxQueue = 2
  Window = 3
  MaxEvents = 4
  MaxFaults = 3
INVARIANT NothingLostSilently
INVARIANT ReceivedInOrder
INVARIANT BacklogMeansFailure
INVARIANT NumbersIncrease
CHECK_DEADLOCK TRUE
