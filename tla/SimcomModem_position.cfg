SPECIFICATION Spec
CONSTANTS
  ListenMs = 3
  RestMs = 2
  MaxFaults = 1
  MaxUrcs = 1
  MaxOut = 3
CHECK_DEADLOCK FALSE
INVARIANTS
  NothingToReadForPosition
