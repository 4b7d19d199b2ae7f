CONSTANTS
  Capacity = 2
  Producers = {p1}
  MaxClaims = 2
  HeaderCells = 2
  PayloadCells = 1
  PreambleCells = 1
  Faults = {}
SPECIFICATION WFairSpec
PROPERTY
  PendingIsFlushed
CHECK_DEADLOCK FALSE
