CONSTANTS
  Capacity = 2
  Producers = {p1}
  MaxClaims = 4
  HeaderCells = 2
  PayloadCells = 1
  PreambleCells = 1
  Faults = {"open", "write", "fsync"}
SPECIFICATION WFairSpec
INVARIANT
  IntactPrefixInOrder
PROPERTIES
  EachStepDrains
  CloseReturns
CHECK_DEADLOCK FALSE
