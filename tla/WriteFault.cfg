CONSTANTS
  Capacity = 2
  Producers = {p1}
  MaxClaims = 3
  HeaderCells = 2
  PayloadCells = 1
  PreambleCells = 1
  Faults = {"write"}
SPECIFICATION WSpec
INVARIANT
  ChunksAreRecords
CHECK_DEADLOCK FALSE
