CONSTANTS
  Capacity = 2
  Producers = {p1}
  MaxClaims = 4
  HeaderCells = 2
  PayloadCells = 1
  PreambleCells = 1
  Faults = {}
SPECIFICATION WSpec
INVARIANT
  DrainsWhatRemains
CHECK_DEADLOCK FALSE
