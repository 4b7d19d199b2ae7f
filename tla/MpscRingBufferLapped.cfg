CONSTANTS
  Capacity = 2
  Producers = {p1, p2}
  MaxClaims = 6
  MayLap = TRUE
SPECIFICATION Spec
INVARIANTS
  PoppedIntact
CHECK_DEADLOCK FALSE
