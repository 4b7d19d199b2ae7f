CONSTANTS
  Capacity = 4
  Producers = {p1, p2}
  MaxClaims = 7
  MayLap = FALSE
SPECIFICATION Spec
INVARIANTS
  TypeOK
  SlotExclusive
  PoppedIntact
PROPERTIES
  ImplementsSlotRing
CHECK_DEADLOCK FALSE
