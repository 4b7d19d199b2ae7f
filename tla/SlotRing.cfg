CONSTANTS
  Capacity = 4
  Producers = {p1, p2, p3}
  MaxClaims = 14
SPECIFICATION RingSpec
INVARIANTS
  RingTypeOK
  FifoUntilDrop
  EmptyHeadMeansDrained
  EveryPushAccountedFor
PROPERTIES
  ImplementsRelaxedQueue
CHECK_DEADLOCK FALSE
