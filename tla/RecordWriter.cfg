CONSTANTS
  Capacity = 2
  Producers = {p1, p2}
  MaxClaims = 6
  HeaderCells = 2
  PayloadCells = 1
  PreambleCells = 1
  Faults = {}
SPECIFICATION WSpec
INVARIANTS
  WTypeOK
  FileFollowsPops
  SyncedWhenClosed
  NothingPendingMeansDurable
  WritesOnlyOpenFile
  DrainedIfNoDrop
PROPERTY
  ImplementsRecording
CHECK_DEADLOCK FALSE
