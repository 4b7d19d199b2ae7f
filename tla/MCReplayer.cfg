CONSTANTS
  Base = 4
  NameBytes = 3
  kMagic <- MCMagic
  Sessions <- MCSessions
  OtherFiles <- MCOtherFiles
  Overrun <- MCOverrun
  Registry <- MCRegistry
  MaxClock = 5
SPECIFICATION RFairSpec
INVARIANTS
  RTypeOK
  ReplayedAsRecorded
  EveryWholeRecordReplayed
  NeverEarly
  ReadsInsideFile
PROPERTIES
  EachStepGetsFurther
  ReplayEnds
CHECK_DEADLOCK FALSE
