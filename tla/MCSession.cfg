CONSTANTS
  Capacity = 2
  Window = 2
  MaxOffers = 3
  AllTopics <- MCTopics
  kMaxPayloadBytes = 8
  Configs <- MCConfigs
  LocalTime <- MCLocalTime
  MaxCalls <- MCCalls
SPECIFICATION SFairSpec
INVARIANTS
  STypeOK
  QTypeOK
  DeliveredOnce
  BoundedDisplacement
  FilesReplayable
  RecordsWhatIsAsked
  WriterOutlivesCallbacks
  EveryCallAccountedFor
PROPERTIES
  RecordingsOnlyGrow
  SigintEnds
CHECK_DEADLOCK FALSE
