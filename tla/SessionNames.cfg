CONSTANTS
  Capacity = 2
  Window = 2
  MaxOffers = 3
  AllTopics <- MCTopics
  kMaxPayloadBytes = 8
  Configs <- MCConfigs
  LocalTime <- MCLocalTime
  MaxCalls <- MCCalls
SPECIFICATION SSpec
INVARIANT
  SessionsKept
CHECK_DEADLOCK FALSE
