CONSTANTS
  Base = 2
  NameBytes = 4
  kMagic <- MCMagic
  FileHeaders <- MCFileHeaders
  TopicMetas <- MCTopicMetas
  RecordHeaders <- MCRecordHeaders
  IndexEntries <- MCIndexEntries
  JoyMsgs <- MCJoyMsgs
  Following <- MCFollowing
SPECIFICATION CodecSpec
INVARIANTS
  RoundTrips
  FixedSize
  LittleEndian
CHECK_DEADLOCK FALSE
