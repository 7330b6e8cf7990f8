\* 16 units of time, a header cache for two or three headers, two iovecs to begin with.
CONSTANTS
  Packets <- MCPackets
  Media <- MCMedia
  MaxBatch = 3
  MaxMsgs = 4
  StreamId = 1
  FirstSize = 1
  Escape = 3
  ExtendedTimestamp = 15
  CacheMax = 30
  IovsMax = 2
  Limit = 4
SPECIFICATION Spec
INVARIANTS
  CachesFit
PROPERTY ImplementsChannel
CHECK_DEADLOCK FALSE
