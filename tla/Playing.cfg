SPECIFICATION Spec
CONSTANTS
  MaxJitter = 2
  FrameTime = 1
  QueueSize = 3
  MinMsgs = 1
  MwSleep = 1
  MaxBatch = 2
  Atc = FALSE
  Classes = {"adpcm", "avcKey"}
  MaxTs = 3
  MaxEnqueue = 4
  MaxRecv = 2
INVARIANTS
  NoLostWakeup
  DeliveryOrder
PROPERTIES
  ReceiverIsThread
  WindowBounded
  CloseEndsSession
  ReadyBatchTaken
CHECK_DEADLOCK FALSE
