SPECIFICATION Spec
CONSTANTS
  Pure = 2
  MaxJitter = 2
  FrameTime = 1
  QueueSize = 1
  PureAudioGuess = 1
  Inputs <- MCInputs
  MaxMsgs = 4
  MaxConsumers = 2
  MaxBatch = 2
  A = A
  B = B
SYMMETRY Headers
INVARIANTS
  RefCountsExact
  GopCountersExact
  ConsumersHaveHeader
CHECK_DEADLOCK FALSE
