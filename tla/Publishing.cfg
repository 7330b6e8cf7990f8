SPECIFICATION Spec
CONSTANTS
  Conns = {c1, c2}
  MaxMsgs = 2
  MaxParts = 1
INVARIANTS
  NoLostError
  GivenUpForCause
  HandlerOutlivesUse
PROPERTIES
  ReceiverIsThread
  CloseEndsPublish
CHECK_DEADLOCK FALSE
