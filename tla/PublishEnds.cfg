SPECIFICATION Spec
CONSTANTS
  Conns = {c1}
  MaxMsgs = 2
  MaxParts = 1
PROPERTY ClosedConnectionEnds
CHECK_DEADLOCK FALSE
