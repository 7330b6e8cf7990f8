SPECIFICATION Spec
CONSTANTS
  Cids = {2, 3, 4}
  Control = 2
  Lengths = {0, 5}
  Sizes = {1, 2, 3}
  FirstSize = 2
  MinSize = 2
  Escape = 3
  ExtendedTimestamp = 15
  TimeMod = 4
  MaxTime = 3
  MaxMsgs = 3
INVARIANTS
  Intact
  RefusedForCause
  FramingKept
PROPERTY
  StreamsApart
CHECK_DEADLOCK FALSE
