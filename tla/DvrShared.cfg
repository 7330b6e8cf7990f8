SPECIFICATION Spec
CONSTANTS
  Sources = {s1, s2}
  Times = {0, 2}
  SegmentDuration = 1
  AudioLimit = 1
  MaxMsgs = 5
  MaxFaults = 0
  MaxRestarts = 0
INVARIANT FinishedWhole
CHECK_DEADLOCK FALSE
