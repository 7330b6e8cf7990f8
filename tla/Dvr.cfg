\* Two Sources that are alike.  Five messages let one of them roll and send another message.
SPECIFICATION Spec
CONSTANTS
  Sources = {s1, s2}
  Times = {0, 2}
  SegmentDuration = 1
  AudioLimit = 1
  MaxMsgs = 5
  MaxFaults = 1
  MaxRestarts = 1
SYMMETRY Alike
INVARIANTS
  RecordingExact
PROPERTY
  FinalGrowsOnly
