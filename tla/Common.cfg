SPECIFICATION CommonSpec
CONSTANTS
  Capacity = 4
  MaxSocket = 6
  MaxRequest = 7
  MaxBytes = 8
  Threads = {t1, t2}
  Joinable = {t1}
  MaxStarts = 4
  DefaultSize = 2
  VectorPushes = 6
  Wild = {0, 1}
  Publishers = {p1, p2}
  Pure = 3
  MaxTs = 3
  MaxPush = 6
  TrackMonotone = TRUE
INVARIANTS
  WithinCapacity
  StreamIntact
  GrowServes
  OnlyCurrentAlive
  DisposeReturns
  HoldsWindow
  OwnedOnce
  CountersExact
  TrackOrder
PROPERTY
  KeepsPromise
CHECK_DEADLOCK FALSE
