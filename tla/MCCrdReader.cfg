SPECIFICATION FairSpec
CONSTANTS
  p1 = p1
  Pod <- OnePod
  NumaCount = 2
  Guaranteed = {}
  ChanSize = 2
  MaxInc <- Incs1
  MaxEdits = 1
  Faults = {"api", "runtime", "watch", "crash"}
INVARIANTS TypeOK OnlyNamed Settled SharedNotPinned
PROPERTIES PlacementReaches RestartNoticed
CHECK_DEADLOCK FALSE
