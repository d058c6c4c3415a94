SPECIFICATION FairSpec
CONSTANTS
  n1 = n1  n2 = n2  p1 = p1  p2 = p2
  Node <- TwoNodes
  Pod <- OnePod
  NumaCount = 2
  Policy <- MixedPolicy
  Whitelist <- OnePod
  Guaranteed <- OnePod
  ChanSize = 1
  MaxEdits = 0
  Faults = {}
PROPERTY FirstAdjustment
CHECK_DEADLOCK FALSE
