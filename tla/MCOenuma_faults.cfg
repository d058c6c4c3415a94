SPECIFICATION Spec
CONSTANTS
  n1 = n1  n2 = n2  p1 = p1  p2 = p2
  Node <- NetNode
  Pod <- TwoPods
  NumaCount = 2
  Policy <- NetPolicy
  Whitelist <- TwoPods
  Guaranteed <- OnePod
  ChanSize = 2
  MaxEdits = 1
  Faults = {"api", "crash", "watch"}
INVARIANT IndInv
PROPERTY ImplementsStore
CHECK_DEADLOCK FALSE
