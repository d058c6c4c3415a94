SPECIFICATION Spec
CONSTANTS
  N = 2
  C = 3
  MaxReq = 4
  MaxPods = 3
INVARIANTS PodInOneNuma
CHECK_DEADLOCK FALSE
