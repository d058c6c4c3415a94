SPECIFICATION Spec
CONSTANTS
  N = 2
  C = 3
  MaxReq = 4
  MaxPods = 4
INVARIANTS TypeOK EnoughCpus Exclusive RunsOutWhenFull CpuBalanced
CHECK_DEADLOCK FALSE
