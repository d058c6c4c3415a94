SPECIFICATION FairSpec
CONSTANTS
  a = a  b = b
  Pod <- Pods
  Local <- Pods
  Group = {g1}
  Root = root
  None = none
  Pid = {1, 2}
  Faults = {"api", "write", "crash", "relabel"}
INVARIANTS TypeOK NothingMissed LeftOver OwnGroup
PROPERTY TasksReach
CHECK_DEADLOCK FALSE
