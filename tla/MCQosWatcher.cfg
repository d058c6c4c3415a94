SPECIFICATION FairSpec
CONSTANTS
  a = a  b = b
  Group = {g1}
  Default = default
  NodeMap = nodemap
  Ctrl <- OneCtrl
  Pri = {1, 2}
  Config <- Two
  Broken <- TwoBroken
  Contents <- TwoContents
  None = none
  Unset = unset
  MaxLag = 1
  Faults = {"api", "write", "crash"}
INVARIANTS TypeOK InForce 
PROPERTIES NodeConfigReaches GroupConfigReaches
CHECK_DEADLOCK FALSE
