SPECIFICATION Spec
CONSTANTS
  Group = {g, total}
  Root = root
  Total = total
  Counter = {l3, mbm}
  Value = {7}
  Bad = bad
  None = none
  Faults = {"read", "crash"}
INVARIANTS TypeOK PassComplete
