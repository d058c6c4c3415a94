SPECIFICATION FairSpec
CONSTANTS
  Kinds = {"netrela", "numafast"}
  Overlap <- MaxCalls
  Sizes = {3, 4}
  FaSize = 4
  MaxDepth = 3
  CpusOf <- TwoNodes
  CpusetSize = 2
  Threads <- OneEach
  Reports <- NetReports
  RelSize = 2
  Gids <- KernelGids
  MayFail = {2}
  None = none
  Faults = {"kill", "signal", "agent"}
INVARIANTS TypeOK AnswerRight
PROPERTIES  Returns
CHECK_DEADLOCK FALSE
