SPECIFICATION FairSpec
CONSTANTS
  o1 = o1
  o2 = o2
  noneOp = noneOp
  Ops <- TwoOps
  Kinds = {"prompt", "compact"}
  Overlap = TRUE
  Faults = {"listener"}
  MaxFaults = 1
  MaxQueued = 0
  MaxWrites = 0
  MaxRequests = 1
  MaxAborts = 1
  MaxInputs = 3
PROPERTIES
  OperationsSettle
  AbortSettles
CHECK_DEADLOCK FALSE
