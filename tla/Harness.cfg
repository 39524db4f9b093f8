SPECIFICATION Spec
CONSTANTS
  o1 = o1
  o2 = o2
  noneOp = noneOp
  Ops <- TwoOps
  Kinds = {"prompt", "compact", "navigate"}
  Overlap = FALSE
  Faults = {"listener", "hook", "snapshot", "session"}
  MaxFaults = 2
  MaxQueued = 2
  MaxWrites = 2
  MaxAborts = 1
  MaxRequests = 2
  MaxInputs = 3
INVARIANTS
  
  PhaseTracksOperation
  QueuedInOnePlace
SYMMETRY OpSymmetry
CHECK_DEADLOCK FALSE
