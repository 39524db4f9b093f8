SPECIFICATION Spec
CONSTANTS
  w1 = w1
  w2 = w2
  Writers <- TwoWriters
  Torn = TRUE
  MaxLines = 3
  MaxWindows = 1
  MaxCrashes = 1
INVARIANTS
  MemoryDurable
  TreeSound
  MemoryIsFile
SYMMETRY WriterSymmetry
CHECK_DEADLOCK FALSE
