SPECIFICATION Spec
CONSTANTS
  one = one
  two = two
  Files <- TwoFiles
  FirstContents <- GivenFiles
  MaxEntries = 3
  MaxFailures = 1
  MaxCrashes = 1
SYMMETRY FileSymmetry
INVARIANTS AcknowledgedSurvives MemoryIsFile TreeClosed
