SPECIFICATION Spec
CONSTANTS
  r1 = r1
  r2 = r2
  none = none
  Repos <- TwoRepos
  MaxEdits = 0
  MaxChanges = 0
  MaxFailures = 2
  MaxCrashes = 0
  MaxInputs = 3
PROPERTY ResourceFailureBlocks
CHECK_DEADLOCK FALSE
