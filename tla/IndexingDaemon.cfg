SPECIFICATION FairSpec
CONSTANTS
  r1 = r1
  r2 = r2
  none = none
  Repos <- TwoRepos
  MaxEdits = 2
  MaxChanges = 1
  MaxFailures = 1
  MaxCrashes = 1
  MaxInputs = 3
INVARIANTS
  QueueHasWorker
  RegistryServed
  NothingForgotten
PROPERTY ChangesIndexed
CHECK_DEADLOCK FALSE
