SPECIFICATION FairSpec
CONSTANTS
  Calls = {c1, c2, c3}
  Paths <- LinkedPaths
  File <- LinkedFile
  Volatile = {"fresh"}
  none = none
INVARIANTS
  TypeOK
  ExclusivePerFile
  FirstComeFirstServed
  MapEmptied
PROPERTIES
  CallsSettle
CHECK_DEADLOCK FALSE
