SPECIFICATION Spec
CONSTANTS
  Calls = {c1, c2}
  Paths <- AliasPaths
  File <- AliasFile
  Volatile = {"target"}
  none = none
INVARIANT
  ExclusivePerFile
CHECK_DEADLOCK FALSE
