SPECIFICATION Spec
CONSTANTS
  p = p
  q = q
  a = a
  b = b
  image = image
  none = none
  Procs <- TwoProcs
  Calls <- ThreeCalls
  Metered <- TextCalls
  Priced <- TextCalls
  Policies <- SomePolicies
  Usages <- SomeUsages
  MaxSafe = 3
  MaxPolicies = 1
  MaxFaults = 1
SYMMETRY Alike
INVARIANTS AdmittedIsCounted HistoryAccepted
PROPERTIES AdmissionWithinLimit LedgerIsAtomic
