SPECIFICATION Spec
CONSTANTS
  Requests = {r1, r2}
  Names = {n1}
  Specs = {s1}
  None = None
  MaxReconciles = 1
  MaxDeletions = 0
INVARIANTS
  InternalErrorMeansFault
CHECK_DEADLOCK FALSE
