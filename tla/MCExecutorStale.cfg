SPECIFICATION Spec
CONSTANTS
  Requests = {r1, r2, r3}
  Names = {n1}
  Specs = {s1, s2}
  None = None
  MaxReconciles = 1
  MaxDeletions = 1
SYMMETRY Symmetry
CONSTRAINT Undisturbed
INVARIANTS
  SuccessNeverStale
CHECK_DEADLOCK FALSE
