SPECIFICATION Spec
CONSTANTS
  Requests = {r1, r2}
  Names = {n1, n2}
  Specs = {s1, s2}
  None = None
  MaxReconciles = 1
  MaxDeletions = 1
SYMMETRY Symmetry
INVARIANTS
  SuccessMeansReconciled
  NoLostWakeup
  IndInv
  MetricsAddUp
CHECK_DEADLOCK FALSE
