SPECIFICATION Spec
CONSTANTS
  Requests = {r1, r2, r3, r4, r5}
  Segments = {jsm, other}
  None = None
  Burst = 2
  Period = 3
  Second = 2
  MaxTime = 7
SYMMETRY Symmetry
INVARIANTS
  RateRespected
  OneLimiterPerProvider
  UndisturbedDenialIsFree
PROPERTIES
  RetryAfterSuffices
CHECK_DEADLOCK FALSE
