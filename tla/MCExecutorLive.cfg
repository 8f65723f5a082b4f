SPECIFICATION FairSpec
CONSTANTS
  Requests = {r1, r2}
  Names = {n1}
  Specs = {s1}
  None = None
  MaxReconciles = 1
  MaxDeletions = 0
PROPERTIES
  KeepsPromises
  EveryDeliveryAnswered
CHECK_DEADLOCK FALSE
