SPECIFICATION Spec
CONSTANTS
  Keys = {"SEC-1", "sec-1", "SEC-2"}
  Lower <- MCLower
  Values = {"v", "w"}
  Padded <- MCPadded
  TriggerStatus = "approved"
  OtherStatus = "open"
  None = None
  Requests = {r1, r2}
  Deliveries <- MCDeliveries
  Ids = {"a", "b"}
SYMMETRY Symmetry
INVARIANTS
  DeliveryInv
  EffectWarranted
  StampsTraceable
  ResponseTruthful
  CountersAddUp
