SPECIFICATION Spec
CONSTANTS
  Width = 7
  Nanos = 10
  UnixEpoch = 20
  Skew = 20
  MaxHeader = 3
  MaxBody = 1
  MaxNow = 6
INVARIANTS
  TypeOK
  Authentic
  WindowExact
  WindowRespected
  ReplayToldFromCorruption
