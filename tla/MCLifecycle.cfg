SPECIFICATION FairSpec
CONSTANTS
  Requests = {r1, r2, r3}
INVARIANTS
  ExitZeroMeansDrained
  AdminOutlivesPublic
  FailureNotMasked
  ListenersNeverBlock
  ProcessInv
PROPERTIES
  ShutdownCompletes
  DrainRefusesTraffic
  ReadyIsServed
CHECK_DEADLOCK FALSE
