CONSTANTS
    Environments <- MCEnvironments
    Normalized <- MCNormalized
    Registered = {"jsm", "other"}

SPECIFICATION Spec
CHECK_DEADLOCK FALSE

INVARIANTS
    TypeOK
    FirstErrorReported
    ServesOnlyValid
    ServesAsConfigured
