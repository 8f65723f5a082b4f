CONSTANTS
    Requests = {r1, r2, r3}
    Codes = {200, 429, 500}
    Ids = {"x"}
    MaxWrites = 2

SPECIFICATION Spec
CHECK_DEADLOCK FALSE
SYMMETRY Symmetry

INVARIANTS
    LogMatchesWire
    InflightExact
    CountedOnce
    PanicAnswered
