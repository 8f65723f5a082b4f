CONSTANTS
    WriteTimeout = 2
    SyncTimeout = 4
    ShutdownTimeout = 5
    MaxApply = 3
    MaxTime = 14

SPECIFICATION ClockSpec
CHECK_DEADLOCK FALSE

INVARIANTS
    ResponseReceived
