SPECIFICATION Spec

CONSTANTS
    N = 2
    Heartbeat = TRUE
    TTL = 60
    Leftover = {4}
    LogLines = {{1, 2}}
    FaultKinds = {"lost", "half", "resent"}
    MaxFaults = 2
    MaxLines = 2
    MaxCron = 1
    MaxClears = 0
    MaxSignals = 1
    MaxExporterFailures = 0
    MaxCrashes = 0
    MaxRestarts = 0

INVARIANTS
    TypeOK
    HeartbeatSettled
    ResetComplete
    ResetBoundary
    CleanShutdown

PROPERTIES
    DeferredResetFirst
    AtLeastOnce
