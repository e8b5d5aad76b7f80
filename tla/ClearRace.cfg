SPECIFICATION Spec

CONSTANTS
    N = 2
    Heartbeat = TRUE
    TTL = 0
    Leftover = {}
    LogLines = {{1}, {1, 2}}
    FaultKinds = {}
    MaxFaults = 0
    MaxLines = 2
    MaxCron = 0
    MaxClears = 1
    MaxSignals = 0
    MaxExporterFailures = 0
    MaxCrashes = 0
    MaxRestarts = 0

INVARIANTS
    ClearZeroesBoth
