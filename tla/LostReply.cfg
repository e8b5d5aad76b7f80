SPECIFICATION Spec

CONSTANTS
    N = 2
    Heartbeat = TRUE
    TTL = 0
    Leftover = {}
    LogLines = {{1}, {1, 2}}
    FaultKinds = {"lost"}
    MaxFaults = 1
    MaxLines = 2
    MaxCron = 0
    MaxClears = 0
    MaxSignals = 0
    MaxExporterFailures = 0
    MaxCrashes = 0
    MaxRestarts = 0

INVARIANTS
    NeverCountedTwice
