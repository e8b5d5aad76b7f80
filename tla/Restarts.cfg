SPECIFICATION Spec

CONSTANTS
    N = 2
    Heartbeat = TRUE
    TTL = 0
    Leftover = {}
    LogLines = {{1}, {1, 2}}
    FaultKinds = {}
    MaxFaults = 1
    MaxLines = 1
    MaxCron = 1
    MaxClears = 1
    MaxSignals = 1
    MaxExporterFailures = 0
    MaxCrashes = 1
    MaxRestarts = 1

PROPERTIES
    ExactlyOnce
