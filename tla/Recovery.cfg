SPECIFICATION FairSpec

CONSTANTS
    N = 2
    Heartbeat = TRUE
    TTL = 60
    Leftover = {}
    LogLines = {{1}, {1, 2}}
    FaultKinds = {}
    MaxFaults = 1
    MaxLines = 1
    MaxCron = 1
    MaxClears = 0
    MaxSignals = 1
    MaxExporterFailures = 1
    MaxCrashes = 0
    MaxRestarts = 0

PROPERTIES
    CatchesUp
    ShutdownEnds
    ExporterFailureEnds
    RecoveryReported
