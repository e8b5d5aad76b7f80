SPECIFICATION Spec
CONSTANTS
    N = 2
    Heartbeat = FALSE
    TTL = 0
    Clients = {c1}
    LogLines = {{1, 2}}
    Troubles = {"down", "refusing"}
    MaxLines = 2
    MaxRequests = 2
    MaxAccidents = 1
INVARIANTS
    Conserved
    ScrapeInBounds
    NumbersAddUp
    PageNeverOverstates
    NoFalseOutage
PROPERTIES
    ExitNotHeldUp
