SPECIFICATION Spec
CONSTANTS
    Letters = {1, 2}
    Capitals = {1}
    MaxWord = 2
    MaxWords = 3
    MaxLine = 3
    MaxPath = 5
INVARIANTS
    FitForCounting
    OverlapsExact
    MatchesAsWritten
    AllReportedAtOnce
    ServedExactly
