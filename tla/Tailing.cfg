SPECIFICATION Spec
CONSTANTS
    MaxLines = 5
    MaxFiles = 3
INVARIANTS
    CountedInOrder
    HistoryNotCounted
    NoneMissed
