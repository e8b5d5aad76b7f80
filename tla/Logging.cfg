SPECIFICATION Spec
CONSTANTS
    MaxRotations = 3
    MaxSignals = 2
    MaxDenials = 2
    MaxRecords = 3
INVARIANTS
    NothingLost
    OneFileOpen
PROPERTIES
    RotationFollowed
