SPECIFICATION Spec
CONSTANTS
    MaxInterval = 3
    MaxTTL = 8
    MaxSlow = 2
    MaxFails = 2
    MaxLines = 1
    Horizon = 12
INVARIANTS
    ExpiresOnlyWhenStarved
    WarnedOfExpiry
