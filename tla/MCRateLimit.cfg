CONSTANTS
    Requests = 2
    Window = 3
    MaxLag = 1
    MaxTime = 8
    MaxRewound = 2
    MaxFree = 1
SPECIFICATION Spec
INVARIANTS
    BurstBound
    RetryAfterHonoured
