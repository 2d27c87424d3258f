CONSTANTS
    i1 = i1
    i2 = i2
    Image = {i1, i2}
    MaxFaults = 0
CHECK_DEADLOCK FALSE
SPECIFICATION MediaSpec
INVARIANTS
    PrimaryExclusive
