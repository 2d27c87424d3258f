CONSTANTS
    i1 = i1
    i2 = i2
    i3 = i3
    Product = {1, 2}
    Time = {1, 2}
    Limit = 1
    MaxVersion = 3
    Image = {i1, i2, i3}
    MaxFaults = 2
CHECK_DEADLOCK FALSE
SPECIFICATION StoreSpec
INVARIANTS
    IndexExplained
    ReindexComplete
    RowHasBlob
    OrphansExplained
