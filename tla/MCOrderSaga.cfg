CONSTANTS
    e1 = e1
    e2 = e2
    w1 = w1
    w2 = w2
    Executor = {e1, e2}
    Watchdog = {w1, w2}
    OrderAdvances = TRUE
    BatchSize = 1
    MaxAhead = 1
    MaxFaults = 1
CHECK_DEADLOCK FALSE
SPECIFICATION FairSpec
INVARIANTS
    LogIsPath
    PayloadTruthful
    EndIsComplete
    StockLeavesOnlyPaid

    
