CONSTANTS
    e1 = e1
    e2 = e2
    w1 = w1
    w2 = w2
    Executor = {e1, e2}
    Watchdog = {w1}
    OrderAdvances = FALSE
    BatchSize = 1
    MaxAhead = 0
    MaxFaults = 0
CHECK_DEADLOCK FALSE
SPECIFICATION Spec
INVARIANTS
    NoMoneyKept
