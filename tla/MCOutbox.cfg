CONSTANTS
    m1 = m1
    m2 = m2
    p1 = p1
    p2 = p2
    Poller = {p1, p2}
    Msg = {m1, m2}
    Time = {1, 2}
    BatchSize = 2
    MaxRetries = 2
    MaxFaults = 1
    MaxOverruns = 2
CHECK_DEADLOCK FALSE
SPECIFICATION FairSpec
INVARIANTS
    NothingLost
    RetriesUsedUp
    DuplicatesExplained
PROPERTIES
    Dispatched
    OvertakesExplained
