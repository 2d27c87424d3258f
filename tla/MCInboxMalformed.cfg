CONSTANTS
    c1 = c1
    c2 = c2
    Consumer = {c1}
    Msg <- MCMsg
    Kind <- MCKind
    Records <- MCRecords
    MaxFetch = 2
    MaxFaults = 0
    MaxRebalances = 0
    MaxErrors = 0
CHECK_DEADLOCK FALSE
SPECIFICATION FairSpec
INVARIANTS
    MalformedInDLQ
