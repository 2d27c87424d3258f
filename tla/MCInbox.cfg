CONSTANTS
    c1 = c1
    c2 = c2
    Consumer = {c1, c2}
    Msg <- MCMsg
    Kind <- MCKind
    Records <- MCRecords
    MaxFetch = 2
    MaxFaults = 1
    MaxRebalances = 2
    MaxErrors = 1
CHECK_DEADLOCK FALSE
SPECIFICATION FairSpec
INVARIANTS
    CompletedIsDone
    CommittedHandled
    OneMail
PROPERTIES
    Consumed
