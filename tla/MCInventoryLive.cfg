CONSTANTS
    r1 = r1
    r2 = r2
    o1 = o1
    o2 = o2
    t1 = t1
    t2 = t2
    SKU = {1, 2}
    ResId = {r1, r2}
    Order = {o1}
    Tx = {t1, t2}
    NoOrder = NoOrder
    NoTx = NoTx
    NoRes = NoRes
    MaxInt4 = 1
    IntModulus = 8
    Requests <- MCRequestsLive
SPECIFICATION FairSpec
PROPERTIES
    CallReturns
    LedgerSpec
