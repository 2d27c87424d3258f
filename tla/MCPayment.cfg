CONSTANTS
    s1 = s1
    o1 = o1
    o2 = o2
    w1 = w1
    w2 = w2
    w3 = w3
    Slot = {s1}
    OrderID = {o1, o2}
    Amount = {0, 1, 2}
    Worker = {w1, w2, w3}
    MaxPayments = 2
SYMMETRY Workers
SPECIFICATION Spec
INVARIANTS
    ChargedOnce
    RefundsBalance
