CONSTANTS
    w1 = w1
    w2 = w2
    s1 = s1
    c1 = c1
    c2 = c2
    NONE = NONE
    Worker = {w1, w2}
    Slot = {s1}
    Sku = {1, 2, 3}
    Body <- Bodies
    LinesOf <- LinesOfBody
    PriceList <- Prices
    MaxInt64 = 7
    MaxInt32 = 3
    MaxOrders = 3
    MaxVersion = 6
    MaxMessages = 5
    Client = {c1, c2}
    Quantity = {0, 1, 2}
    Price = {1, 4}
    MaxCartVersion = 3
SPECIFICATION ShopSpec
SYMMETRY Symmetry
INVARIANTS
    AnswersAgree
    EventsTruthful
    TotalExact
    ViewsFresh
    MoneyExact
PROPERTIES
    ImplementsBook
    NoLostUpdate
