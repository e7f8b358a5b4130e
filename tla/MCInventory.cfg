SPECIFICATION Spec
CONSTANTS
    Jobs = {"checkout1", "checkout2", "restock"}
    Sizes = {"s1", "s2", "s3"}
    Products = {"p1", "p2"}
    ProductOf <- MCProductOf
    Items <- MCItems
    Mode <- MCMode
    SizeAtStart <- MCSizeAtStart
    ProductAtStart <- MCProductAtStart
INVARIANTS
    TypeOK
    NonNegative
    RowLedger
    TotalsAgree
PROPERTIES
    KeepsPromise
\* Every call ends.
CHECK_DEADLOCK FALSE
