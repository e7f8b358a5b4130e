SPECIFICATION FairSpec
CONSTANTS
    Orders = {"o1"}
    Requests = {"r1", "r2", "r3", "r4"}
    NoOrder = "no order"
    BankingOrders = {"o1"}
    VoucherOrders = {"o1"}
    PointsOf <- MCPoints
    Products = {"p1", "p2"}
    ItemsOf <- MCItems
    TotalOf <- MCTotal
    AdminStatuses = {"PENDING", "DELIVERED"}
    Removable = {"p2"}
    StartInventory <- MCInventory
    StartPoints = 2
    StartVouchers = {"unused"}
    MaxCalls = 5
    MaxOverlapping = 3
    MaxCrashes = 0
INVARIANTS
    TypeOK
    MoneyBacked
    CountdownBacked
    StockReturnedOnce
    RefundsMatchPayments
PROPERTIES
    
    ArmedWaitEnds
    ExpiryGivesBack
\* Every call ends.
CHECK_DEADLOCK FALSE
