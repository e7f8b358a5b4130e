SPECIFICATION Spec
CONSTANTS
    Orders = {"o1", "o2"}
    Requests = {"r1", "r2"}
    NoOrder = "no order"
    BankingOrders = {"o1"}
    VoucherOrders = {"o1", "o2"}
    PointsOf <- MCPoints
    Products = {"p1", "p2"}
    ItemsOf <- MCItems
    TotalOf <- MCTotal
    AdminStatuses = {"PENDING", "DELIVERED"}
    Removable = {"voucher", "p2"}
    StartInventory <- MCInventory
    StartPoints = 1
    StartVouchers = {"none", "unused"}
    MaxCalls = 3
    MaxOverlapping = 3
    MaxCrashes = 1
INVARIANTS
    NeverOverdrawn
    VoucherHeld
    StockReturnedOnce
\* Every call ends.
CHECK_DEADLOCK FALSE
