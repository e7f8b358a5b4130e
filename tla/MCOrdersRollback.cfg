SPECIFICATION Spec
CONSTANTS
    Orders = {"o1"}
    Requests = {"r1"}
    NoOrder = "no order"
    BankingOrders = {"o1"}
    VoucherOrders = {"o1"}
    PointsOf <- MCPoints
    Products = {"p1", "p2"}
    ItemsOf <- MCItems
    TotalOf <- MCTotal
    AdminStatuses = {}
    Removable = {}
    StartInventory <- MCInventory
    StartPoints = 2
    StartVouchers = {"none"}
    MaxCalls = 2
    MaxOverlapping = 2
    MaxCrashes = 1
INVARIANT PointsRolledBack
\* Every call ends.
CHECK_DEADLOCK FALSE
