SPECIFICATION ShopSpec
CONSTANTS
    Calls = {0, 1, 2, 3}
    VariantSizes = {"s1", "s2"}
    Earlier = 0
    StartLines = {"s1"}
    Requests <- MCRequests
    Stocks = {1, 2}
    StartStock <- MCStartStock
    MaxMoves = 1
    None = None
    AdminCalls = {1, 2, 3}
    Movers = {11}
    Names = {"s", "m"}
    Creations <- MCCreations
    Edits <- MCEdits
    Unset = Unset
    NoEdit = NoEdit
    Banks = {"b1", "b2", "b3"}
    BankWorkers = {1, 2}
    Accounts = {"x", "y", "z"}
    StartBanks <- MCStartBanks
    MaxPicks = 6
    MaxEdits = 2
    NoBank = NoBank
    Products = {"p1"}
    Items = {"i1", "i2"}
    ProductOf <- MCProductOf
    ReviewCalls = {1, 2, 3}
    Savers = {11}
    Ratings = {2, 5}
    NoReview = NoReview
    Users = {"u1", "u2"}
    Addresses = {"a1", "a2", "a3"}
    OwnerOf <- MCOwnerOf
    AddressWorkers = {"w1", "w2"}
    MaxCalls = 5
    NoOne = NoOne
    Clients = {"u1"}
    ChatCalls = {1, 2, 3, 4}
    Nobody = Nobody
    SalesOrders = {"o1", "o2"}
    SalesProducts = {"p1", "p2"}
    Amounts = {1, 2}
    DaysPerMonth = 2
    Moments = {4, 47, 48, 52}
    Missing = Missing
    Orders = {"o1", "o2", "o3"}
    BankingOrders = {"o1", "o2"}
    AdminStatuses = {"DELIVERED"}
    Cancellable = {"PROCESSING", "PENDING", "CONFIRMED"}
    ItemCount <- MCItemCount
    Chars <- MCChars
    Digits <- MCDigits
    Prefix <- MCPrefix
    Dates <- MCDates
    TimeLength = 2
    CodeLength = 2
    UserOf <- MCUserOf
    Codes <- MCCodes
    Readers = {}
    Admin <- MCAdmin
    perPage = 2
    MaxCut = 6
    MaxChanges = 4
    MaxPage = 3
INVARIANTS
    ShopTypeOK
    LinesWithinStock
    EditSettlesTotals
    ClosedStaysClosed
    BanksTakeTurns
    AccountsUnique
    RatingIsAverage
    OneDefault
    ListedWereAnnounced
    ReportsAgree
    TransferPaysItsOrder
    HeaderLeadsThroughList
PROPERTIES
    KeepsCartPromise
\* Every call ends.
CHECK_DEADLOCK FALSE
