SPECIFICATION FairSpec
CONSTANTS
    Events = {"e1", "e2"}
    Old = {"e1"}
    Products = {"p1", "p2"}
    Instances = {"i1", "i2"}
    Calls = {"a1"}
    Targets = {"ALL_SHOP", "CATEGORY"}
    AllShop = "ALL_SHOP"
    Covers <- MCCovers
    NameOf <- MCNameOf
    Discounts = {10}
    Windows <- MCWindows
    NewStatuses = {"IN_COMING", "ON_GOING"}
    MaxTime = 2
    MaxKills = 1
    None = "none"
INVARIANTS
    TypeOK
    StatusAgrees
    DeletionResets
PROPERTIES
    EventEnds
