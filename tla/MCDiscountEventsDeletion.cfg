SPECIFICATION Spec
CONSTANTS
    Events = {"e1"}
    Old = {"e1"}
    Products = {"p1", "p2"}
    Instances = {"i1"}
    Calls = {"a1"}
    Targets = {"ALL_SHOP", "CATEGORY"}
    AllShop = "ALL_SHOP"
    Covers <- MCCovers
    NameOf <- MCNameOf
    Discounts = {10}
    Windows <- MCWindows
    NewStatuses = {"IN_COMING", "ON_GOING"}
    MaxTime = 2
    MaxKills = 0
    None = "none"
INVARIANT DeletionAlwaysResets
