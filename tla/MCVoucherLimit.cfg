SPECIFICATION Spec
CONSTANTS
    c1 = c1
    c2 = c2
    c3 = c3
    Users = {"u1", "u2"}
    Calls = {c1, c2, c3}
    UserOf <- MCUserOf
    StartQuantities = {1}
    Updates = {}
    NewQuantities = {Unchanged}
    Unchanged = Unchanged
INVARIANT UsesWithinQuantity
\* Every call ends.
CHECK_DEADLOCK FALSE
