SPECIFICATION Spec
CONSTANTS
    c1 = c1
    c2 = c2
    c3 = c3
    Users = {"u1", "u2", "u3"}
    Calls = {c1, c2, c3}
    UserOf <- MCUserOf
    StartQuantities = {0, 1}
    Updates = {"a1"}
    NewQuantities = {1, 2, Unchanged}
    Unchanged = Unchanged
SYMMETRY Symmetry
INVARIANTS
    LimitKept
    OncePerUser
PROPERTIES
    RowsFitQuantity
    PreviewHonoured
\* Every call ends.
CHECK_DEADLOCK FALSE
