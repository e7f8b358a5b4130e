SPECIFICATION Spec
CONSTANTS
    Calls = {c1, c2, c3, c4}
    Passwords = {p1, p2}
    None = None
SYMMETRY Symmetry
INVARIANTS
    PasswordOpens
\* Every call ends.
CHECK_DEADLOCK FALSE
