CONSTANTS
    Creators = {c1, c2}
    Closers = {d1}
    Low = 4
    MaxTables = 1
SPECIFICATION Spec
INVARIANTS
    UnlockAssertion
CHECK_DEADLOCK FALSE
