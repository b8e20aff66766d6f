CONSTANTS
    Creators = {c1, c2, c3}
    Closers = {d1, d2}
    Low = 3
    MaxTables = 2
    Readers = {d1, d2}
    LowEntries = 2
    MidEntries = 3
    HighEntries = 3
    Null = Null
SPECIFICATION ASpec
SYMMETRY Symmetric
INVARIANTS
    OneOwner
    NoneLostByCreators
    LookupExact
    NoLeak
