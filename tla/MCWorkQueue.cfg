CONSTANTS
    Static = {s}
    Dynamic = {d1, d2}
    Workers = {s, d1, d2}
    Clients = {c}
    i1 = i1
    i2 = i2
    Entries = {i1, i2}
    NoEntry = NoEntry
    Needs <- Chain
    MaximumCount = 2
    MaxDynamic = 1
    MaxInterrupts = 2
    MaxCalls = 2
SPECIFICATION LFairSpec
INVARIANTS
    CountExact
    NobodyIdle
    ItemsExact
    DynamicExact
PROPERTIES
    EveryItemRuns
