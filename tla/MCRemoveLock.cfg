CONSTANTS
    Users = {u1, u2, u3}
    Tags = {g1, g2}
    NoTag = NoTag
    Debug = TRUE
    MaxCalls = 2
SPECIFICATION LFairSpec
INVARIANTS
    GoneMeansUnused
    CountExact
    BlocksExact
PROPERTIES
    RemovalEnds
CHECK_DEADLOCK FALSE
