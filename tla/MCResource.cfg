CONSTANTS
    Threads = {t1, t2, t3, m}
    Users = {t1, t2, t3}
    Pointers = {p}
    NoOwner = NoOwner
    Pending = Pending
    FirstSize = 2
    Growth = 1
    MaxCalls = 4
SPECIFICATION LFairSpec
INVARIANTS
    ResourceExact
PROPERTIES
    MutualExclusion
    CallsReturn
CHECK_DEADLOCK FALSE
