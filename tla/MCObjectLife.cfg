CONSTANTS
    Threads = {t1, t2}
    Objects = {o1, o2}
    Name <- SameName
    NoObject = NoObject
    NoThread = NoThread
    OneCalls = 5
    BothCalls = 2
SPECIFICATION LFairSpec
INVARIANTS
    CountsExact
    DeletedOnce
    ReaperAlone
PROPERTIES
    OpenStaysNamed
    NothingLingers
CHECK_DEADLOCK FALSE
