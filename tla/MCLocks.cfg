CONSTANTS
    Threads = {t1, t2, t3, t4}
    NoThread = NoThread
    Users = {t1, t2, t3}
    Entries = {e1, e2}
    Null = Null
    GuardedCalls = 5
    FastCalls = 6
    EntryCalls = 3
    PushCalls = 4
SPECIFICATION AFairSpec
INVARIANTS
    MutexesExact
    EntryLocksExact
PROPERTIES
    LocksExclude
    CallsReturn
CHECK_DEADLOCK FALSE
