CONSTANTS
    Kinds = {"notify", "sd", "callback"}
    NotifyCalls = 5
    SdCalls = 4
    Threads = {t1, t2, t3}
    Families = {"process", "image"}
    Routines = {x1, x2}
    Blocks = {m1, m2, m3}
    NoBlock = NoBlock
    NoRoutine = NoRoutine
    MaxNotify = 2
    MaxFastRefs = 2
    Objects = {x1, x2}
    NoObject = NoObject
    Descriptors = {1, 2, 3}
    NoDescriptor = NoDescriptor
    Hashes = 2
    Headers = {m1, m2, m3}
    NoHeader = NoHeader
    SdFastRefs = 1
    CallbackObjects = {o1, o2}
    MultipleObjects = {o1}
    Registrations = {m1, m2, m3}
    NoRegistration = NoRegistration
SPECIFICATION ASpec
SYMMETRY Symmetry
INVARIANTS
    FastRefsExact
    NoReferenceDangles
    CacheExact
    CallbackCounts
    CalledWhileListed
CHECK_DEADLOCK FALSE
