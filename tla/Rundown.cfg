CONSTANTS
    Users = {u1, u2}
    Slots = {s1, s2}
    Waiters = {w1, w2}
    NoBlock = NoBlock
SPECIFICATION FairSpec
INVARIANTS
    DownMeansUnreferenced
    BlockOutlivesReleasers
PROPERTIES
    NoGrantWhileActive
    Refinement
    WaiterReturns
