CONSTANTS
    Threads = {t1, t2, t3}
    Null = Null
    Calls = {"exclusive", "try", "shared", "convert", "waiton", "any"}
SPECIFICATION Spec
SYMMETRY ThreadSymmetry
INVARIANTS
    WakeUpIsDue
    NobodyForgotten
    NoDeadBlock
    ShareCountExact
PROPERTIES
    MutualExclusion
