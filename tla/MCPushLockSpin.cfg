CONSTANTS
    Threads = {t1, t2, t3}
    Null = Null
    Calls = {"exclusive", "shared"}
    MaxCalls = 1
SPECIFICATION LFairSpec
PROPERTIES
    CallsReturn
CHECK_DEADLOCK FALSE
