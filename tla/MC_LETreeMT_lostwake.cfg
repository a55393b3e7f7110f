CONSTANTS
    Threads = {t1, t2}
    NGroups = 2
    MaxGen = 1
    MaxOps = 1
    Ops = {"Put", "Get"}
    NoOwner = NoOwner
SPECIFICATION Spec
CHECK_DEADLOCK FALSE

PROPERTIES WaitersWake
