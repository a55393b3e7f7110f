CONSTANTS
    Threads = {t1, t2}
    NGroups = 2
    MaxGen = 0
    MaxOps = 2
    Ops = {"Update"}
    NoOwner = NoOwner
SPECIFICATION Spec
CHECK_DEADLOCK FALSE

PROPERTIES LocksReleased
