CONSTANTS
    Threads = {t1, t2, t3}
    NGroups = 2
    MaxGen = 1
    MaxOps = 1
    Ops = {"Put", "Delete"}
    NoOwner = NoOwner
SPECIFICATION Spec
CHECK_DEADLOCK FALSE
SYMMETRY ThreadSymmetry
INVARIANTS NoFreedMutexUse
