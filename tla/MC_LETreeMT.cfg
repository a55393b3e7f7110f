\* Two threads calling Put, Update, Delete and Get, two operations each; up to two
\* ExpandTree calls, two groups after the first.  No symmetry: a liveness
\* property is checked.
CONSTANTS
    Threads = {t1, t2}
    NGroups = 2
    MaxGen = 2
    MaxOps = 2
    Ops = {"Put", "Update", "Delete", "Get"}
    NoOwner = NoOwner
SPECIFICATION Spec
\* The MULTI_THREAD code can deadlock (see the mt_* violation runs), so
\* deadlock is reported through those properties, not here.
CHECK_DEADLOCK FALSE
INVARIANTS TypeOK ExpandExclusive
PROPERTIES ExpansionEnds
