CONSTANTS
    Keys = {1, 2, 3}
    Vals = {1}
    NotFound = NotFound
    Cap = 2
    EntryCap = 2
    MaxBuckets = 3
    FreshPuts = TRUE
SPECIFICATION MCSpecDel
VIEW StateView
INVARIANTS TypeOK
