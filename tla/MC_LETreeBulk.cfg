\* bulk_load of fewer pairs than min_entry_count (spec.md seed scenario 1
\* loads three pairs; the code's min_entry_count is 64).
CONSTANTS
    Keys = {1, 2, 3}
    Vals = {1}
    NotFound = NotFound
    BucketCap = 2
    EntryCap = 2
    MinEntryCount = 4
    MaxEntryCount = 2
    LinearSample = 1
    MaxBuckets = 4
    FreshPuts = TRUE
SPECIFICATION MCSpecAnyBulk
VIEW StateView
INVARIANT HasGroup
