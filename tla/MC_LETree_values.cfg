\* Fresh puts of two distinct values, so that Update's overwrite and the
\* value a Get returns are visible to the refinement.
CONSTANTS
    Keys = {1, 2, 3}
    Vals = {1, 2}
    NotFound = NotFound
    BucketCap = 2
    EntryCap = 2
    MinEntryCount = 2
    MaxEntryCount = 2
    LinearSample = 1
    MaxBuckets = 3
    FreshPuts = TRUE
SPECIFICATION MCSpecBulk
VIEW StateView

PROPERTIES KVRefinement
