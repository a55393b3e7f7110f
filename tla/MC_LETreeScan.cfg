\* letree::Scan against KVStore's Scan (spec.md: keys ascending, every key
\* >= the start key, the first len of them).
CONSTANTS
    Keys = {1, 2}
    Vals = {1}
    NotFound = NotFound
    BucketCap = 2
    EntryCap = 2
    MinEntryCount = 2
    MaxEntryCount = 2
    LinearSample = 1
    MaxBuckets = 3
    FreshPuts = TRUE
SPECIFICATION MCSpecScan
VIEW StateView
PROPERTIES KVRefinement
