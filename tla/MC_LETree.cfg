CONSTANTS
    Keys = {1, 2, 3, 4, 5}
    Vals = {1}
    NotFound = NotFound
    BucketCap = 2
    EntryCap = 2
    MinEntryCount = 2
    MaxEntryCount = 2
    LinearSample = 1
    MaxBuckets = 4
    FreshPuts = TRUE
SPECIFICATION MCSpec
VIEW StateView
INVARIANTS TypeOK EntryRouting NecCounts
PROPERTIES KVRefinement PutCompletes
