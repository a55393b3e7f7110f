\* letree::Put on a key already in the tree: checked against KVStore's Put,
\* which overwrites.
CONSTANTS
    Keys = {1, 2}
    Vals = {1, 2}
    NotFound = NotFound
    BucketCap = 2
    EntryCap = 2
    MinEntryCount = 2
    MaxEntryCount = 2
    LinearSample = 1
    MaxBuckets = 3
    FreshPuts = FALSE
SPECIFICATION MCSpec
VIEW StateView
PROPERTIES KVRefinement
