\* SortBuncket (Put, Get, Update and splits) and Buncket (Delete too), with
\* buckets of 2 records and entries of 2 eentries.
CONSTANTS
    SortKeys = {1, 2, 3, 4, 5}
    BitmapKeys = {1, 2, 3, 4}
    Vals = {1, 2}
    NotFound = NotFound
    Cap = 2
    BitScan = 3
    EntryCap = 2
    MaxBuckets = 3
    FreshPuts = TRUE
SPECIFICATION Spec
VIEW StateView
INVARIANTS TypeOK BucketsSorted BitmapMatchesIndex IndexSorted
PROPERTIES KVRefinement
