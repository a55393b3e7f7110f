\* entry_count scaled to 2: merges need a neighbour of at most one
\* eentry, and a group expands into at most as many groups as it has
\* PointerBEntries, so ExpandAllGroup's nr_groups_ * 3 suffices here.
CONSTANTS
    Keys = {1, 2, 3, 4, 5}
    Vals = {1}
    NotFound = NotFound
    BucketCap = 2
    EntryCap = 2
    MaxEntryCounts = 2
    Epsilon = 4
    MaxGroups = 3
    RootErrorBound = 3
    MaxBuckets = 4
    FreshPuts = TRUE
    LoadSets = {{1}, {1, 5}}
SPECIFICATION MCSpec
VIEW StateView
INVARIANTS TypeOK IndexOrder
PROPERTIES KVRefinement PutCompletes
