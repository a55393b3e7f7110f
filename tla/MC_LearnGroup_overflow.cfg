\* learn_group.h at its own entry_count: a PointerBEntry holds up to 4
\* eentries, while ExpandAllGroup allocates 3 new groups per old one.  One
\* loaded group of one PointerBEntry (max_entry_counts = 1) filled by fresh
\* puts to 4 eentries, then a Put into a full bucket: ExpandGroup writes
\* four groups into an array of three.
CONSTANTS
    Keys = {1, 2, 3, 4, 5, 6}
    Vals = {1}
    NotFound = NotFound
    BucketCap = 2
    EntryCap = 4
    MaxEntryCounts = 1
    Epsilon = 4
    MaxGroups = 1
    RootErrorBound = 3
    MaxBuckets = 5
    FreshPuts = TRUE
    LoadSets = {{1}}
SPECIFICATION MCSpec
VIEW StateView

INVARIANT GroupsFit
