\* Four keys, nodes and buffers of three records (the smallest max_entries
\* with a split that keeps one record on each side), key_buf of two pairs:
\* enough for a first load of one to four keys to write several entries,
\* for a buffer to flush into a CLevel, a leaf to split and an index root
\* to appear, and for two expansions to read those trees back.  Deletes are
\* bounded at two: the third is what MC_ComboTree_phantom.cfg needs.
CONSTANTS
    Keys = {1, 2, 3, 4}
    Vals = {1}
    NotFound = NotFound
    MaxEntries = 3
    ExpandBufKey = 2
    EntrySizeFactor = 1
    Span = 2
    FreshPuts = TRUE
    MaxNodes = 8
    MaxDeletes = 2
    MaxExpansions = 2
SPECIFICATION MCSpec
VIEW StateView
INVARIANTS TypeOK RoutedToOwner CLevelSound
PROPERTIES KVRefinement
