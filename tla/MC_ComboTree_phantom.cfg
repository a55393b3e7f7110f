\* As MC_ComboTree.cfg with a third Delete: Expansion(old) reads a pair
\* from an entry whose CLevel and buffer are both empty.
CONSTANTS
    Keys = {1, 2, 3, 4}
    Vals = {1}
    NotFound = NotFound
    MaxEntries = 3
    ExpandBufKey = 2
    EntrySizeFactor = 1
    Span = 2
    FreshPuts = TRUE
    MaxNodes = 8
    MaxDeletes = 3
    MaxExpansions = 1
SPECIFICATION MCSpec
VIEW StateView

PROPERTIES KVRefinement
