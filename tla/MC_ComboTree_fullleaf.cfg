\* As MC_ComboTree.cfg with BLEVEL_EXPAND_BUF_KEY equal to max_entries (the
\* build leaves both open): FlushToEntry stores a full buffer with no CLevel,
\* and the next BEntry::Put sets the CLevel up from it as a full leaf.
CONSTANTS
    Keys = {1, 2, 3, 4}
    Vals = {1}
    NotFound = NotFound
    MaxEntries = 3
    ExpandBufKey = 3
    EntrySizeFactor = 1
    Span = 2
    FreshPuts = TRUE
    MaxNodes = 8
    MaxDeletes = 2
    MaxExpansions = 2
SPECIFICATION MCSpec
VIEW StateView

INVARIANT CLevelSound
