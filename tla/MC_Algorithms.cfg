\* The inputs of the four pure-algorithm checks together.
CONSTANTS
    BucketCap = 5
    SplitKeys = {1, 2, 3, 4, 5, 6}
    SplitVals = {1, 2}
    SmallLen = 6
    SmallMax = 8
    LongLens = {13, 17, 20}
    NoInput = NoInput
    RouteMaxKey = 9
    RouteMaxLen = 6
    RouteSpans = {1, 2, 3}
    CLevelEntries = 3
    InsertKeys = {1, 2, 3, 4, 5, 6}
INIT Init
NEXT Next
INVARIANTS SplitPartitions FindEntryIsUpperBound FindPosIsUpperBound ALevelRoutes CLevelBuildSound
