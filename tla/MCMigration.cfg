CONSTANTS
    Contents <- MCContents
    Notes = {n1, n2}
    Supported = {"change"}
    MaxStops = 2
    None = None
    Torn = Torn
SPECIFICATION FairSpec
INVARIANTS ActiveSound NothingLost
PROPERTIES Converges
CHECK_DEADLOCK FALSE
