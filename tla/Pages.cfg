SPECIFICATION PagesSpec
CONSTANTS
    c1 = c1
    c2 = c2
    u1 = u1
    u2 = u2
    s1 = s1
    f1 = f1
    f2 = f2
    None = None
    Conn <- MCConn
    Updater <- MCUpdater
    MaxVersion = 3
    All = All
    MaxRows = 4
    Stamp <- MCStamp
    Source <- MCSource
    Fetch <- MCFetch
    Limit = 2
SYMMETRY PagesSymmetry
INVARIANT PagesTypeOK
INVARIANT PageShowsStored
INVARIANT WalkMissesNothing
CHECK_DEADLOCK FALSE
