\* An arena of one frame: the second frame is allocated while the first is held.
CONSTANTS
    Total = 1
    Align = 1
    Sizes = {1}
    MaxId = 8
    ReadyCap = 1
    RecCap = 1
    U64 = 1000
    Leases = {l1}
    Wraps = {w1}
    LatestOnly = {FALSE}
    OverflowChecks = TRUE
    MayCrash = FALSE
    MaxFrames = 2
    MaxAttach = 1
    MaxAllocs = 6
    MaxPos = 9
    None = None
SPECIFICATION TransportSpec
INVARIANTS HeldIntact
CHECK_DEADLOCK FALSE
