\* One slot in either ring, one buffer downstream, four frames, in an arena with
\* room for all of them.
CONSTANTS
    Total = 5
    Align = 1
    Sizes = {1}
    MaxId = 8
    ReadyCap = 1
    RecCap = 1
    U64 = 1000
    Leases = {l1}
    Wraps = {w1}
    LatestOnly = {FALSE}
    OverflowChecks = TRUE
    MayCrash = FALSE
    MaxFrames = 4
    MaxAttach = 1
    MaxAllocs = 5
    MaxPos = 9
    None = None
SPECIFICATION FairTransportSpec
PROPERTIES NobodyStuck
CHECK_DEADLOCK FALSE
