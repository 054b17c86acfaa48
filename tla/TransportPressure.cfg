\* Both receive modes, a consumer that dies and comes back, and four blocks for six
\* frames, so that the writer drops and resets while receives and finalizers run.
CONSTANTS
    Total = 4
    Align = 1
    Sizes = {1}
    MaxId = 12
    ReadyCap = 3
    RecCap = 2
    U64 = 1000
    Leases = {l1}
    Wraps = {w1}
    LatestOnly = {TRUE,FALSE}
    OverflowChecks = TRUE
    MayCrash = TRUE
    MaxFrames = 6
    MaxAttach = 2
    MaxAllocs = 6
    MaxPos = 6
    None = None
SPECIFICATION TransportSpec
INVARIANTS TransportTypeOK CleanRingsBounded CleanSingleOwner
PROPERTIES ImplementsChannel
CHECK_DEADLOCK FALSE
