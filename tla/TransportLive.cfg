\* One slot in either ring and six frames, so that the mutual wait is reached, in the
\* smallest arena RoomSuffices allows (Total 4 fails): FIFO receives, and one attach
\* skips what is queued.
CONSTANTS
    Total = 5
    Align = 1
    Sizes = {1}
    MaxId = 9
    ReadyCap = 1
    RecCap = 1
    U64 = 1000
    Leases = {l1}
    Wraps = {w1}
    LatestOnly = {FALSE}
    OverflowChecks = TRUE
    MayCrash = FALSE
    MaxFrames = 6
    MaxAttach = 1
    MaxAllocs = 7
    MaxPos = 12
    None = None
SPECIFICATION FairTransportSpec
INVARIANTS RoomSuffices
PROPERTIES CallsEnd FramesLeave HeldReturns
CHECK_DEADLOCK FALSE
