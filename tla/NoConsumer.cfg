\* No consumer.  Frames of 1, of 2 (the arena is full before the ring: frames are
\* dropped) and of 5 (more than the arena: each resets it and fails); four frames of 1
\* would fit the arena, so the ring of three fills and publish_lease waits.
CONSTANTS
    Total = 4
    Align = 1
    Sizes = {1, 2, 5}
    MaxId = 9
    ReadyCap = 3
    RecCap = 1
    U64 = 1000
    Leases = {l1}
    Wraps = {w1}
    LatestOnly = {FALSE}
    OverflowChecks = TRUE
    MayCrash = FALSE
    MaxFrames = 5
    MaxAttach = 0
    MaxAllocs = 6
    MaxPos = 9
    None = None
SPECIFICATION FairTransportSpec
INVARIANTS QueuedIntact
PROPERTIES BlocksOnlyOnFullRing
CHECK_DEADLOCK FALSE
