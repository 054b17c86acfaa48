\* Two sessions on the one region, two memories on two blocks, one slot in the ready
\* ring; each call may ask for more than the arena.
CONSTANTS
    Mems = {m1, m2}
    Blocks = 2
    ReadyCap = 1
    MaxStarts = 2
    MaxLeases = 2
    None = None
SPECIFICATION SinkSpec
INVARIANTS SinkTypeOK PublishesOwnLease  SinkWaitsEnd
CHECK_DEADLOCK FALSE
