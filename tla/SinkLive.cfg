\* Two sessions, one memory and one block: every call meets a full arena, a full ring and
\* every mutex taken.
CONSTANTS
    Mems = {m1}
    Blocks = 1
    ReadyCap = 1
    MaxStarts = 2
    MaxLeases = 2
    None = None
SPECIFICATION FairSinkSpec
PROPERTIES UnlockInterrupts StopReturns UpstreamReturns
CHECK_DEADLOCK FALSE
