\* Two sessions, three frames, recycle ring of two entries.
CONSTANTS
    ReadyCap = 3
    RecCap = 2
    MaxStarts = 2
    MaxFrames = 3
    None = None
SPECIFICATION FairSourceSpec
INVARIANTS SourceTypeOK RecycledOnce SourceWaitsEnd
PROPERTIES CreateInterrupts FinalizersReturn
CHECK_DEADLOCK FALSE
