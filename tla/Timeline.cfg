\* Four frames, three of them queued at once, a reset and two attaches.
CONSTANTS
    ReadyCap = 3
    MaxFrames = 4
    MaxResets = 1
    MaxAttach = 2
SPECIFICATION TimelineSpec
INVARIANTS TimelineTypeOK MixedIsCorrected SyncedInGeneration DiscontPerGeneration SnapshotFollowsFrame
CHECK_DEADLOCK FALSE
