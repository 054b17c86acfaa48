\* 8 bytes, alignment 2, so that an odd size leaves an unaligned block start
\* (left remainder) and a size 0 request is a zero-length block; 3 ids, so that
\* next_id wraps onto a live id.
CONSTANTS
    Total = 8
    Align = 2
    Sizes = {0, 1, 3}
    MaxId = 3
SPECIFICATION VecSpec
INVARIANTS TypeOK NoOverlap AllocComplete VecAgrees
PROPERTY LostOnlyByIdReuse
