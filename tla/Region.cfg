\* Pages of 8 bytes, header of 4, rings of 2 and 1 descriptors of 2 bytes: the arena
\* starts at 16. One shm-size loses part of the header, one has no room for an arena,
\* one is not whole pages, one is; two creates under two opens.
CONSTANTS
    Sizes = {3, 12, 20, 24}
    Page = 8
    HeaderPad = 4
    DescSize = 2
    ReadyCap = 2
    RecCap = 1
    DeviceSize = 24
    MaxCreates = 2
    MaxOpens = 2
    None = None
SPECIFICATION RegionSpec
INVARIANTS RegionTypeOK NothingLeaks ReaderMapsRegion OpensAfterCreate
CHECK_DEADLOCK FALSE
