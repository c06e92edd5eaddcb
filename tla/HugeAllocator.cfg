SPECIFICATION Spec
CONSTANTS
    NULL = NULL
    Split = 8
    RegionSlots = 8
    PageSize = 4
    SegmentHeader = 2
    AddressEnd = 44
    PaddingRange = 4
    Threads = {t1, t2}
    Sizes = {4, 6, 11}
    Aligns = {1, 4}
    MinInnerSize = 2
    ReallocThreashold = 2
    ReallocPadded = FALSE
    MaxBlocks = 3
SYMMETRY Symmetry
INVARIANTS
    SegmentsExact
    InnerSizeTight
    RegistryFollows
PROPERTIES
    Implements
CHECK_DEADLOCK FALSE
