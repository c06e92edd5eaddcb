SPECIFICATION Spec
CONSTANTS
    NULL = NULL
    Split = 2
    RegionSlots = 6
    Threads = {t1, t2}
    MapSizes = {2, 3, 4}
    Top = 8
    MaxSize = 3
    Threshold = 3
SYMMETRY Symmetry
INVARIANTS
    PagesExact
    CacheExact
    ServesAsAsked
    RegistryFollows
CHECK_DEADLOCK FALSE
