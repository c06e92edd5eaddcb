SPECIFICATION Spec
CONSTANTS
    NULL = NULL
    Split = 2
    RegionSlots = 6
    Threads = {t1, t2, t3}
    MapSizes = {2, 3}
    Top = 8
    MaxSize = 6
    Threshold = 4
INVARIANTS
    EntriesFree
CHECK_DEADLOCK FALSE
