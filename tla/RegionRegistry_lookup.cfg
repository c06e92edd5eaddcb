SPECIFICATION Spec
CONSTANTS
    NULL = NULL
    Split = 3
    RegionSlots = 2
    Threads = {t1, t2}
    Sizes = {3, 4, 5}
    Top = 10
    Reloads = FALSE
SYMMETRY Symmetry
INVARIANTS
    TableExact
    LookupExact
    UnmapAllExact
CHECK_DEADLOCK FALSE
