SPECIFICATION Spec
CONSTANTS
    NULL = NULL
    Threads = {t1, t2}
    Types = {"malloc", "calloc", "memalign", "valloc"}
    Sizes = {1, 2}
    Aligns = {2}
    Top = 4
    AddressRange = 8
    IdRange = 4
    MaxCalls = 3
SYMMETRY Symmetry
INVARIANTS
    TraceExact
    ReplayAccepts
    MappingAlive
    ReplayMirrors
CHECK_DEADLOCK FALSE
