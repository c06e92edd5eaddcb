SPECIFICATION Spec
CONSTANTS
    NULL = NULL
    Sizes <- SmallSizes
    Unlimited = 1000
    Threads = {t1}
    MallocSizes = {2, 4}
    Aligns = {1, 2}
    ReallocSizes = {12}
    Bases = {0}
    MapWords = 32
    PageWords = 4
    MemoryEnd = 32
    MaxBlocks = 3
    Areas <- NoAreas
    ReallocPadded = TRUE
INVARIANT
    ReallocKeepsContent
