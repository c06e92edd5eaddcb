SPECIFICATION Spec
CONSTANTS
    NULL = NULL
    Sizes <- SmallSizes
    Unlimited = 1000
    Threads = {t1}
    MallocSizes = {2, 16}
    Aligns = {1}
    ReallocSizes = {}
    Bases = {0}
    MapWords = 20
    PageWords = 4
    MemoryEnd = 32
    MaxBlocks = 3
    Areas <- NoAreas
    ReallocPadded = FALSE
INVARIANT
    BlockInsideChunk
