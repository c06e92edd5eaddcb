SPECIFICATION Spec
CONSTANTS
    NULL = NULL
    Sizes <- SmallSizes
    Unlimited = 1000
    Threads = {t1, t2}
    MallocSizes = {4, 10}
    Aligns = {1, 2}
    ReallocSizes = {2, 14}
    Bases = {0, 28}
    MapWords = 28
    PageWords = 4
    MemoryEnd = 56
    MaxBlocks = 2
    Areas <- OneArea
    ReallocPadded = FALSE
SYMMETRY Symmetry
INVARIANTS
    HeapExact
    FreeListsExact
    SearchIsComplete
    BlockInsideChunk
PROPERTIES
    Implements
    OnlyReallocFragments
