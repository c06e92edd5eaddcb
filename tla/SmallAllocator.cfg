SPECIFICATION Spec
CONSTANTS
    NULL = NULL
    RunSize = 64
    StorageSize = 48
    EntrySize = 8
    EntryBits = 4
    ContainerSize = 8
    SegmentHeader = 8
    SegmentSize = 128
    Threads = {t1, t2}
    MallocSizes = {5, 16}
    ReallocSizes = {12}
    Bases = {0, 128}
    Areas <- TwoRuns
    MaxBlocks = 3
SYMMETRY Symmetry
INVARIANTS
    RunsExact
    CellsExact
    CellsInPlace
PROPERTIES
    OnlyRefillsWhenFull
    Implements
