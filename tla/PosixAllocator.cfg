SPECIFICATION FairSpec
CONSTANTS
    NULL = NULL
    Threads = {t1, t2}
    Sizes = {12, 20}
    Aligns = {8, 16}
    BasicAlign = 8
    ClassSizes = {8, 16}
    Slack = 0
    NumaCounts = {0, 1}
    MaxBlocks = 2
    ReallocPadded = FALSE
INVARIANTS
    FirstCallSafe
    OneLocalAllocator
    BlocksKept
PROPERTIES
    CallsReturn
CHECK_DEADLOCK FALSE
