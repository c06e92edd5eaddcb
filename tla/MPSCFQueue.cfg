SPECIFICATION FairSpec
CONSTANTS
    Producers = {p1, p2, p3}
    Elements = {e1, e2, e3}
    NULL = NULL
INVARIANTS
    DequeueAssertions
    LinkTargetHeld
    HeadStoreAlone
    EmptyIsExact
    IInv
PROPERTIES
    Implements
    EventuallyFreed
