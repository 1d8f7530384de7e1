CONSTANTS
    HEADER = 2
    MINIUM_SIZE = 1
    ALIGNMENT = 2
    INITIAL_SIZE = 4
    PAGE_SIZE = 4
    heap_start = 4
    Gaps = {2}
    Sizes = {0, 1, 3}
    MaxChunks = 3

SPECIFICATION FairSpec

INVARIANTS
    ListWellFormed
    HeldIntact
    NullHasReason

PROPERTIES
    IsAllocator
    CallsReturn
