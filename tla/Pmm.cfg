CONSTANTS
    memory_map <- MCMemoryMap
    mem_lower = 10
    kernel_start = 16
    kernel_end = 25
    info_start = 56
    header_size = 4
    BLOCK_SIZE = 4
    ALIGNMENT = 2
    KIB = 1
    Sizes = {1, 4, 9}

SPECIFICATION Spec

INVARIANTS
    NextBlockHint
    BootMemoryKept

PROPERTY
    IsBlockPool
