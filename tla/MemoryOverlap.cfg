CONSTANTS
    memory_map <- MCMemoryMap
    mem_lower = 2
    kernel_start = 16
    kernel_end = 26
    info_start = 100
    header_size = 3
    BLOCK_SIZE = 4
    ALIGNMENT = 2
    KIB = 10
    Sizes = {10, 18}
    PAGE_SIZE = 8
    Entries = 14
    TABLE_OFFSET = 64
    INT_LIMIT = 144
    InitialSize = 10
    framebuffer_addr = 512
    screen_size = 9
    bar5 = 604
    HBA_SIZE = 3

SPECIFICATION MemorySpec

INVARIANT
    RegionsDisjoint
