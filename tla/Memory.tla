------------------------------- MODULE Memory --------------------------------
(***************************************************************************)
(* Virtual memory (memory/memory.c) on top of the physical allocator Pmm:  *)
(* pages are taken from one table, in order, and never given back.         *)
(* At boot map_framebuffer comes first and init_heap second; then the heap *)
(* grows by request_memory, which maps the blocks that allocate_size       *)
(* returns, and init_ahci maps the registers of the controller by          *)
(* request_memory_addr.  Pages are aligned to twice their size.  Calls do  *)
(* not overlap: see Console.                                               *)
(***************************************************************************)
EXTENDS Pmm

CONSTANTS
    PAGE_SIZE,
    Entries,        \* 512 * (L2_TABLES - 1)
    TABLE_OFFSET,   \* the virtual address of the first page
    INT_LIMIT,      \* 2^31: the first address that does not fit an int
    InitialSize,    \* what init_heap asks for
    framebuffer_addr, screen_size,
    bar5, HBA_SIZE  \* the AHCI registers that the driver uses

VARIABLES
    table,          \* the entries below table_end: physical addresses
    regions,        \* history: what was mapped for whom, in order
    abar            \* whether init_ahci has asked for the registers

memory_vars == <<vars, table, regions, abar>>

PagesFor(size) == (size + PAGE_SIZE - 1) \div PAGE_SIZE

\* Mutant of PAGE_ALIGN: pages are aligned to their own size.
PAGE_ALIGN_ONE(a) == a - (a % PAGE_SIZE)

PAGE_ALIGN(a) == a - (a % (2 * PAGE_SIZE))

Offset(a) == a % (2 * PAGE_SIZE)

\* GRUB reports whole pages of memory, and so do graphics cards; init_heap and
\* expand_heap ask for whole pages and a header, which is less than a block.
\* A base address register is aligned to the size of what it points to, so the
\* registers do not reach across two pages.  The table has room for what is
\* mapped at boot, and the addresses of all pages fit an unsigned int.
ASSUME MemoryAssumption ==
    /\ {PAGE_SIZE, Entries, HBA_SIZE, screen_size} \subseteq Nat \ {0}
    /\ {TABLE_OFFSET, INT_LIMIT, framebuffer_addr, bar5} \subseteq Nat
    /\ PAGE_SIZE % BLOCK_SIZE = 0
    /\ TABLE_OFFSET % PAGE_SIZE = 0
    /\ PAGE_SIZE <= TABLE_OFFSET /\ TABLE_OFFSET < INT_LIMIT
    /\ entry.base % BLOCK_SIZE = 0
    /\ framebuffer_addr % PAGE_SIZE = 0
    /\ HBA_SIZE <= PAGE_SIZE /\ Offset(bar5) + HBA_SIZE <= 2 * PAGE_SIZE
    /\ TABLE_OFFSET + PAGE_SIZE * Entries <= 2 * INT_LIMIT
    /\ \A size \in Sizes : size > PAGE_SIZE /\ size % PAGE_SIZE \in 1 .. BLOCK_SIZE
    /\ InitialSize \in Sizes
    /\ PagesFor(screen_size) + PagesFor(InitialSize) + 1 <= Entries

MemoryInit == Init /\ table = <<>> /\ regions = <<>> /\ abar = FALSE

------------------------------------------------------------------------------
Room == Entries - Len(table)

\* n calls of request_page for consecutive frames, as far as the table goes.
request_pages(addr, n) ==
    LET m == IF n <= Room THEN n ELSE Room
    IN  table' = table \o [k \in 1 .. m |-> addr + (k - 1) * PAGE_SIZE]

\* TABLE_OFFSET + 0x200000 * i is an int: from INT_LIMIT on it overflows, and
\* is then computed in 64 bits, or wraps and is sign-extended to a pointer
\* into the kernel's half (below 0 here).
PageAddresses(i) ==
    LET a == TABLE_OFFSET + PAGE_SIZE * i
    IN  IF a < INT_LIMIT THEN {a} ELSE {a, a - 2 * INT_LIMIT}

Region(owner, vaddr, paddr, size) ==
    [owner |-> owner, vaddr |-> vaddr, paddr |-> paddr, size |-> size]

\* n pages are requested for size bytes at paddr.  Nothing is granted when the
\* table ends before the last page that size counts.
grant(owner, paddr, size, n) ==
    /\ request_pages(PAGE_ALIGN(paddr), n)
    /\ \E page \in PageAddresses(Len(table)) :
          regions' = IF PagesFor(size) <= Room
                     THEN Append(regions, Region(owner, page + Offset(paddr), paddr, size))
                     ELSE regions

\* Mutant of map_memory: no page to spare.
map_memoryNoSpare(owner, paddr, size) == grant(owner, paddr, size, PagesFor(size))

\* One page more than size needs is mapped if there is one.
map_memory(owner, paddr, size) == grant(owner, paddr, size, PagesFor(size) + 1)

\* init_multiboot maps the framebuffer before there is anything else.
map_framebuffer ==
    /\ regions = <<>>
    /\ request_pages(framebuffer_addr, PagesFor(screen_size))
    /\ \E page \in PageAddresses(Len(table)) :
          regions' = <<Region("screen", page, framebuffer_addr, screen_size)>>
    /\ UNCHANGED <<vars, abar>>

\* For init_heap, and then for expand_heap.  When the table ends early the
\* blocks and the pages taken are lost.
request_memory(size) ==
    /\ Len(regions) > 0 /\ (Len(regions) = 1 => size = InitialSize)
    /\ allocate_size(size)
    /\ map_memory("heap", entry.base + last'.at * BLOCK_SIZE, size)
    /\ UNCHANGED abar

request_memory_fails(size) ==
    /\ Len(regions) > 1
    /\ allocate_size_fails(size)
    /\ UNCHANGED <<table, regions, abar>>

\* init_ahci asks for a page from bar5 on.  (When the table is full it goes on
\* with an address that is no page's, and no region is recorded.)
request_memory_addr ==
    /\ Len(regions) > 1
    /\ ~ abar /\ abar' = TRUE
    /\ map_memory("ahci", bar5, PAGE_SIZE)
    /\ UNCHANGED vars

MemoryNext ==
    \/ map_framebuffer
    \/ \E size \in Sizes : request_memory(size)
    \/ \E size \in Sizes : request_memory_fails(size)
    \/ request_memory_addr

MemorySpec == MemoryInit /\ [][MemoryNext]_memory_vars

------------------------------------------------------------------------------
(* Properties.                                                              *)

MemoryTypeOK ==
    /\ TypeOK
    /\ table \in Seq(Nat) /\ Len(table) <= Entries
    /\ regions \in Seq([owner : {"screen", "heap", "ahci"},
                        vaddr : Int, paddr : Nat, size : Nat])
    /\ abar \in BOOLEAN

\* The physical address of a byte of a page, or -1.
get_phys_mapping(vaddr) ==
    LET i == (vaddr - TABLE_OFFSET) \div PAGE_SIZE + 1
    IN  IF i \in DOMAIN table THEN table[i] + (vaddr % PAGE_SIZE) ELSE -1

\* The bytes of a region that its owner uses: the driver asks for a page from
\* bar5 on, but has registers only at its beginning.
Extent(r) == IF r.owner = "ahci" THEN HBA_SIZE ELSE r.size

\* The address computed for its first page has not wrapped.
Unwrapped(r) == r.vaddr >= TABLE_OFFSET

Mapped(r, o) == get_phys_mapping(r.vaddr + o) = r.paddr + o

\* Every byte that the owner of a region uses is mapped to its own physical
\* byte, as the DMA of the disk driver takes for granted, although a region may
\* begin anywhere in its first two pages and the loop maps only size bytes and
\* one page (memory.c:66-72).  Only the region that took the last page of the
\* table may lack its end: no more than as many bytes as lie before it in its
\* first two pages.
RegionsMapped ==
    \A i \in DOMAIN regions : LET r == regions[i] IN
        Unwrapped(r) =>
            \A o \in 0 .. Extent(r) - 1 :
                \/ Mapped(r, o)
                \/ Room = 0 /\ i = Len(regions) /\ o >= r.size - Offset(r.paddr)

\* What the owner of a region uses lies below all later regions, which
\* expand_heap relies on when it links a new chunk after the last block (until
\* addresses wrap), and the table never grows past its end.
RegionsAscend ==
    /\ MemoryTypeOK
    /\ \A i \in DOMAIN regions, j \in DOMAIN regions :
          i < j /\ Unwrapped(regions[j]) =>
              regions[i].vaddr + Extent(regions[i]) <= regions[j].vaddr

Chunks == {i \in DOMAIN regions : regions[i].owner = "heap"}

\* Although allocate_size returns the last block of a run and the caller maps
\* what lies behind it, a chunk never shares physical memory with one that was
\* requested earlier and is no longer than it: first fit puts it far enough
\* above.  So chunks overlap only once kmalloc was asked for more than a page.
ChunksApart ==
    \A i \in Chunks, j \in Chunks :
        i < j /\ regions[i].size <= regions[j].size =>
            regions[i].paddr + regions[i].size <= regions[j].paddr

\* pmm.h:16 says allocate_size "returns the address of the first block and
\* sets others to in use": no two regions share physical memory.
RegionsDisjoint ==
    \A i \in DOMAIN regions, j \in DOMAIN regions :
        i < j => LET r == regions[i]  s == regions[j] IN
                 r.paddr + r.size <= s.paddr \/ s.paddr + s.size <= r.paddr

==============================================================================
