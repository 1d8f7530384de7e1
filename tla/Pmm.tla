--------------------------------- MODULE Pmm ---------------------------------
(***************************************************************************)
(* The physical memory manager (memory/pmm.c): one bit per block of the    *)
(* memory-map entry chosen at boot, and a hint, next_block, from which     *)
(* every search starts.  The bitmap is modelled by the set of its set      *)
(* bits, an address handed out by its block number.                        *)
(***************************************************************************)
EXTENDS Integers, Sequences

CONSTANTS
    memory_map,     \* the boot loader's memory map, in order
    mem_lower,      \* KiB of lower memory
    kernel_start,   \* the kernel image is [kernel_start, kernel_end)
    kernel_end,
    info_start,     \* the multiboot information is header_size bytes here
    header_size,
    BLOCK_SIZE,
    ALIGNMENT,      \* 0x10 in the code
    KIB,            \* 1024 in the code
    Sizes           \* the request sizes in bytes that are tried

VARIABLES
    bitmap,         \* the blocks whose bit is set
    next_block,     \* every block below it is set
    last            \* what the last allocation asked for and got

vars == <<bitmap, next_block, last>>

------------------------------------------------------------------------------
(* What init_pmm computes from the boot information.                        *)

ALIGN_ADDR(a) == ((a + ALIGNMENT - 1) \div ALIGNMENT) * ALIGNMENT

\* An available region longer than lower memory.
Suits(i) ==
    /\ memory_map[i].available
    /\ (memory_map[i].end - memory_map[i].base) \div KIB > mem_lower

\* The loop leaves in entry the first region that suits, or else the last one.
IsEntry(i) ==
    /\ i \in DOMAIN memory_map
    /\ Suits(i) \/ i = Len(memory_map)
    /\ \A j \in 1 .. i - 1 : ~ Suits(j)

entry ==
    LET i == CHOOSE j \in DOMAIN memory_map : IsEntry(j)
    IN  [base |-> ALIGN_ADDR(memory_map[i].base),
         end  |-> ALIGN_ADDR(memory_map[i].end)]

EntryBlocks == (entry.end - entry.base + BLOCK_SIZE - 1) \div BLOCK_SIZE

\* (size % 8 < 8) is always 1: the bitmap always has a byte more than
\* EntryBlocks \div 8.
BitmapSize == EntryBlocks \div 8 + 1

total_blocks == BitmapSize * 8

Blocks == 0 .. total_blocks - 1

BitmapStart == ALIGN_ADDR(kernel_end + ALIGNMENT)

BlockOf(a) == (a - entry.base) \div BLOCK_SIZE

\* Mutant of Marked: the loop stops a stride too early.
MarkedShort(from, to) ==
    {BlockOf(a) : a \in {x \in from .. to - 1 - BLOCK_SIZE :
                            (x - from) % BLOCK_SIZE = 0}}

\* The marking loops go from one end to the other in strides of BLOCK_SIZE.
Marked(from, to) ==
    {BlockOf(a) : a \in {x \in from .. to - 1 : (x - from) % BLOCK_SIZE = 0}}

\* The bitmap is marked as if it had a byte, not a bit, per block.
BootBlocks ==
    Marked(kernel_start, kernel_end)
      \cup Marked(info_start, info_start + header_size)
      \cup Marked(BitmapStart, BitmapStart + total_blocks)

\* The loop for(; next_block < total_blocks; next_block++) stops at i.
StopsAt(set, from, i) ==
    /\ i \in from .. total_blocks
    /\ from .. i - 1 \subseteq set
    /\ i = total_blocks \/ i \notin set

\* The boot information describes a region, and what the loops mark lies in it:
\* otherwise SETBIT writes outside the bitmap.
ASSUME LayoutAssumption ==
    /\ {BLOCK_SIZE, ALIGNMENT} \subseteq Nat \ {0}
    /\ {entry.base, kernel_start, kernel_end, info_start, header_size} \subseteq Nat
    /\ EntryBlocks \in Nat
    /\ BootBlocks \subseteq Blocks
    /\ Sizes \subseteq Nat

NoGrant == [n |-> 0, at |-> -1]

Init ==
    /\ bitmap = BootBlocks
    /\ next_block \in 0 .. total_blocks
    /\ StopsAt(BootBlocks, 0, next_block)
    /\ last = NoGrant

------------------------------------------------------------------------------
(* The operations.                                                          *)

BlocksFor(size) == size \div BLOCK_SIZE + 1

\* Mutants of RunEnds: b <= total_blocks, and a run one block too short.
RunEndsPastEnd(from, n) ==
    {b \in from + n - 1 .. total_blocks : (b - n + 1 .. b) \cap bitmap = {}}

RunEndsShort(from, n) ==
    {b \in from + n - 1 .. total_blocks - 1 : (b - n + 2 .. b) \cap bitmap = {}}

\* Where a run of n clear blocks may end when the count starts at from.
RunEnds(from, n) ==
    {b \in from + n - 1 .. total_blocks - 1 : (b - n + 1 .. b) \cap bitmap = {}}

\* Leaves the hint at i, the first clear block, or past the last block.
get_next_block(i) ==
    /\ StopsAt(bitmap, next_block, i)
    /\ next_block' = i

\* Marks the first run that is long enough and returns its last block.
allocate_size(size) ==
    \E i \in Blocks : LET n == BlocksFor(size) IN
        /\ get_next_block(i)
        /\ \E b \in RunEnds(i, n) :
              /\ \A c \in RunEnds(i, n) : b <= c
              /\ bitmap' = bitmap \cup (b - n + 1 .. b)
              /\ last' = [n |-> n, at |-> b]

allocate_size_fails(size) ==
    \E i \in 0 .. total_blocks : LET n == BlocksFor(size) IN
        /\ get_next_block(i)
        /\ RunEnds(i, n) = {}
        /\ last' = [n |-> n, at |-> -1]
        /\ UNCHANGED bitmap

allocate_block ==
    \E i \in Blocks :
        /\ get_next_block(i)
        /\ bitmap' = bitmap \cup {i}
        /\ last' = [n |-> 1, at |-> i]

allocate_block_fails ==
    /\ get_next_block(total_blocks)
    /\ last' = [n |-> 1, at |-> -1]
    /\ UNCHANGED bitmap

\* Only what was handed out may come back.
Allocated == bitmap \ BootBlocks

\* Mutant of free_block: the hint is not lowered.
free_blockKeepsHint(block) ==
    /\ block \in Allocated
    /\ bitmap' = bitmap \ {block}
    /\ UNCHANGED next_block
    /\ last' = NoGrant

free_block(block) ==
    /\ block \in Allocated
    /\ bitmap' = bitmap \ {block}
    /\ next_block' = IF block < next_block THEN block ELSE next_block
    /\ last' = NoGrant

free_multi(block, size) ==
    LET freed == block .. block + BlocksFor(size) - 1 IN
    /\ freed \subseteq Allocated
    /\ bitmap' = bitmap \ freed
    /\ next_block' = IF block < next_block THEN block ELSE next_block
    /\ last' = NoGrant

Next ==
    \/ \E size \in Sizes : allocate_size(size)
    \/ \E size \in Sizes : allocate_size_fails(size)
    \/ allocate_block
    \/ allocate_block_fails
    \/ \E block \in Blocks : free_block(block)
    \/ \E block \in Blocks, size \in Sizes : free_multi(block, size)

Spec == Init /\ [][Next]_vars

------------------------------------------------------------------------------
(* Properties.                                                              *)

\* The bitmap has bits of its own blocks only, and the hint is one of them or
\* one past the last (memory/pmm.c, bitmap and next_block).
TypeOK ==
    /\ bitmap \subseteq Blocks
    /\ next_block \in 0 .. total_blocks
    /\ last \in [n : Nat, at : -1 .. total_blocks - 1]

HintSound == 0 .. next_block - 1 \subseteq bitmap

\* The contract of the hint in the comment above get_next_block: it stays in
\* range, and no free block lies below it, so that a search that starts there
\* misses nothing.
NextBlockHint == TypeOK /\ HintSound

\* The blocks that hold a byte of [from, to).
Occupied(from, to) == {BlockOf(a) : a \in from .. to - 1}

\* The kernel image, the bitmap and the multiboot information are never in a
\* block that can be handed out, although init_pmm marks them in strides.
BootMemoryKept ==
    /\ Occupied(kernel_start, kernel_end) \subseteq bitmap
    /\ Occupied(BitmapStart, BitmapStart + BitmapSize) \subseteq bitmap
    /\ Occupied(info_start, info_start + header_size) \subseteq bitmap

\* The place of an address within its block.
Within(a) == (a - entry.base) % BLOCK_SIZE

\* The loop over [from, to) meets the block of the last byte: the region does
\* not end earlier in its last block than it begins in its first.
MeetsLast(from, to) == Within(from) <= Within(to - 1)

\* When BootMemoryKept is to be expected: the kernel and the boot information
\* end no earlier in a block than they begin in one (a region that begins with
\* a block never does), and the bitmap, which is marked as if it had a byte per
\* block, is so large that 7/8 of the marks span a block.  init_pmm checks none.
StridesMeetAll ==
    /\ MeetsLast(kernel_start, kernel_end)
    /\ MeetsLast(info_start, info_start + header_size)
    /\ 7 * BitmapSize >= BLOCK_SIZE - 1

Pool == INSTANCE BlockPool WITH
            N <- total_blocks, Used <- BootBlocks, taken <- bitmap

\* The bitmap, the hint and the first-fit scan implement a block pool: a run
\* granted was free, and a request is refused only when no run is long enough.
IsBlockPool == Pool!PoolSpec

==============================================================================
