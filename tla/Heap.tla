-------------------------------- MODULE Heap ---------------------------------
(***************************************************************************)
(* The kernel heap (memory/kmalloc.c): a doubly linked list of blocks, in  *)
(* the order of their addresses, in chunks of memory that request_memory   *)
(* supplies.  A call of kmalloc walks the list one block per step, a call  *)
(* of kfree merges one block per step (one level of merge_blocks'          *)
(* recursion).  Calls do not overlap: see Console.                         *)
(***************************************************************************)
EXTENDS Integers, FiniteSets, FiniteSetsExt, Functions

CONSTANTS
    HEADER,         \* sizeof(mem_block_t)
    MINIUM_SIZE,    \* the smallest remainder worth a block of its own
    ALIGNMENT,      \* request sizes are rounded up to a multiple of it
    INITIAL_SIZE,   \* the heap's first chunk
    PAGE_SIZE,      \* the unit by which the heap grows
    heap_start,     \* the address of the first block
    Gaps,           \* distances between a chunk and the next one
    Sizes,          \* the request sizes tried
    MaxChunks       \* bound: the heap has at most this many chunks

VARIABLES
    blk,            \* the linked blocks: header address -> header
    heap_end,
    call,           \* the call in progress
    held,           \* what callers own: pointer -> bytes they may use
    chunks          \* the memory obtained from request_memory

vars == <<blk, heap_end, call, held, chunks>>

NULL == 0

ASSUME HeapAssumption ==
    /\ {HEADER, MINIUM_SIZE, ALIGNMENT, PAGE_SIZE, heap_start} \subseteq Nat \ {0}
    /\ INITIAL_SIZE \in Nat
    /\ Gaps \subseteq Nat \ {0}
    /\ Sizes \subseteq Nat

ALIGN_ADDR(n) == ((n + ALIGNMENT - 1) \div ALIGNMENT) * ALIGNMENT

Idle == [op |-> "idle", size |-> 0, at |-> NULL, failed |-> FALSE]

Chunk(base, len) == [base |-> base, len |-> len]

\* The end of the highest chunk.
Top == Max({c.base + c.len : c \in chunks})

Init ==
    LET len == INITIAL_SIZE + HEADER IN
    /\ blk = [a \in {heap_start} |->
                [size |-> len, is_free |-> TRUE, prev |-> NULL, next |-> NULL]]
    /\ heap_end = heap_start
    /\ call = Idle
    /\ held = [p \in {} |-> 0]
    /\ chunks = {Chunk(heap_start, len)}

\* Mutant of IsEnd: reset_heap_end leaves heap_end where it was.
IsEndStale(h, e) == e \in DOMAIN h /\ (h[e].next = NULL \/ e = heap_end)

\* reset_heap_end walks the list until a block has no next.
IsEnd(h, e) == e \in DOMAIN h /\ h[e].next = NULL

reset_heap_end == \E e \in DOMAIN blk' : IsEnd(blk', e) /\ heap_end' = e

------------------------------------------------------------------------------
(* kmalloc.                                                                 *)

\* A request for nothing gives up before the walk: at is NULL at once.
kmalloc(size) ==
    /\ call.op = "idle"
    /\ call' = IF size = 0
                 THEN [Idle EXCEPT !.op = "kmalloc"]
                 ELSE [op |-> "kmalloc", size |-> ALIGN_ADDR(size) + HEADER,
                       at |-> heap_start, failed |-> FALSE]
    /\ UNCHANGED <<blk, heap_end, held, chunks>>

Walking == call.op = "kmalloc" /\ call.at # NULL

Fits(b) == blk[b].is_free /\ call.size <= blk[b].size

Splits(b) == blk[b].size - call.size > MINIUM_SIZE + HEADER

Return == call' = Idle

\* The caller gets the bytes after the header.
Grant(b) ==
    held' = [p \in DOMAIN held \cup {b + HEADER} |->
                IF p = b + HEADER THEN call.size - HEADER ELSE held[p]]

\* The size of what remains of b.
Rest(b) == blk[b].size - call.size

\* Mutant of split_block: the right neighbour still points back at b.
split_blockOneWay(b) ==
    LET new == b + call.size IN
    [a \in DOMAIN blk \cup {new} |->
        CASE a = b   -> [blk[b] EXCEPT !.size = call.size, !.next = new]
          [] a = new -> [size |-> Rest(b), is_free |-> TRUE,
                         prev |-> b, next |-> blk[b].next]
          [] OTHER   -> blk[a]]

\* The list after split_block: the remainder is a free block to the right of b.
split_block(b) ==
    LET new == b + call.size IN
    [a \in DOMAIN blk \cup {new} |->
        CASE a = b           -> [blk[b] EXCEPT !.size = call.size, !.next = new]
          [] a = new         -> [size |-> Rest(b), is_free |-> TRUE,
                                 prev |-> b, next |-> blk[b].next]
          [] a = blk[b].next -> [blk[a] EXCEPT !.prev = new]
          [] OTHER           -> blk[a]]

TakePart ==
    /\ Walking /\ Fits(call.at) /\ Splits(call.at)
    /\ blk' = [split_block(call.at) EXCEPT ![call.at].is_free = FALSE]
    /\ reset_heap_end
    /\ Grant(call.at)
    /\ Return
    /\ UNCHANGED chunks

TakeWhole ==
    /\ Walking /\ Fits(call.at) /\ ~ Splits(call.at)
    /\ blk' = [blk EXCEPT ![call.at].is_free = FALSE]
    /\ Grant(call.at)
    /\ Return
    /\ UNCHANGED <<heap_end, chunks>>

StepRight ==
    /\ Walking /\ ~ Fits(call.at) /\ call.at # heap_end
    /\ call' = [call EXCEPT !.at = blk[call.at].next]
    /\ UNCHANGED <<blk, heap_end, held, chunks>>

\* expand_heap: a new chunk holds one free block, linked after heap_end.
Expand ==
    /\ Walking /\ ~ Fits(call.at) /\ call.at = heap_end
    /\ Cardinality(chunks) < MaxChunks
    /\ \E gap \in Gaps :
        LET new == Top + gap
            len == (call.size \div PAGE_SIZE + 1) * PAGE_SIZE + HEADER
        IN  /\ chunks' = chunks \cup {Chunk(new, len)}
            /\ blk' = [a \in DOMAIN blk \cup {new} |->
                   CASE a = new      -> [size |-> len, is_free |-> TRUE,
                                         prev |-> heap_end, next |-> NULL]
                     [] a = heap_end -> [blk[a] EXCEPT !.next = new]
                     [] OTHER        -> blk[a]]
    /\ reset_heap_end
    /\ call' = [call EXCEPT !.at = blk'[call.at].next]
    /\ UNCHANGED held

\* Mutant of ExpandFails: kmalloc tries again.
ExpandFailsAgain ==
    /\ Walking /\ ~ Fits(call.at) /\ call.at = heap_end
    /\ call' = [call EXCEPT !.failed = TRUE]
    /\ UNCHANGED <<blk, heap_end, held, chunks>>

\* request_memory finds no physical run or no page table entry.
ExpandFails ==
    /\ Walking /\ ~ Fits(call.at) /\ call.at = heap_end
    /\ call' = [call EXCEPT !.at = blk[call.at].next, !.failed = TRUE]
    /\ UNCHANGED <<blk, heap_end, held, chunks>>

ReturnNull ==
    /\ call.op = "kmalloc" /\ call.at = NULL
    /\ Return
    /\ UNCHANGED <<blk, heap_end, held, chunks>>

------------------------------------------------------------------------------
(* kfree.                                                                   *)

\* The bounds test of kfree, then its search for the header.
Finds(ptr) ==
    /\ heap_start <= ptr /\ ptr <= heap_end + blk[heap_end].size
    /\ ptr - HEADER \in DOMAIN blk

\* Callers also free the NULL that kmalloc gave them: kfree returns at once and
\* changes nothing.
kfree(ptr) ==
    /\ call.op = "idle"
    /\ Finds(ptr)
    /\ blk' = [blk EXCEPT ![ptr - HEADER].is_free = TRUE]
    /\ held' = Restrict(held, DOMAIN held \ {ptr})
    /\ call' = [Idle EXCEPT !.op = "kfree", !.at = ptr - HEADER]
    /\ UNCHANGED <<heap_end, chunks>>

\* Mutant of IsFree: any neighbour is merged.
IsNeighbour(b) == b # NULL

IsFree(b) == b # NULL /\ blk[b].is_free

\* The second condition parses as next ? !next->free : (prev ? !prev->free :
\* true): with a used right neighbour the left one is not looked at.
NothingToMerge(t) ==
    IF blk[t].next # NULL THEN ~ IsFree(blk[t].next) ELSE ~ IsFree(blk[t].prev)

MergeReturns ==
    /\ call.op = "kfree" /\ NothingToMerge(call.at)
    /\ Return
    /\ UNCHANGED <<blk, heap_end, held, chunks>>

\* The header of l once it has taken in the block to its right.
Joined(l) ==
    LET r == blk[l].next IN
    [blk[l] EXCEPT !.next = blk[r].next, !.size = blk[l].size + blk[r].size]

\* The left one of the two blocks takes in the right one.  What the outer
\* levels of the recursion do after it is undone by reset_heap_end.
Merge ==
    /\ call.op = "kfree" /\ ~ NothingToMerge(call.at)
    /\ LET left  == IF IsFree(blk[call.at].prev) THEN blk[call.at].prev
                                                 ELSE call.at
           right == blk[left].next
           next  == blk[right].next
       IN  /\ blk' = [a \in DOMAIN blk \ {right} |->
                  CASE a = left -> Joined(left)
                    [] a = next -> [blk[a] EXCEPT !.prev = left]
                    [] OTHER    -> blk[a]]
           /\ IF IsFree(next) THEN call' = [call EXCEPT !.at = left]
                              ELSE Return
    /\ reset_heap_end
    /\ UNCHANGED <<held, chunks>>

------------------------------------------------------------------------------
Continue == \/ TakePart \/ TakeWhole \/ StepRight \/ Expand \/ ExpandFails
            \/ ReturnNull \/ MergeReturns \/ Merge

Next ==
    \/ \E size \in Sizes : kmalloc(size)
    \/ \E ptr \in DOMAIN held : kfree(ptr)
    \/ Continue

Spec == Init /\ [][Next]_vars

\* A call that was made runs on: nothing in it waits.
FairSpec == Spec /\ WF_vars(Continue)

------------------------------------------------------------------------------
(* Properties.                                                              *)

\* A header's size "includes header size" (kmalloc.h:17).
TypeOK ==
    /\ blk \in [DOMAIN blk -> [size : {n \in Nat : n >= HEADER},
                             is_free : BOOLEAN, prev : Nat, next : Nat]]
    /\ DOMAIN blk \subseteq Nat \ {NULL}
    /\ heap_end \in DOMAIN blk
    /\ call \in [op : {"idle", "kmalloc", "kfree"}, size : Nat,
                 at : DOMAIN blk \cup {NULL}, failed : BOOLEAN]
    /\ held \in [DOMAIN held -> Nat]
    /\ chunks \subseteq [base : Nat, len : Nat]

\* Splitting and merging lose no byte: the sizes of the blocks add up to what
\* request_memory supplied.
SizesAddUp ==
    SumFunction([a \in DOMAIN blk |-> blk[a].size])
        = SumFunction([c \in chunks |-> c.len])

\* prev and next link the live blocks in the order of their addresses, from
\* heap_start to heap_end, no block reaches into its right neighbour
\* (split_block, merge_blocks and expand_heap each patch three pointers) and
\* every block has room for its header.
ListWellFormed ==
    /\ TypeOK
    /\ blk[heap_start].prev = NULL
    /\ \A a \in DOMAIN blk :
        /\ blk[a].next = NULL <=> a = heap_end
        /\ blk[a].next # NULL => /\ blk[a].next \in DOMAIN blk
                                 /\ blk[blk[a].next].prev = a
                                 /\ a + blk[a].size <= blk[a].next
        /\ a # heap_start => blk[a].prev \in DOMAIN blk

\* A pointer handed out stays the header of a used block at least as large as
\* was asked for until it is freed, kfree would find it, and every used block
\* is some caller's: none is lost and none has two owners.
HeldIntact ==
    /\ \A p \in DOMAIN held :
        /\ Finds(p)
        /\ blk[p - HEADER].size >= held[p] + HEADER
    /\ {a \in DOMAIN blk : ~ blk[a].is_free} = {p - HEADER : p \in DOMAIN held}

\* kmalloc finds no block only when nothing was asked for or expand_heap failed;
\* the FIXME above kmalloc fears that heap_end is wrong and the next expansion
\* breaks.
NullMeansFailed ==
    call.op = "kmalloc" /\ call.at = NULL => call.failed \/ call.size = 0

\* kmalloc gives up only when nothing was asked for or memory is out: expand_heap
\* failed, and no byte of the memory obtained before was lost to the list.
NullHasReason == NullMeansFailed /\ SizesAddUp

\* The bytes that the call in progress asks for.
Wanted ==
    IF call.op = "kmalloc" /\ call.size # 0 THEN call.size - HEADER ELSE 0

Abstract == INSTANCE Allocator WITH
                Amounts <- {ALIGN_ADDR(size) : size \in Sizes \ {0}},
                owned   <- held,
                wanted  <- Wanted

\* For its callers the list of blocks is an allocator: through every split, merge
\* and expansion a call of kmalloc is answered once, with NULL or with the bytes
\* asked for, none of them another caller's.  (A request for nothing asks the
\* allocator nothing.)
IsAllocator == Abstract!AllocSpec

\* The walk of kmalloc and the recursion of merge_blocks end.
CallsReturn == (call.op # "idle") ~> (call.op = "idle")

==============================================================================
