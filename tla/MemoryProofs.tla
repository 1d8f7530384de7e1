----------------------------- MODULE MemoryProofs -----------------------------
(***************************************************************************)
(* Proofs about physical and virtual memory, for any memory map, block     *)
(* size, page size and table.  Of the blocks (Pmm): the hint is sound, and *)
(* therefore the first-fit scan from the hint implements BlockPool.  Of    *)
(* the pages (Memory): the regions that are handed out ascend, each of     *)
(* their bytes is mapped to its own physical byte, chunks requested in the *)
(* order of their lengths share no physical memory, and Memory uses the    *)
(* blocks by the operations of Pmm only.                                   *)
(***************************************************************************)
EXTENDS Memory, SequenceTheorems, TLAPS

------------------------------------------------------------------------------
(* Sizes of the physical memory manager.                                    *)

\* The bitmap has at least one bit.
LEMMA TotalBlocksNat == total_blocks \in Nat \ {0}
<1>1. BitmapSize \in Nat \ {0}
  BY LayoutAssumption DEF BitmapSize
<1>2. QED
  BY <1>1 DEF total_blocks

\* Every request asks for at least one block.
LEMMA BlocksForPositive ==
    ASSUME NEW size \in Sizes
    PROVE  BlocksFor(size) \in Nat \ {0}
<1>1. size \in Nat /\ BLOCK_SIZE \in Nat \ {0}
  BY LayoutAssumption
<1>2. size \div BLOCK_SIZE \in Nat
  BY <1>1
<1>3. QED
  BY <1>2 DEF BlocksFor

------------------------------------------------------------------------------
(* The invariant that every step preserves.                                 *)

IInv == TypeOK /\ HintSound /\ BootBlocks \subseteq bitmap

\* The state that init_pmm leaves satisfies the invariant.
LEMMA InitIInv == Init => IInv
<1> SUFFICES ASSUME Init PROVE IInv
  OBVIOUS
<1>1. TypeOK
  BY TotalBlocksNat, LayoutAssumption DEF Init, TypeOK, NoGrant
<1>2. HintSound
  BY TotalBlocksNat DEF Init, HintSound, StopsAt
<1>3. QED
  BY <1>1, <1>2 DEF IInv, Init

\* get_next_block moves the hint over set blocks only.
LEMMA HintMoves ==
    ASSUME IInv, NEW i \in 0 .. total_blocks, StopsAt(bitmap, next_block, i)
    PROVE  0 .. i - 1 \subseteq bitmap
<1> SUFFICES ASSUME NEW b \in 0 .. i - 1 PROVE b \in bitmap
  OBVIOUS
<1>1. next_block \in Nat /\ i \in Nat /\ b \in Nat
  BY TotalBlocksNat DEF IInv, TypeOK
<1>2. CASE b < next_block
  BY <1>1, <1>2 DEF IInv, HintSound
<1>3. CASE b >= next_block
  BY <1>1, <1>3 DEF StopsAt
<1>4. QED
  BY <1>1, <1>2, <1>3

\* A run that ends at a block of RunEnds consists of free blocks.
LEMMA RunIsFree ==
    ASSUME NEW from \in 0 .. total_blocks, NEW n \in Nat \ {0},
           NEW b \in RunEnds(from, n)
    PROVE  /\ b \in Blocks
           /\ b - n + 1 \in from .. total_blocks - n
           /\ b - n + 1 .. b \subseteq Blocks
           /\ (b - n + 1 .. b) \cap bitmap = {}
BY TotalBlocksNat DEF RunEnds, Blocks

\* No operation of the allocator breaks the hint or gives up a boot block.
LEMMA NextIInv == IInv /\ [Next]_vars => IInv'
<1> SUFFICES ASSUME IInv, [Next]_vars PROVE IInv'
  OBVIOUS
<1> USE TotalBlocksNat
<1>1. ASSUME NEW size \in Sizes, allocate_size(size)
      PROVE  IInv'
  <2> DEFINE n == BlocksFor(size)
  <2>1. n \in Nat \ {0}
    BY BlocksForPositive
  <2>2. PICK i \in Blocks :
            /\ StopsAt(bitmap, next_block, i)
            /\ next_block' = i
            /\ \E b \in RunEnds(i, n) :
                  /\ bitmap' = bitmap \cup (b - n + 1 .. b)
                  /\ last' = [n |-> n, at |-> b]
    BY <1>1 DEF allocate_size, get_next_block
  <2>3. PICK b \in RunEnds(i, n) :
            /\ bitmap' = bitmap \cup (b - n + 1 .. b)
            /\ last' = [n |-> n, at |-> b]
    BY <2>2
  <2>4. i \in 0 .. total_blocks /\ 0 .. i - 1 \subseteq bitmap
    BY <2>2, HintMoves DEF Blocks
  <2>5. b \in Blocks /\ b - n + 1 .. b \subseteq Blocks
    BY <2>1, <2>4, RunIsFree
  <2>6. TypeOK'
    <3>1. bitmap' \subseteq Blocks
      BY <2>3, <2>5 DEF IInv, TypeOK
    <3>2. n \in Nat /\ b \in -1 .. total_blocks - 1
      BY <2>1, <2>5 DEF Blocks
    <3>3. last' \in [n : Nat, at : -1 .. total_blocks - 1]
      BY <2>3, <3>2
    <3>4. QED
      BY <2>2, <2>4, <3>1, <3>3 DEF TypeOK
  <2>7. HintSound'
    BY <2>2, <2>3, <2>4 DEF HintSound
  <2>8. QED
    BY <2>3, <2>6, <2>7 DEF IInv
<1>2. ASSUME NEW size \in Sizes, allocate_size_fails(size)
      PROVE  IInv'
  <2>1. PICK i \in 0 .. total_blocks :
            /\ StopsAt(bitmap, next_block, i)
            /\ next_block' = i
            /\ last' = [n |-> BlocksFor(size), at |-> -1]
            /\ bitmap' = bitmap
    BY <1>2 DEF allocate_size_fails, get_next_block
  <2>2. 0 .. i - 1 \subseteq bitmap
    BY <2>1, HintMoves
  <2>3. last' \in [n : Nat, at : -1 .. total_blocks - 1]
    BY <2>1, BlocksForPositive
  <2>4. QED
    BY <2>1, <2>2, <2>3 DEF IInv, TypeOK, HintSound
<1>3. ASSUME allocate_block
      PROVE  IInv'
  <2>1. PICK i \in Blocks :
            /\ StopsAt(bitmap, next_block, i)
            /\ next_block' = i
            /\ bitmap' = bitmap \cup {i}
            /\ last' = [n |-> 1, at |-> i]
    BY <1>3 DEF allocate_block, get_next_block
  <2>2. i \in 0 .. total_blocks /\ 0 .. i - 1 \subseteq bitmap
    BY <2>1, HintMoves DEF Blocks
  <2>3. last' \in [n : Nat, at : -1 .. total_blocks - 1]
    BY <2>1 DEF Blocks
  <2>4. QED
    BY <2>1, <2>2, <2>3 DEF IInv, TypeOK, HintSound
<1>4. ASSUME allocate_block_fails
      PROVE  IInv'
  <2>1. /\ StopsAt(bitmap, next_block, total_blocks)
        /\ next_block' = total_blocks
        /\ last' = [n |-> 1, at |-> -1]
        /\ bitmap' = bitmap
    BY <1>4 DEF allocate_block_fails, get_next_block
  <2>2. 0 .. total_blocks - 1 \subseteq bitmap
    BY <2>1, HintMoves
  <2>3. last' \in [n : Nat, at : -1 .. total_blocks - 1]
    BY <2>1
  <2>4. QED
    BY <2>1, <2>2, <2>3 DEF IInv, TypeOK, HintSound
<1>5. ASSUME NEW block \in Blocks, free_block(block)
      PROVE  IInv'
  BY <1>5 DEF free_block, Allocated, NoGrant, Blocks, IInv, TypeOK,
              HintSound
<1>6. ASSUME NEW block \in Blocks, NEW size \in Sizes, free_multi(block, size)
      PROVE  IInv'
  <2> DEFINE freed == block .. block + BlocksFor(size) - 1
  <2>1. /\ freed \subseteq Allocated
        /\ bitmap' = bitmap \ freed
        /\ next_block' = IF block < next_block THEN block ELSE next_block
        /\ last' = NoGrant
    BY <1>6 DEF free_multi
  <2>2. BlocksFor(size) \in Nat \ {0}
    BY BlocksForPositive
  <2>3. freed \cap 0 .. block - 1 = {} /\ block \in 0 .. total_blocks
    BY <2>2 DEF Blocks
  <2>4. CASE block < next_block
    <3>1. next_block' = block
      BY <2>1, <2>4
    <3>2. 0 .. block - 1 \subseteq bitmap'
      BY <2>1, <2>3, <2>4 DEF IInv, TypeOK, HintSound, Blocks
    <3>3. last' \in [n : Nat, at : -1 .. total_blocks - 1]
      BY <2>1 DEF NoGrant
    <3>4. QED
      BY <2>1, <2>3, <3>1, <3>2, <3>3
      DEF IInv, TypeOK, HintSound, Allocated
  <2>5. CASE ~ (block < next_block)
    <3>1. next_block' = next_block
      BY <2>1, <2>5
    <3>2. 0 .. next_block - 1 \subseteq bitmap'
      BY <2>1, <2>3, <2>5 DEF IInv, TypeOK, HintSound, Blocks
    <3>3. last' \in [n : Nat, at : -1 .. total_blocks - 1]
      BY <2>1 DEF NoGrant
    <3>4. QED
      BY <2>1, <3>1, <3>2, <3>3 DEF IInv, TypeOK, HintSound, Allocated
  <2>6. QED
    BY <2>4, <2>5
<1>7. CASE UNCHANGED vars
  BY <1>7 DEF vars, IInv, TypeOK, HintSound
<1>8. QED
  BY <1>1, <1>2, <1>3, <1>4, <1>5, <1>6, <1>7 DEF Next

\* The invariant holds in every reachable state.
THEOREM Invariance == Spec => []IInv
BY InitIInv, NextIInv, PTL DEF Spec

\* The hint never skips a free block (comment above get_next_block), and the
\* bitmap, the hint and the last grant keep their types.
THEOREM HintCorrect == Spec => []NextBlockHint
<1>1. IInv => NextBlockHint
  BY DEF IInv, NextBlockHint
<1>2. QED
  BY <1>1, Invariance, PTL

------------------------------------------------------------------------------
(* The refinement.                                                          *)

\* A request is refused by the scan only when no run of free blocks exists
\* anywhere, below the hint included.
LEMMA ScanIsComplete ==
    ASSUME IInv, NEW i \in 0 .. total_blocks, StopsAt(bitmap, next_block, i),
           NEW n \in Nat \ {0}, RunEnds(i, n) = {},
           NEW first \in 0 .. total_blocks - n
    PROVE  (first .. first + n - 1) \cap bitmap # {}
<1> USE TotalBlocksNat
<1> SUFFICES ASSUME (first .. first + n - 1) \cap bitmap = {} PROVE FALSE
  OBVIOUS
<1>1. first \notin bitmap
  <2>1. first \in first .. first + n - 1
    OBVIOUS
  <2>2. QED
    BY <2>1
<1>2. 0 .. i - 1 \subseteq bitmap
  BY HintMoves
<1>3. i <= first
  BY <1>1, <1>2
<1>4. first + n - 1 \in i + n - 1 .. total_blocks - 1
  BY <1>3
<1>5. (first + n - 1) - n + 1 = first
  OBVIOUS
<1>6. QED
  BY <1>4, <1>5 DEF RunEnds

\* Every step of the allocator is a step of the block pool.
LEMMA StepRefines == IInv /\ [Next]_vars => [Pool!PoolNext]_(Pool!poolVars)
<1> SUFFICES ASSUME IInv, [Next]_vars
             PROVE  Pool!PoolNext \/ UNCHANGED <<bitmap, last>>
  BY DEF Pool!poolVars
<1> USE TotalBlocksNat
<1>1. ASSUME NEW size \in Sizes, allocate_size(size)
      PROVE  Pool!Grant
  <2> DEFINE n == BlocksFor(size)
  <2>1. n \in Nat \ {0}
    BY BlocksForPositive
  <2>2. PICK i \in Blocks :
            \E b \in RunEnds(i, n) :
                /\ bitmap' = bitmap \cup (b - n + 1 .. b)
                /\ last' = [n |-> n, at |-> b]
    BY <1>1 DEF allocate_size
  <2>3. PICK b \in RunEnds(i, n) :
            /\ bitmap' = bitmap \cup (b - n + 1 .. b)
            /\ last' = [n |-> n, at |-> b]
    BY <2>2
  <2> DEFINE first == b - n + 1
  <2>4. /\ b \in Blocks
        /\ first \in i .. total_blocks - n
        /\ (first .. b) \cap bitmap = {}
    BY <2>1, RunIsFree DEF Blocks
  <2>5. first + n - 1 = b /\ n \in 1 .. total_blocks /\ b \in first .. b
        /\ first \in 0 .. total_blocks - n
    BY <2>1, <2>4 DEF Blocks
  <2>6. Pool!Run(first, n) = first .. b
    BY <2>5 DEF Pool!Run
  <2>7. QED
    BY <2>3, <2>4, <2>5, <2>6 DEF Pool!Grant
<1>2. ASSUME NEW size \in Sizes, allocate_size_fails(size)
      PROVE  Pool!Refuse
  <2> DEFINE n == BlocksFor(size)
  <2>1. n \in Nat \ {0}
    BY BlocksForPositive
  <2>2. PICK i \in 0 .. total_blocks :
            /\ StopsAt(bitmap, next_block, i)
            /\ RunEnds(i, n) = {}
            /\ last' = [n |-> n, at |-> -1]
            /\ bitmap' = bitmap
    BY <1>2 DEF allocate_size_fails, get_next_block
  <2>3. last'.n = n
    BY <2>2
  <2>4. \A first \in 0 .. total_blocks - n : Pool!Run(first, n) \cap bitmap # {}
    BY <2>1, <2>2, ScanIsComplete DEF Pool!Run
  <2>5. QED
    BY <2>1, <2>2, <2>3, <2>4 DEF Pool!Refuse
<1>3. ASSUME allocate_block
      PROVE  Pool!Grant
  <2>1. PICK i \in Blocks :
            /\ StopsAt(bitmap, next_block, i)
            /\ bitmap' = bitmap \cup {i}
            /\ last' = [n |-> 1, at |-> i]
    BY <1>3 DEF allocate_block, get_next_block
  <2>2. Pool!Run(i, 1) = {i}
    BY DEF Pool!Run, Blocks
  <2>3. i \notin bitmap
    BY <2>1 DEF StopsAt, Blocks
  <2>4. 1 \in 1 .. total_blocks /\ i \in 0 .. total_blocks - 1
    BY DEF Blocks
  <2>5. QED
    BY <2>1, <2>2, <2>3, <2>4 DEF Pool!Grant
<1>4. ASSUME allocate_block_fails
      PROVE  Pool!Refuse
  <2>1. /\ StopsAt(bitmap, next_block, total_blocks)
        /\ last' = [n |-> 1, at |-> -1]
        /\ bitmap' = bitmap
    BY <1>4 DEF allocate_block_fails, get_next_block
  <2>2. 0 .. total_blocks - 1 \subseteq bitmap
    BY <2>1, HintMoves
  <2>3. last'.n = 1
    BY <2>1
  <2>4. \A first \in 0 .. total_blocks - 1 : Pool!Run(first, 1) \cap bitmap # {}
    BY <2>2 DEF Pool!Run
  <2>5. QED
    BY <2>1, <2>3, <2>4 DEF Pool!Refuse
<1>5. ASSUME NEW block \in Blocks, free_block(block)
      PROVE  Pool!Release
  BY <1>5 DEF free_block, Allocated, NoGrant, IInv, Pool!Release
<1>6. ASSUME NEW block \in Blocks, NEW size \in Sizes, free_multi(block, size)
      PROVE  Pool!Release
  BY <1>6 DEF free_multi, Allocated, NoGrant, IInv, Pool!Release
<1>7. CASE UNCHANGED vars
  BY <1>7 DEF vars
<1>8. QED
  BY <1>1, <1>2, <1>3, <1>4, <1>5, <1>6, <1>7 DEF Next, Pool!PoolNext

\* The allocator implements the block pool: no block is handed out twice, and
\* a request fails only when memory has no run that is long enough.
THEOREM ImplementsBlockPool == Spec => IsBlockPool
<1>1. Init => Pool!PoolInit
  BY DEF Init, NoGrant, Pool!PoolInit
<1>2. QED
  BY <1>1, StepRefines, Invariance, PTL DEF Spec, IsBlockPool, Pool!PoolSpec

------------------------------------------------------------------------------
(* What the marking loops of init_pmm cover.  A loop that strides by a      *)
(* block from an address within a block can end before it meets the block   *)
(* of the last byte.                                                        *)

\* Division with remainder.
LEMMA DivMod ==
    ASSUME NEW B \in Nat \ {0}, NEW d \in Int,
           NEW q \in Int, q = d \div B, NEW r \in Int, r = d % B
    PROVE  d = q * B + r /\ r \in 0 .. B - 1
OBVIOUS

\* A multiple leaves no remainder.
LEMMA ModOfMultiple ==
    ASSUME NEW B \in Nat \ {0}, NEW k \in Int
    PROVE  (k * B) % B = 0
OBVIOUS

\* The sum of two multiples.
LEMMA SumOfMultiples ==
    ASSUME NEW B \in Nat \ {0}, NEW p \in Int, NEW k \in Int
    PROVE  (p + k) * B = p * B + k * B
OBVIOUS

\* Two different multiples are at least one stride apart.
LEMMA NextMultiple ==
    ASSUME NEW B \in Nat \ {0}, NEW p \in Int, NEW q \in Int, p < q
    PROVE  p * B + B <= q * B
<1>1. PICK k \in Nat : q = p + (k + 1)
  <2>1. q - p - 1 \in Nat /\ q = p + ((q - p - 1) + 1)
    OBVIOUS
  <2>2. QED
    BY <2>1
<1>2. q * B = p * B + (k + 1) * B /\ (k + 1) * B = k * B + 1 * B
  BY <1>1, SumOfMultiples
<1>3. k * B \in Nat /\ p * B \in Int /\ 1 * B = B
  OBVIOUS
<1>4. QED
  BY <1>2, <1>3

\* An address is its block's first byte plus its place within the block.
LEMMA Address ==
    ASSUME NEW a \in Int
    PROVE  /\ BlockOf(a) \in Int /\ Within(a) \in 0 .. BLOCK_SIZE - 1
           /\ a = entry.base + BlockOf(a) * BLOCK_SIZE + Within(a)
<1>1. BLOCK_SIZE \in Nat \ {0} /\ entry.base \in Nat
  BY LayoutAssumption
<1>2. PICK d \in Int : d = a - entry.base
  BY <1>1
<1>3. PICK q \in Int : q = d \div BLOCK_SIZE
  BY <1>1
<1>4. PICK r \in Int : r = d % BLOCK_SIZE
  BY <1>1
<1>5. BlockOf(a) = q /\ Within(a) = r
  BY <1>2, <1>3, <1>4 DEF BlockOf, Within
<1>6. d = q * BLOCK_SIZE + r /\ r \in 0 .. BLOCK_SIZE - 1
  BY <1>1, <1>3, <1>4, DivMod
<1>7. PICK p \in Int : p = q * BLOCK_SIZE
  BY <1>1
<1>8. a = entry.base + p + r
  BY <1>1, <1>2, <1>6, <1>7
<1>9. QED
  BY <1>5, <1>6, <1>7, <1>8

\* The same, the other way round.
LEMMA AddressOf ==
    ASSUME NEW q \in Int, NEW r \in 0 .. BLOCK_SIZE - 1,
           NEW a \in Int, a = entry.base + q * BLOCK_SIZE + r
    PROVE  BlockOf(a) = q /\ Within(a) = r
<1>1. BLOCK_SIZE \in Nat \ {0} /\ entry.base \in Nat
  BY LayoutAssumption
<1>2. PICK p \in Int : p = q * BLOCK_SIZE
  BY <1>1
<1>3. a - entry.base = p + r
  BY <1>1, <1>2
<1>4. (p + r) \div BLOCK_SIZE = q /\ (p + r) % BLOCK_SIZE = r
  BY <1>1, <1>2
<1>5. QED
  BY <1>3, <1>4 DEF BlockOf, Within

\* The loop stops in every block between its first and the one that holds a,
\* if it runs as far as from's place in that block.
LEMMA LoopStops ==
    ASSUME NEW from \in Int, NEW to \in Int, NEW a \in Int, from <= a,
           entry.base + BlockOf(a) * BLOCK_SIZE + Within(from) < to
    PROVE  BlockOf(a) \in Marked(from, to)
<1> DEFINE k == BlockOf(a) - BlockOf(from)
           x == from + k * BLOCK_SIZE
<1>1. BLOCK_SIZE \in Nat \ {0} /\ entry.base \in Nat
  BY LayoutAssumption
<1>2. /\ BlockOf(a) \in Int /\ Within(a) \in 0 .. BLOCK_SIZE - 1
      /\ a = entry.base + BlockOf(a) * BLOCK_SIZE + Within(a)
      /\ BlockOf(from) \in Int /\ Within(from) \in 0 .. BLOCK_SIZE - 1
      /\ from = entry.base + BlockOf(from) * BLOCK_SIZE + Within(from)
  BY Address
<1>3. k \in Nat
  BY <1>1, <1>2
<1>4. x \in Int /\ x = entry.base + BlockOf(a) * BLOCK_SIZE + Within(from)
  BY <1>1, <1>2
<1>5. BlockOf(x) = BlockOf(a)
  BY <1>2, <1>4, AddressOf
<1>6. from <= x /\ x < to
  BY <1>1, <1>3, <1>4
<1>7. (x - from) % BLOCK_SIZE = 0
  <2>1. k * BLOCK_SIZE \in Nat
    BY <1>1, <1>3
  <2>2. x - from = k * BLOCK_SIZE
    BY <2>1
  <2>3. QED
    BY <1>1, <1>3, <2>2, ModOfMultiple
<1>8. QED
  BY <1>4, <1>5, <1>6, <1>7 DEF Marked

\* A loop that meets the last block covers the region.
LEMMA Covers ==
    ASSUME NEW from \in Int, NEW to \in Int, MeetsLast(from, to)
    PROVE  Occupied(from, to) \subseteq Marked(from, to)
<1> SUFFICES ASSUME NEW a \in from .. to - 1 PROVE BlockOf(a) \in Marked(from, to)
  BY DEF Occupied
<1>1. BLOCK_SIZE \in Nat \ {0} /\ entry.base \in Nat
  BY LayoutAssumption
<1>2. PICK z \in Int : z = to - 1
  OBVIOUS
<1>3. /\ BlockOf(a) \in Int /\ Within(a) \in 0 .. BLOCK_SIZE - 1
      /\ a = entry.base + BlockOf(a) * BLOCK_SIZE + Within(a)
      /\ BlockOf(z) \in Int /\ Within(z) \in 0 .. BLOCK_SIZE - 1
      /\ z = entry.base + BlockOf(z) * BLOCK_SIZE + Within(z)
      /\ Within(from) \in 0 .. BLOCK_SIZE - 1
  BY Address
<1>4. BlockOf(a) <= BlockOf(z)
  <2>1. CASE BlockOf(z) < BlockOf(a)
    <3>1. BlockOf(z) * BLOCK_SIZE + BLOCK_SIZE <= BlockOf(a) * BLOCK_SIZE
      BY <1>1, <1>3, <2>1, NextMultiple
    <3>2. PICK u \in Int : u = BlockOf(a) * BLOCK_SIZE
      BY <1>1, <1>3
    <3>3. PICK v \in Int : v = BlockOf(z) * BLOCK_SIZE
      BY <1>1, <1>3
    <3>4. QED
      BY <1>1, <1>2, <1>3, <3>1, <3>2, <3>3
  <2>2. QED
    BY <1>3, <2>1
<1>5. BlockOf(a) * BLOCK_SIZE <= BlockOf(z) * BLOCK_SIZE
  BY <1>1, <1>3, <1>4
<1>6. Within(from) <= Within(z)
  BY <1>2 DEF MeetsLast
<1>7. entry.base + BlockOf(a) * BLOCK_SIZE + Within(from) < to
  <2>1. PICK u \in Int : u = BlockOf(a) * BLOCK_SIZE
    BY <1>1, <1>3
  <2>2. PICK v \in Int : v = BlockOf(z) * BLOCK_SIZE
    BY <1>1, <1>3
  <2>3. QED
    BY <1>1, <1>2, <1>3, <1>5, <1>6, <2>1, <2>2
<1>8. QED
  BY <1>7, LoopStops

\* So does a loop that runs on for a block.
LEMMA CoversWithSpare ==
    ASSUME NEW from \in Int, NEW to \in Int, NEW end \in Int, to + BLOCK_SIZE - 1 <= end
    PROVE  Occupied(from, to) \subseteq Marked(from, end)
<1> SUFFICES ASSUME NEW a \in from .. to - 1 PROVE BlockOf(a) \in Marked(from, end)
  BY DEF Occupied
<1>1. BLOCK_SIZE \in Nat \ {0} /\ entry.base \in Nat
  BY LayoutAssumption
<1>2. /\ BlockOf(a) \in Int /\ Within(a) \in 0 .. BLOCK_SIZE - 1
      /\ a = entry.base + BlockOf(a) * BLOCK_SIZE + Within(a)
      /\ Within(from) \in 0 .. BLOCK_SIZE - 1
  BY Address
<1>3. PICK u \in Int : u = BlockOf(a) * BLOCK_SIZE
  BY <1>1, <1>2
<1>4. entry.base + BlockOf(a) * BLOCK_SIZE + Within(from) < end
  BY <1>1, <1>2, <1>3
<1>5. QED
  BY <1>4, LoopStops

\* The condition is exact: a loop that does not meet the last block never
\* marks it.
LEMMA MissesLast ==
    ASSUME NEW from \in Int, NEW to \in Int, from < to, ~ MeetsLast(from, to)
    PROVE  BlockOf(to - 1) \notin Marked(from, to)
<1> SUFFICES ASSUME NEW x \in from .. to - 1, (x - from) % BLOCK_SIZE = 0,
                    BlockOf(x) = BlockOf(to - 1)
             PROVE  FALSE
  BY DEF Marked
<1>1. BLOCK_SIZE \in Nat \ {0} /\ entry.base \in Nat
  BY LayoutAssumption
<1>2. PICK z \in Int : z = to - 1
  OBVIOUS
<1>3. PICK k \in Int : x - from = k * BLOCK_SIZE
  <2>1. PICK d \in Nat : d = x - from
    OBVIOUS
  <2>2. d % BLOCK_SIZE = 0
    BY <2>1
  <2>3. d = (d \div BLOCK_SIZE) * BLOCK_SIZE /\ d \div BLOCK_SIZE \in Int
    BY <1>1, <2>2
  <2>4. QED
    BY <2>1, <2>3
<1>4. /\ BlockOf(from) \in Int /\ Within(from) \in 0 .. BLOCK_SIZE - 1
      /\ from = entry.base + BlockOf(from) * BLOCK_SIZE + Within(from)
      /\ BlockOf(z) \in Int /\ Within(z) \in 0 .. BLOCK_SIZE - 1
      /\ z = entry.base + BlockOf(z) * BLOCK_SIZE + Within(z)
      /\ Within(x) \in 0 .. BLOCK_SIZE - 1
      /\ x = entry.base + BlockOf(x) * BLOCK_SIZE + Within(x)
  BY Address
<1>5. Within(x) = Within(from)
  <2>1. PICK q \in Int : q = BlockOf(from) + k
    BY <1>4
  <2>2. q * BLOCK_SIZE = BlockOf(from) * BLOCK_SIZE + k * BLOCK_SIZE
    BY <1>1, <1>4, <2>1, SumOfMultiples
  <2>3. PICK u \in Int : u = k * BLOCK_SIZE
    BY <1>1
  <2>4. PICK v \in Int : v = BlockOf(from) * BLOCK_SIZE
    BY <1>1, <1>4
  <2>5. x = entry.base + q * BLOCK_SIZE + Within(from)
    BY <1>1, <1>3, <1>4, <2>2, <2>3, <2>4
  <2>6. QED
    BY <1>4, <2>1, <2>5, AddressOf
<1>6. Within(x) <= Within(z)
  <2>1. BlockOf(x) = BlockOf(z) /\ x <= z
    BY <1>2
  <2>2. PICK u \in Int : u = BlockOf(z) * BLOCK_SIZE
    BY <1>1, <1>4
  <2>3. QED
    BY <1>1, <1>4, <2>1, <2>2
<1>7. QED
  BY <1>2, <1>5, <1>6 DEF MeetsLast

\* The addresses of the bitmap are numbers.
LEMMA BitmapStartNat == BitmapStart \in Nat
<1>1. kernel_end + ALIGNMENT + ALIGNMENT - 1 \in Nat /\ ALIGNMENT \in Nat \ {0}
  BY LayoutAssumption
<1>2. PICK q \in Nat : q = (kernel_end + ALIGNMENT + ALIGNMENT - 1) \div ALIGNMENT
  BY <1>1
<1>3. QED
  BY <1>1, <1>2 DEF BitmapStart, ALIGN_ADDR

\* init_pmm: when the strides meet every last block, no block that holds a byte
\* of the kernel, of the bitmap or of the boot information is ever handed out.
THEOREM BootMemoryStays == StridesMeetAll => (Spec => []BootMemoryKept)
<1> SUFFICES ASSUME StridesMeetAll PROVE Spec => []BootMemoryKept
  OBVIOUS
<1>1. ASSUME IInv PROVE BootMemoryKept
  <2>1. Occupied(kernel_start, kernel_end) \subseteq BootBlocks
    <3>1. Occupied(kernel_start, kernel_end) \subseteq Marked(kernel_start, kernel_end)
      BY LayoutAssumption, Covers DEF StridesMeetAll
    <3>2. QED
      BY <3>1 DEF BootBlocks
  <2>2. Occupied(info_start, info_start + header_size) \subseteq BootBlocks
    <3>1. info_start \in Int /\ info_start + header_size \in Int
      BY LayoutAssumption
    <3>2. Occupied(info_start, info_start + header_size)
            \subseteq Marked(info_start, info_start + header_size)
      BY <3>1, Covers DEF StridesMeetAll
    <3>3. QED
      BY <3>2 DEF BootBlocks
  <2>3. Occupied(BitmapStart, BitmapStart + BitmapSize) \subseteq BootBlocks
    <3>1. BitmapSize \in Nat /\ BLOCK_SIZE \in Nat
      BY LayoutAssumption DEF BitmapSize
    <3>2. BitmapStart + BitmapSize + BLOCK_SIZE - 1 <= BitmapStart + total_blocks
      BY <3>1, BitmapStartNat DEF StridesMeetAll, total_blocks
    <3>3. Occupied(BitmapStart, BitmapStart + BitmapSize)
            \subseteq Marked(BitmapStart, BitmapStart + total_blocks)
      BY <3>1, <3>2, BitmapStartNat, TotalBlocksNat, CoversWithSpare
    <3>4. QED
      BY <3>3 DEF BootBlocks
  <2>4. QED
    BY <1>1, <2>1, <2>2, <2>3 DEF BootMemoryKept, IInv
<1>2. QED
  BY <1>1, Invariance, PTL

------------------------------------------------------------------------------
(* Arithmetic of pages and blocks.                                          *)

\* What pages and table entries are.
LEMMA Constants ==
    /\ PAGE_SIZE \in Nat \ {0} /\ BLOCK_SIZE \in Nat \ {0} /\ Entries \in Nat \ {0}
    /\ TABLE_OFFSET \in Nat /\ INT_LIMIT \in Nat /\ screen_size \in Nat \ {0}
    /\ framebuffer_addr \in Nat /\ bar5 \in Nat /\ HBA_SIZE \in Nat \ {0}
    /\ entry.base \in Nat
BY MemoryAssumption, LayoutAssumption

\* The product of the page size and a number of pages is a number of its own.
LEMMA PageProduct ==
    ASSUME NEW n \in Int
    PROVE  \E x \in Int : x = PAGE_SIZE * n /\ x = n * PAGE_SIZE
BY Constants

\* PagesFor rounds up.
LEMMA PagesCover ==
    ASSUME NEW size \in Nat \ {0}
    PROVE  /\ PagesFor(size) \in Nat \ {0}
           /\ size <= PAGE_SIZE * PagesFor(size)
<1>1. PICK P \in Nat \ {0} : P = PAGE_SIZE
  BY Constants
<1>2. PICK d \in Nat : d = size + P - 1 /\ d >= P
  BY <1>1
<1>3. PICK q \in Int : q = d \div P
  BY <1>1
<1>4. PICK r \in Int : r = d % P
  BY <1>1
<1>5. d = q * P + r /\ r \in 0 .. P - 1
  BY <1>1, <1>3, <1>4, DivMod
<1>6. q \in Nat /\ q # 0
  BY <1>1, <1>2, <1>3
<1>7. PICK x \in Int : x = q * P /\ x = P * q
  BY <1>1
<1>8. size <= x
  BY <1>1, <1>2, <1>5, <1>7
<1>9. PagesFor(size) = q
  BY <1>1, <1>2, <1>3 DEF PagesFor
<1>10. QED
  BY <1>1, <1>6, <1>7, <1>8, <1>9

\* A chunk of the heap leaves at least a block less than a page unused of the
\* pages it needs.
LEMMA ChunkLeavesRoom ==
    ASSUME NEW size \in Sizes
    PROVE  /\ size \in Nat \ {0} /\ PagesFor(size) \in Nat \ {0, 1}
           /\ size + PAGE_SIZE - BLOCK_SIZE <= PAGE_SIZE * PagesFor(size)
<1>1. PICK P \in Nat \ {0} : P = PAGE_SIZE
  BY Constants
<1>2. PICK B \in Nat \ {0} : B = BLOCK_SIZE
  BY Constants
<1>3. size \in Nat /\ size > P /\ size % P \in 1 .. B
  BY <1>1, <1>2, MemoryAssumption, LayoutAssumption
<1>4. PICK q \in Int : q = size \div P
  BY <1>1, <1>3
<1>5. PICK r \in Int : r = size % P
  BY <1>1, <1>3
<1>6. size = q * P + r /\ r \in 0 .. P - 1 /\ r \in 1 .. B
  BY <1>1, <1>3, <1>4, <1>5, DivMod
<1>7. q \in Nat \ {0}
  BY <1>1, <1>3, <1>4
<1>8. PICK x \in Int : x = q * P
  BY <1>1
<1>9. PICK y \in Int : y = (q + 1) * P /\ y = P * (q + 1)
  BY <1>1
<1>10. y = x + P
  BY <1>1, <1>8, <1>9, SumOfMultiples
<1>11. PagesFor(size) = q + 1
  <2>1. PICK d \in Int : d = size + P - 1
    BY <1>1, <1>3
  <2>2. PICK s \in Int : s = d \div P
    BY <1>1
  <2>3. PICK t \in Int : t = d % P
    BY <1>1
  <2>4. d = s * P + t /\ t \in 0 .. P - 1
    BY <1>1, <2>1, <2>2, <2>3, DivMod
  <2>5. d = y + (r - 1)
    BY <1>1, <1>3, <1>6, <1>8, <1>10, <2>1
  <2>6. PICK z \in Int : z = s * P
    BY <1>1
  <2>7. ~ s < q + 1
    <3>1. CASE s < q + 1
      <4>1. z + P <= y
        BY <1>1, <1>7, <1>9, <2>6, <3>1, NextMultiple
      <4>2. QED
        BY <1>1, <1>6, <2>4, <2>5, <2>6, <4>1
    <3>2. QED
      BY <3>1
  <2>8. ~ q + 1 < s
    <3>1. CASE q + 1 < s
      <4>1. y + P <= z
        BY <1>1, <1>7, <1>9, <2>6, <3>1, NextMultiple
      <4>2. QED
        BY <1>1, <1>6, <2>4, <2>5, <2>6, <4>1
    <3>2. QED
      BY <3>1
  <2>9. s = q + 1
    BY <1>7, <2>7, <2>8
  <2>10. QED
    BY <1>1, <2>1, <2>2, <2>9 DEF PagesFor
<1>12. size + P - B <= y
  BY <1>1, <1>2, <1>6, <1>8, <1>10
<1>13. QED
  BY <1>1, <1>2, <1>3, <1>7, <1>9, <1>11, <1>12

\* A multiple of the block size lies in its two pages at least a block before
\* their end.
LEMMA OffsetOfBlock ==
    ASSUME NEW a \in Nat, a % BLOCK_SIZE = 0
    PROVE  /\ Offset(a) \in Nat /\ Offset(a) + BLOCK_SIZE <= PAGE_SIZE + PAGE_SIZE
           /\ PAGE_ALIGN(a) \in Nat /\ PAGE_ALIGN(a) + Offset(a) = a
<1>1. PICK P \in Nat \ {0} : P = PAGE_SIZE
  BY Constants
<1>2. PICK B \in Nat \ {0} : B = BLOCK_SIZE
  BY Constants
<1>3. PICK D \in Nat \ {0} : D = 2 * P
  BY <1>1
<1>4. PICK q \in Int : q = a \div D
  BY <1>3
<1>5. PICK f \in Int : f = a % D
  BY <1>3
<1>6. a = q * D + f /\ f \in 0 .. D - 1
  BY <1>3, <1>4, <1>5, DivMod
<1>7. q \in Nat
  BY <1>3, <1>4
<1>8. PICK u \in Int : u = a \div B
  BY <1>2
<1>9. a = u * B
  BY <1>2, <1>8, DivMod
<1>10. PICK w \in Int : P = w * B
  <2>1. P % B = 0
    BY <1>1, <1>2, MemoryAssumption
  <2>2. PICK w \in Int : w = P \div B
    BY <1>1, <1>2
  <2>3. P = w * B
    BY <1>1, <1>2, <2>1, <2>2, DivMod
  <2>4. QED
    BY <2>3
<1>11. D = (w + w) * B
  BY <1>1, <1>2, <1>3, <1>10, SumOfMultiples
<1>12. PICK v \in Int : v = q * (w + w)
  BY <1>7, <1>10
<1>13. q * D = v * B
  BY <1>2, <1>7, <1>10, <1>11, <1>12
<1>14. f = (u - v) * B
  <2>1. PICK k \in Int : k = u - v /\ u = v + k
    BY <1>8, <1>12
  <2>2. u * B = v * B + k * B
    BY <1>2, <1>12, <2>1, SumOfMultiples
  <2>3. PICK x \in Int : x = v * B
    BY <1>2, <1>12
  <2>4. PICK y \in Int : y = k * B
    BY <1>2, <2>1
  <2>5. f = y
    BY <1>6, <1>9, <1>13, <2>2, <2>3, <2>4
  <2>6. QED
    BY <2>1, <2>4, <2>5
<1>15. f + B <= D
  <2>1. PICK k \in Int : k = u - v
    BY <1>8, <1>12
  <2>2. f = k * B /\ w + w \in Int
    BY <1>14, <2>1
  <2>3. CASE k < w + w
    BY <1>2, <1>11, <2>2, <2>3, NextMultiple
  <2>4. CASE w + w < k
    <3>1. (w + w) * B + B <= k * B
      BY <1>2, <2>2, <2>4, NextMultiple
    <3>2. QED
      BY <1>2, <1>3, <1>6, <1>11, <2>2, <3>1
  <2>5. CASE k = w + w
    BY <1>3, <1>6, <1>11, <2>2, <2>5
  <2>6. QED
    BY <2>2, <2>3, <2>4, <2>5
<1>16. PICK x \in Nat : x = q * D
  BY <1>3, <1>7
<1>17. Offset(a) = f /\ PAGE_ALIGN(a) = x
  <2>1. a - f = x
    BY <1>3, <1>6, <1>16
  <2>2. QED
    BY <1>1, <1>3, <1>5, <2>1 DEF Offset, PAGE_ALIGN
<1>18. QED
  BY <1>1, <1>2, <1>3, <1>6, <1>15, <1>16, <1>17

------------------------------------------------------------------------------
(* The page table.                                                          *)

\* Where the pages taken so far end.
TableTop == TABLE_OFFSET + PAGE_SIZE * Len(table)

TableOk == table \in Seq(Nat) /\ Len(table) <= Entries

\* n consecutive entries from index k on map the first len bytes of the region
\* r, which begins off bytes after the first of their pages.
BackedBy(tab, r, k, n, off, len) ==
    /\ r.vaddr = TABLE_OFFSET + PAGE_SIZE * k + off
    /\ k + n <= Len(tab)
    /\ off + len <= PAGE_SIZE * n
    /\ \A m \in 0 .. n - 1 : tab[k + m + 1] + off = r.paddr + PAGE_SIZE * m

Backed(tab, r, len) == \E k, n, off \in Nat : BackedBy(tab, r, k, n, off, len)

\* What request_pages appends.
LEMMA Requested ==
    ASSUME TableOk, NEW addr \in Nat, NEW n \in Nat, request_pages(addr, n)
    PROVE  \E m \in Nat :
              /\ m = IF n <= Room THEN n ELSE Room
              /\ TableOk' /\ Len(table') = Len(table) + m
              /\ \A i \in 1 .. Len(table) : table'[i] = table[i]
              /\ \A j \in 1 .. m : table'[Len(table) + j] = addr + (j - 1) * PAGE_SIZE
<1>1. PICK l \in Nat : l = Len(table) /\ l <= Entries
  BY LenProperties DEF TableOk
<1>2. PICK m \in Nat : m = (IF n <= Room THEN n ELSE Room) /\ l + m <= Entries
  <2>1. PICK room \in Nat : room = Room /\ l + room = Entries
    BY <1>1, Constants DEF Room
  <2>2. CASE n <= room
    BY <1>1, <2>1, <2>2
  <2>3. CASE ~ n <= room
    BY <1>1, <2>1, <2>3
  <2>4. QED
    BY <2>2, <2>3
<1> DEFINE new == [k \in 1 .. m |-> addr + (k - 1) * PAGE_SIZE]
<1>3. table' = table \o new
  BY <1>2 DEF request_pages
<1>4. \A k \in 1 .. m : addr + (k - 1) * PAGE_SIZE \in Nat
  <2>1. TAKE k \in 1 .. m
  <2>2. PICK x \in Nat : x = (k - 1) * PAGE_SIZE
    BY Constants
  <2>3. QED
    BY <2>2
<1>5. new \in [1 .. m -> Nat]
  BY <1>4
<1>6. new \in Seq(Nat) /\ Len(new) = m
  BY <1>5
<1>7. \A j \in 1 .. m : new[j] = addr + (j - 1) * PAGE_SIZE
  OBVIOUS
<1> HIDE DEF new
<1>8. table \in Seq(Nat)
  BY DEF TableOk
<1>9. /\ table' \in Seq(Nat) /\ Len(table') = l + m
      /\ \A i \in 1 .. l + m : table'[i] = IF i <= l THEN table[i] ELSE new[i - l]
  BY <1>1, <1>3, <1>6, <1>8, ConcatProperties
<1>10. \A i \in 1 .. l : table'[i] = table[i]
  BY <1>9
<1>11. \A j \in 1 .. m : table'[l + j] = addr + (j - 1) * PAGE_SIZE
  <2>1. TAKE j \in 1 .. m
  <2>2. table'[l + j] = new[j]
    BY <1>9
  <2>3. QED
    BY <1>7, <2>2
<1>12. TableOk'
  BY <1>2, <1>9 DEF TableOk
<1>13. QED
  BY <1>1, <1>2, <1>9, <1>10, <1>11, <1>12

\* A region stays backed when pages are added.
LEMMA StaysBacked ==
    ASSUME NEW t, Len(t) \in Nat, NEW u, Len(u) \in Nat, Len(t) <= Len(u),
           \A i \in 1 .. Len(t) : u[i] = t[i], NEW r, NEW len \in Int, Backed(t, r, len)
    PROVE  Backed(u, r, len)
<1>1. PICK k \in Nat, n \in Nat, off \in Nat : BackedBy(t, r, k, n, off, len)
  BY DEF Backed
<1>2. \A m \in 0 .. n - 1 : u[k + m + 1] = t[k + m + 1]
  BY <1>1 DEF BackedBy
<1>3. k + n <= Len(u)
  <2>1. k + n <= Len(t)
    BY <1>1 DEF BackedBy
  <2>2. QED
    BY <2>1
<1>4. BackedBy(u, r, k, n, off, len)
  BY <1>1, <1>2, <1>3 DEF BackedBy
<1>5. QED
  BY <1>4 DEF Backed

\* As many bytes of a region are backed as m of the pages it was given hold.
LEMMA NewIsBacked ==
    ASSUME TableOk, NEW addr \in Nat, NEW n \in Nat, request_pages(addr, n),
           NEW m \in Nat, m <= n, m <= Room, NEW off \in Nat, NEW r,
           r.vaddr = TABLE_OFFSET + PAGE_SIZE * Len(table) + off,
           r.paddr = addr + off, NEW len \in Int, off + len <= PAGE_SIZE * m
    PROVE  Backed(table', r, len)
<1>1. PICK l \in Nat : l = Len(table) /\ l <= Entries
  BY LenProperties DEF TableOk
<1>2. PICK room \in Nat : room = Room
  <2>1. Room = Entries - l
    BY <1>1 DEF Room
  <2>2. QED
    BY <1>1, <2>1, Constants
<1>3. PICK g \in Nat :
          /\ g = IF n <= Room THEN n ELSE Room
          /\ Len(table') = l + g
          /\ \A j \in 1 .. g : table'[l + j] = addr + (j - 1) * PAGE_SIZE
  BY <1>1, Requested
<1>4. m <= g
  <2>1. g = (IF n <= room THEN n ELSE room)
    BY <1>2, <1>3, Zenon
  <2>2. QED
    BY <1>2, <2>1
<1>5. ASSUME NEW i \in 0 .. m - 1
      PROVE  table'[l + i + 1] + off = r.paddr + PAGE_SIZE * i
  <2>1. PICK j \in 1 .. g : j = i + 1 /\ l + j = l + i + 1 /\ j - 1 = i
    BY <1>1, <1>4
  <2>2. PICK x \in Int : x = i * PAGE_SIZE /\ x = PAGE_SIZE * i
    <3>1. i \in Int
      OBVIOUS
    <3>2. QED
      BY <3>1, PageProduct
  <2>3. table'[l + i + 1] = addr + x
    BY <1>3, <2>1, <2>2
  <2>4. QED
    BY <2>2, <2>3
<1>6. BackedBy(table', r, l, m, off, len)
  BY <1>1, <1>3, <1>4, <1>5 DEF BackedBy
<1>7. QED
  BY <1>1, <1>6 DEF Backed

\* Quotient and remainder are determined.
LEMMA DivIs ==
    ASSUME NEW B \in Nat \ {0}, NEW q \in Int, NEW r \in 0 .. B - 1,
           NEW x \in Int, x = q * B + r
    PROVE  x \div B = q /\ x % B = r
<1>1. PICK p \in Int : p = q * B
  OBVIOUS
<1>2. x = p + r
  BY <1>1
<1>3. QED
  BY <1>1, <1>2

RegionType ==
    [owner : {"screen", "heap", "ahci"}, vaddr : Int, paddr : Nat, size : Nat]

\* get_phys_mapping finds each byte of a region that is backed.
LEMMA BytesMapped ==
    ASSUME TableOk, NEW r \in RegionType, NEW len \in Int, Backed(table, r, len),
           NEW o \in 0 .. len - 1
    PROVE  Mapped(r, o)
<1>1. PICK k \in Nat, n \in Nat, off \in Nat : BackedBy(table, r, k, n, off, len)
  BY DEF Backed
<1>2. PICK P \in Nat \ {0} : P = PAGE_SIZE
  BY Constants
<1>3. r.size \in Nat /\ r.paddr \in Nat /\ r.vaddr \in Int
  BY DEF RegionType
<1>4. PICK e \in Nat : e = off + o
  BY <1>3
<1>5. PICK q \in Int : q = e \div P
  BY <1>2
<1>6. PICK c \in Int : c = e % P
  BY <1>2
<1>7. e = q * P + c /\ c \in 0 .. P - 1
  BY <1>2, <1>5, <1>6, DivMod
<1>8. PICK x \in Int : x = q * P /\ x = P * q
  BY <1>2
<1>9. PICK y \in Int : y = k * P /\ y = P * k
  BY <1>2
<1>10. q \in 0 .. n - 1
  <2>1. q \in Nat
    BY <1>2, <1>5
  <2>2. PICK z \in Int : z = P * n /\ z = n * P
    BY <1>2
  <2>3. e < z
    BY <1>1, <1>2, <1>3, <1>4, <2>2 DEF BackedBy
  <2>4. CASE n <= q
    <3>1. CASE n = q
      BY <1>7, <1>8, <2>2, <2>3, <3>1
    <3>2. CASE n < q
      <4>1. n * P + P <= q * P
        BY <1>2, <3>2, NextMultiple
      <4>2. QED
        BY <1>2, <1>7, <1>8, <2>2, <2>3, <4>1
    <3>3. QED
      BY <2>4, <3>1, <3>2
  <2>5. QED
    BY <2>1, <2>4
<1>11. PICK v \in Int : v = r.vaddr + o /\ v = TABLE_OFFSET + y + off + o
  <2>1. r.vaddr = TABLE_OFFSET + y + off
    BY <1>1, <1>2, <1>9 DEF BackedBy
  <2>2. QED
    BY <1>3, <2>1
<1>12. (v - TABLE_OFFSET) \div P = k + q
  <2>1. PICK d \in Int : d = v - TABLE_OFFSET
    BY <1>11, Constants
  <2>2. d = y + x + c
    BY <1>4, <1>7, <1>8, <1>11, <2>1, Constants
  <2>3. PICK s \in Int : s = k + q
    OBVIOUS
  <2>4. s * P = y + x
    BY <1>2, <1>8, <1>9, <2>3, SumOfMultiples
  <2>5. d = s * P + c
    BY <1>7, <1>8, <1>9, <2>2, <2>4
  <2>6. d \div P = s
    BY <1>2, <1>7, <2>5, DivIs
  <2>7. QED
    BY <2>1, <2>3, <2>6
<1>13. v % P = c
  <2>1. PICK t \in Int : TABLE_OFFSET = t * P
    <3>1. TABLE_OFFSET % P = 0 /\ TABLE_OFFSET \in Int
      BY <1>2, MemoryAssumption, Constants
    <3>2. PICK t \in Int : t = TABLE_OFFSET \div P
      BY <1>2, <3>1
    <3>3. TABLE_OFFSET = t * P
      BY <1>2, <3>1, <3>2, DivMod
    <3>4. QED
      BY <3>3
  <2>2. PICK u \in Int : u = t + k
    OBVIOUS
  <2>3. PICK s \in Int : s = u + q
    OBVIOUS
  <2>4. u * P = TABLE_OFFSET + y
    BY <1>2, <1>9, <2>1, <2>2, SumOfMultiples
  <2>5. s * P = u * P + x
    BY <1>2, <1>8, <2>3, SumOfMultiples
  <2>6. v = s * P + c
    BY <1>4, <1>7, <1>8, <1>9, <1>11, <2>4, <2>5, Constants
  <2>7. v \in Int /\ c \in 0 .. P - 1
    BY <1>7, <1>11
  <2>8. QED
    BY <1>2, <2>3, <2>6, <2>7, DivIs
<1>14. PICK i \in Nat : i = k + q + 1
  BY <1>10
<1>15. i \in DOMAIN table /\ table[i] \in Nat
  <2>1. Len(table) \in Nat /\ DOMAIN table = 1 .. Len(table) /\ table \in [1 .. Len(table) -> Nat]
    BY LenProperties DEF TableOk
  <2>2. k + n <= Len(table)
    BY <1>1 DEF BackedBy
  <2>3. i \in 1 .. Len(table)
    BY <1>10, <1>14, <2>1, <2>2
  <2>4. QED
    BY <2>1, <2>3
<1>16. get_phys_mapping(r.vaddr + o) = table[i] + c
  <2>1. i = (v - TABLE_OFFSET) \div PAGE_SIZE + 1
    BY <1>2, <1>12, <1>14
  <2>2. v % PAGE_SIZE = c
    BY <1>2, <1>13
  <2>3. get_phys_mapping(v) = table[i] + c
    BY <1>15, <2>1, <2>2, Zenon DEF get_phys_mapping
  <2>4. QED
    BY <1>11, <2>3
<1>17. table[i] + off = r.paddr + x
  BY <1>1, <1>2, <1>8, <1>10, <1>14 DEF BackedBy
<1>18. PICK g \in Nat : g = table[i]
  BY <1>15
<1>19. g + c = r.paddr + o
  <2>1. e = x + c
    BY <1>7, <1>8
  <2>2. g + off = r.paddr + x
    BY <1>17, <1>18
  <2>3. PICK a \in Nat : a = r.paddr
    BY <1>3
  <2>4. QED
    BY <1>3, <1>4, <1>7, <2>1, <2>2, <2>3
<1>20. QED
  BY <1>16, <1>18, <1>19 DEF Mapped

------------------------------------------------------------------------------
(* The invariant.                                                           *)

\* Where the bytes end that the owner of a region uses.
Ends(r) == r.vaddr + Extent(r)

\* What is mapped of a region even if the table ends with its last page.
Sure(r) == r.size - Offset(r.paddr)

\* A region lies below the pages still to come and is backed by those it was
\* given.  (The last one may lack its end when the table is full.)
AllBacked ==
    \A i \in 1 .. Len(regions) :
        /\ Room > 0 \/ i < Len(regions) =>
              /\ Ends(regions[i]) <= TableTop
              /\ Unwrapped(regions[i]) => Backed(table, regions[i], Extent(regions[i]))
        /\ Unwrapped(regions[i]) => Backed(table, regions[i], Sure(regions[i]))

Ascending ==
    \A i, j \in 1 .. Len(regions) :
        i < j /\ Unwrapped(regions[j]) => Ends(regions[i]) <= regions[j].vaddr

\* The framebuffer finds an empty table, and init_heap one with the framebuffer
\* in it.
BootRoom ==
    /\ Len(regions) = 0 => Len(table) = 0
    /\ Len(regions) = 1 => Len(table) = PagesFor(screen_size)

RegionsOk == regions \in Seq(RegionType) /\ AllBacked /\ Ascending /\ BootRoom

MInv == IInv /\ TableOk /\ RegionsOk /\ abar \in BOOLEAN

\* The numbers of a region.
LEMMA RegionNumbers ==
    ASSUME NEW r \in RegionType
    PROVE  /\ r.vaddr \in Int /\ r.paddr \in Nat /\ r.size \in Nat
           /\ Extent(r) \in Nat /\ Ends(r) \in Int
           /\ Offset(r.paddr) \in Nat /\ Sure(r) \in Int
<1>1. r.vaddr \in Int /\ r.paddr \in Nat /\ r.size \in Nat
  BY DEF RegionType
<1>2. Extent(r) \in Nat
  BY <1>1, Constants DEF Extent
<1>3. PICK a \in Nat : a = r.paddr
  BY <1>1
<1>4. Offset(a) \in Nat
  BY Constants DEF Offset
<1>5. QED
  BY <1>1, <1>2, <1>3, <1>4 DEF Ends, Sure

\* The address of the last page to come, and what begins in it, has not wrapped
\* or lies below the table's pages.
LEMMA WrappedIsLow ==
    ASSUME NEW l \in Nat, l < Entries, NEW off \in Nat, off < PAGE_SIZE + PAGE_SIZE,
           NEW page \in PageAddresses(l), page # TABLE_OFFSET + PAGE_SIZE * l
    PROVE  page + off < TABLE_OFFSET /\ page <= TABLE_OFFSET + PAGE_SIZE * l
<1>1. PICK P \in Nat \ {0} : P = PAGE_SIZE
  BY Constants
<1>2. PICK x \in Nat : x = l * P /\ x = P * l
  BY <1>1
<1>3. PICK z \in Nat : z = Entries * P /\ z = P * Entries
  BY <1>1, Constants
<1>4. x + P <= z
  BY <1>1, <1>2, <1>3, NextMultiple, Constants
<1>5. PICK t \in Nat : t = TABLE_OFFSET /\ P <= t
  BY <1>1, Constants, MemoryAssumption
<1>6. PICK w \in Nat : w = INT_LIMIT /\ t + z <= 2 * w
  BY <1>1, <1>3, <1>5, Constants, MemoryAssumption
<1>7. page = t + x - 2 * w
  BY <1>1, <1>2, <1>5, <1>6 DEF PageAddresses
<1>8. page <= t + x /\ page + off < t
  BY <1>1, <1>2, <1>3, <1>4, <1>5, <1>6, <1>7
<1>9. QED
  BY <1>1, <1>2, <1>5, <1>8

\* Pages that are added change nothing for a region.
LEMMA MorePages ==
    ASSUME TableOk, TableOk', Len(table) <= Len(table'),
           \A i \in 1 .. Len(table) : table'[i] = table[i], NEW r \in RegionType
    PROVE  /\ Ends(r) <= TableTop => Ends(r) <= TableTop'
           /\ \A len \in Int : Backed(table, r, len) => Backed(table', r, len)
<1>1. PICK l \in Nat : l = Len(table)
  BY LenProperties DEF TableOk
<1>2. PICK k \in Nat : k = Len(table')
  BY LenProperties DEF TableOk
<1>3. PICK x \in Nat : x = PAGE_SIZE * l /\ x = l * PAGE_SIZE
  BY Constants
<1>4. PICK y \in Nat : y = PAGE_SIZE * k /\ y = k * PAGE_SIZE
  BY Constants
<1>5. x <= y
  <2>1. CASE l = k
    BY <1>3, <1>4, <2>1
  <2>2. CASE l < k
    <3>1. l * PAGE_SIZE + PAGE_SIZE <= k * PAGE_SIZE
      BY <2>2, NextMultiple, Constants
    <3>2. QED
      BY <1>3, <1>4, <3>1, Constants
  <2>3. QED
    BY <1>1, <1>2, <2>1, <2>2
<1>6. TableTop = TABLE_OFFSET + x /\ TableTop' = TABLE_OFFSET + y
  BY <1>1, <1>2, <1>3, <1>4 DEF TableTop
<1>7. PICK e \in Int : e = Ends(r)
  BY RegionNumbers
<1>8. Ends(r) <= TableTop => Ends(r) <= TableTop'
  BY <1>3, <1>4, <1>5, <1>6, <1>7, Constants
<1>9. \A len \in Int : Backed(table, r, len) => Backed(table', r, len)
  BY <1>1, <1>2, StaysBacked
<1>10. QED
  BY <1>8, <1>9

\* Two bounds are added.
LEMMA SumBelow ==
    ASSUME NEW v \in Int, NEW x \in Int, NEW d \in Int, NEW s \in Int, NEW y \in Int,
           v <= x + d, d + s <= y
    PROVE  v + s <= x + y
OBVIOUS

\* A region that was mapped while the table had room is in order.
LEMMA AddRegion ==
    ASSUME MInv, Room > 0, NEW addr \in Nat, NEW n \in Nat, request_pages(addr, n),
           NEW page \in PageAddresses(Len(table)), NEW off \in Nat, NEW paddr \in Nat,
           paddr = addr + off, off < PAGE_SIZE + PAGE_SIZE, off <= Offset(paddr),
           NEW size \in Nat, NEW owner \in {"screen", "heap", "ahci"},
           regions' = Append(regions, Region(owner, page + off, paddr, size)),
           off + (IF owner = "ahci" THEN HBA_SIZE ELSE size) <= PAGE_SIZE * n,
           NEW m \in Nat, m <= n, m <= Room, size <= PAGE_SIZE * m,
           Len(regions) = 0 => n <= Room /\ n = PagesFor(screen_size)
    PROVE  TableOk' /\ RegionsOk'
<1>1. PICK l \in Nat : l = Len(table) /\ l <= Entries
  BY LenProperties DEF MInv, TableOk
<1>2. PICK room \in Nat : room = Room /\ room = Entries - l /\ room > 0
  <2>1. PICK room \in Int : room = Room /\ room = Entries - l
    BY <1>1, Constants DEF Room
  <2>2. room > 0
    BY <2>1
  <2>3. QED
    BY <2>1, <2>2
<1>3. PICK g \in Nat :
          /\ g = IF n <= Room THEN n ELSE Room
          /\ TableOk' /\ Len(table') = l + g
          /\ \A i \in 1 .. l : table'[i] = table[i]
  BY <1>1, Requested DEF MInv
<1>4. PICK x \in Nat : x = TABLE_OFFSET + PAGE_SIZE * l /\ x = TableTop
  <2>1. PICK y \in Nat : y = PAGE_SIZE * l
    BY Constants
  <2>2. QED
    BY <1>1, <2>1, Constants DEF TableTop
<1>5. PICK v \in Int : /\ v = page + off
                       /\ v = x + off \/ (v < TABLE_OFFSET /\ v <= x + off)
  <2>1. page \in Int
    <3>1. page \in {x, x - 2 * INT_LIMIT}
      BY <1>1, <1>4 DEF PageAddresses
    <3>2. QED
      BY <1>4, <3>1, Constants
  <2>2. CASE page = x
    BY <1>4, <2>1, <2>2
  <2>3. CASE page # x
    <3>1. l < Entries
      BY <1>1, <1>2, Constants
    <3>2. page + off < TABLE_OFFSET /\ page <= x
      BY <1>1, <1>4, <2>3, <3>1, WrappedIsLow
    <3>3. QED
      BY <1>4, <2>1, <3>2
  <2>4. QED
    BY <2>2, <2>3
<1> DEFINE r == Region(owner, v, paddr, size)
<1>6. /\ r \in RegionType /\ r.vaddr = v /\ r.paddr = paddr /\ r.size = size
      /\ r.owner = owner
  BY DEF Region, RegionType
<1>7. regions' = Append(regions, r)
  BY <1>5
<1> HIDE DEF r
<1>8. PICK k \in Nat : k = Len(regions)
  BY LenProperties DEF MInv, RegionsOk
<1>9. /\ regions' \in Seq(RegionType) /\ Len(regions') = k + 1 /\ regions'[k + 1] = r
      /\ \A i \in 1 .. k : regions'[i] = regions[i] /\ regions[i] \in RegionType
  BY <1>6, <1>7, <1>8, AppendProperties, ElementOfSeq DEF MInv, RegionsOk
<1>10. \A i \in 1 .. k :
          /\ Ends(regions[i]) <= x /\ Ends(regions[i]) \in Int
          /\ Unwrapped(regions[i]) => /\ Backed(table, regions[i], Extent(regions[i]))
                                      /\ Backed(table, regions[i], Sure(regions[i]))
  BY <1>4, <1>8, <1>9, RegionNumbers DEF MInv, RegionsOk, AllBacked
<1>11. Ascending'
  <2>1. ASSUME NEW i \in 1 .. k + 1, NEW j \in 1 .. k + 1, i < j,
               Unwrapped(regions'[j])
        PROVE  Ends(regions'[i]) <= regions'[j].vaddr
    <3>1. i \in 1 .. k /\ regions'[i] = regions[i]
      BY <1>9, <2>1
    <3>2. CASE j = k + 1
      <4>1. v = x + off
        <5>1. Unwrapped(r)
          BY <1>9, <2>1, <3>2
        <5>2. v >= TABLE_OFFSET
          BY <1>6, <5>1 DEF Unwrapped
        <5>3. QED
          BY <1>5, <5>2, Constants
      <4>2. PICK e \in Int : e = Ends(regions[i]) /\ e <= x
        BY <1>10, <3>1
      <4>3. e <= v
        BY <1>4, <1>5, <4>1, <4>2
      <4>4. QED
        BY <1>6, <1>9, <3>1, <3>2, <4>2, <4>3
    <3>3. CASE j # k + 1
      <4>1. j \in 1 .. k
        BY <3>3
      <4>2. QED
        BY <1>8, <1>9, <2>1, <3>1, <4>1 DEF MInv, RegionsOk, Ascending
    <3>4. QED
      BY <3>2, <3>3
  <2>2. QED
    BY <1>9, <2>1 DEF Ascending
<1>12. ASSUME Room' > 0
       PROVE  g = n /\ n <= Room
  <2>1. Room' = Entries - (l + g)
    BY <1>3 DEF Room
  <2>2. g < room
    BY <1>2, <1>12, <2>1, Constants
  <2>3. g = (IF n <= room THEN n ELSE room)
    BY <1>2, <1>3, Zenon
  <2>4. g = n /\ n <= room
    BY <2>2, <2>3
  <2>5. QED
    BY <1>2, <2>4
<1>13. AllBacked'
  <2>1. ASSUME NEW i \in 1 .. k
        PROVE  /\ Ends(regions[i]) <= TableTop'
               /\ Unwrapped(regions[i]) =>
                     /\ Backed(table', regions[i], Extent(regions[i]))
                     /\ Backed(table', regions[i], Sure(regions[i]))
    <3>1. TableOk /\ TableOk' /\ Len(table) <= Len(table')
      BY <1>1, <1>3 DEF MInv
    <3>2. \A h \in 1 .. Len(table) : table'[h] = table[h]
      BY <1>1, <1>3
    <3>3. PICK q \in RegionType : q = regions[i]
      BY <1>9
    <3>4. Extent(q) \in Int /\ Sure(q) \in Int
      BY RegionNumbers
    <3>5. /\ Ends(q) <= TableTop => Ends(q) <= TableTop'
          /\ \A len \in Int : Backed(table, q, len) => Backed(table', q, len)
      BY <3>1, <3>2, MorePages
    <3>6. QED
      BY <1>4, <1>10, <3>3, <3>4, <3>5
  <2>2. ASSUME Room' > 0
        PROVE  Ends(r) <= TableTop'
    <3>1. Len(table') = l + n
      BY <1>3, <1>12, <2>2
    <3>2. PICK y \in Nat : y = PAGE_SIZE * n
      BY Constants
    <3>3. PICK u \in Nat : u = l * PAGE_SIZE /\ u = PAGE_SIZE * l
      BY Constants
    <3>4. PICK w \in Nat : w = (l + n) * PAGE_SIZE /\ w = PAGE_SIZE * (l + n)
      BY Constants
    <3>5. w = u + y
      <4>1. (l + n) * PAGE_SIZE = l * PAGE_SIZE + n * PAGE_SIZE
        BY Constants, SumOfMultiples
      <4>2. n * PAGE_SIZE = y
        BY <3>2, Constants
      <4>3. QED
        BY <3>3, <3>4, <4>1, <4>2
    <3>6. TableTop' = TABLE_OFFSET + w
      BY <3>1, <3>4 DEF TableTop
    <3>7. PICK s \in Nat : s = Extent(r) /\ off + s <= y
      BY <1>6, <3>2, Constants DEF Extent
    <3>8. v + s <= x + y
      <4>1. v <= x + off
        BY <1>4, <1>5
      <4>2. v \in Int /\ x \in Int /\ s \in Int /\ y \in Int /\ off + s <= y
        BY <1>4, <1>5, <3>2, <3>7
      <4>3. QED
        BY <4>1, <4>2, SumBelow
    <3>9. x + y = TABLE_OFFSET + w
      BY <1>4, <3>2, <3>3, <3>4, <3>5, Constants
    <3>10. QED
      BY <1>6, <3>6, <3>7, <3>8, <3>9 DEF Ends
  <2>3. ASSUME Unwrapped(r)
        PROVE  /\ Room' > 0 => Backed(table', r, Extent(r))
               /\ Backed(table', r, Sure(r))
    <3>1. v = TABLE_OFFSET + PAGE_SIZE * Len(table) + off
      BY <1>1, <1>4, <1>5, <1>6, <2>3, Constants DEF Unwrapped
    <3>2. TableOk
      BY DEF MInv
    <3>3. ASSUME Room' > 0 PROVE Backed(table', r, Extent(r))
      <4>1. n <= Room
        BY <1>12, <3>3
      <4>2. PICK s \in Nat : s = Extent(r) /\ off + s <= PAGE_SIZE * n
        BY <1>6, Constants DEF Extent
      <4>3. Backed(table', r, s)
        BY <1>6, <3>1, <3>2, <4>1, <4>2, NewIsBacked
      <4>4. QED
        BY <4>2, <4>3
    <3>4. Backed(table', r, Sure(r))
      <4>1. PICK s \in Int : s = Sure(r)
        BY <1>6, RegionNumbers
      <4>2. PICK f \in Nat : f = Offset(paddr)
        BY <1>6, RegionNumbers
      <4>3. s = size - f
        BY <1>6, <4>1, <4>2 DEF Sure
      <4>4. PICK y \in Nat : y = PAGE_SIZE * m
        BY Constants
      <4>5. off + s <= PAGE_SIZE * m
        BY <4>1, <4>2, <4>3, <4>4
      <4>6. Backed(table', r, s)
        BY <1>6, <3>1, <3>2, <4>5, NewIsBacked
      <4>7. QED
        BY <4>1, <4>6
    <3>5. QED
      BY <3>3, <3>4
  <2>4. ASSUME NEW i \in 1 .. k + 1
        PROVE  /\ Room' > 0 \/ i < k + 1 =>
                     /\ Ends(regions'[i]) <= TableTop'
                     /\ Unwrapped(regions'[i]) =>
                            Backed(table', regions'[i], Extent(regions'[i]))
               /\ Unwrapped(regions'[i]) =>
                      Backed(table', regions'[i], Sure(regions'[i]))
    <3>1. CASE i \in 1 .. k
      BY <1>9, <2>1, <3>1
    <3>2. CASE i = k + 1
      BY <1>9, <2>2, <2>3, <3>2
    <3>3. i \in 1 .. k \/ i = k + 1
      BY <1>8, <2>4
    <3>4. QED
      BY <3>1, <3>2, <3>3
  <2>5. QED
    BY <1>9, <2>4 DEF AllBacked
<1>14. BootRoom'
  <2>1. CASE k = 0
    <3>1. n <= room /\ n = PagesFor(screen_size) /\ l = 0
      BY <1>1, <1>2, <1>8, <2>1 DEF MInv, RegionsOk, BootRoom
    <3>2. g = (IF n <= room THEN n ELSE room)
      BY <1>2, <1>3, Zenon
    <3>3. Len(table') = n
      BY <1>3, <3>1, <3>2
    <3>4. QED
      BY <1>9, <2>1, <3>1, <3>3 DEF BootRoom
  <2>2. CASE k # 0
    BY <1>9, <2>2 DEF BootRoom
  <2>3. QED
    BY <2>1, <2>2
<1>15. QED
  BY <1>3, <1>9, <1>11, <1>13, <1>14 DEF RegionsOk

------------------------------------------------------------------------------
(* The steps.                                                               *)

\* An empty table satisfies the invariant.
LEMMA InitMInv == MemoryInit => MInv
<1> SUFFICES ASSUME MemoryInit PROVE MInv
  OBVIOUS
<1>1. IInv /\ table = <<>> /\ regions = <<>> /\ abar = FALSE
  BY InitIInv DEF MemoryInit
<1>2. TableOk
  BY <1>1, Constants DEF TableOk
<1>3. RegionsOk
  BY <1>1 DEF RegionsOk, AllBacked, Ascending, BootRoom
<1>4. QED
  BY <1>1, <1>2, <1>3 DEF MInv

\* Where allocate_size puts a chunk is a block, and so begins at a multiple of
\* the block size.
LEMMA ChunkPlace ==
    ASSUME IInv, NEW size \in Sizes, allocate_size(size)
    PROVE  LET paddr == entry.base + last'.at * BLOCK_SIZE
           IN  IInv' /\ paddr \in Nat /\ paddr % BLOCK_SIZE = 0
<1>1. IInv'
  BY NextIInv DEF Next
<1>2. PICK n \in Nat \ {0} : n = BlocksFor(size)
  BY BlocksForPositive
<1>3. PICK i \in Blocks : \E b \in RunEnds(i, n) : last' = [n |-> n, at |-> b]
  BY <1>2 DEF allocate_size
<1>4. PICK b \in RunEnds(i, n) : last' = [n |-> n, at |-> b]
  BY <1>3
<1>5. i \in 0 .. total_blocks
  BY TotalBlocksNat DEF Blocks
<1>6. b \in Nat /\ last'.at = b
  BY <1>4, <1>5, RunIsFree, TotalBlocksNat DEF Blocks
<1>7. PICK B \in Nat \ {0} : B = BLOCK_SIZE
  BY Constants
<1>8. PICK z \in Int : entry.base = z * B
  <2>1. entry.base % B = 0 /\ entry.base \in Int
    BY <1>7, MemoryAssumption, Constants
  <2>2. PICK z \in Int : z = entry.base \div B
    BY <1>7, <2>1
  <2>3. entry.base = z * B
    BY <1>7, <2>1, <2>2, DivMod
  <2>4. QED
    BY <2>3
<1>9. PICK p \in Nat : p = entry.base + b * B
  BY <1>6, <1>7, Constants
<1>10. PICK u \in Int : u = z + b
  BY <1>6
<1>11. p = u * B
  BY <1>6, <1>7, <1>8, <1>9, <1>10, SumOfMultiples
<1>12. p % B = 0
  BY <1>7, <1>10, <1>11, ModOfMultiple
<1>13. QED
  BY <1>1, <1>6, <1>7, <1>9, <1>12

\* A request for more pages than there are fills the table and grants nothing.
LEMMA NothingGranted ==
    ASSUME MInv, NEW addr \in Nat, NEW n \in Nat, request_pages(addr, n), ~ (n <= Room),
           Len(regions) > 1, UNCHANGED regions
    PROVE  TableOk' /\ RegionsOk'
<1>1. PICK l \in Nat : l = Len(table) /\ l <= Entries
  BY LenProperties DEF MInv, TableOk
<1>2. PICK room \in Nat : room = Room /\ room = Entries - l
  <2>1. Room = Entries - l
    BY <1>1 DEF Room
  <2>2. QED
    BY <1>1, <2>1, Constants
<1>3. PICK g \in Nat :
          /\ g = IF n <= Room THEN n ELSE Room
          /\ TableOk' /\ Len(table') = l + g
          /\ \A i \in 1 .. l : table'[i] = table[i]
  BY <1>1, Requested DEF MInv
<1>4. g = room
  BY <1>2, <1>3, Zenon
<1>5. ~ (Room' > 0)
  <2>1. Room' = Entries - (l + g)
    BY <1>3 DEF Room
  <2>2. QED
    BY <1>1, <1>2, <1>4, <2>1, Constants
<1>6. PICK k \in Nat : k = Len(regions) /\ k = Len(regions')
  BY LenProperties DEF MInv, RegionsOk
<1>7. \A i \in 1 .. k : regions'[i] = regions[i] /\ regions[i] \in RegionType
  BY <1>6, ElementOfSeq DEF MInv, RegionsOk
<1>8. AllBacked'
  <2>1. ASSUME NEW i \in 1 .. k
        PROVE  /\ i < k =>
                     /\ Ends(regions[i]) <= TableTop'
                     /\ Unwrapped(regions[i]) =>
                            Backed(table', regions[i], Extent(regions[i]))
               /\ Unwrapped(regions[i]) => Backed(table', regions[i], Sure(regions[i]))
    <3>1. TableOk /\ TableOk' /\ Len(table) <= Len(table')
      BY <1>1, <1>3 DEF MInv
    <3>2. \A h \in 1 .. Len(table) : table'[h] = table[h]
      BY <1>1, <1>3
    <3>3. PICK q \in RegionType : q = regions[i]
      BY <1>7
    <3>4. Extent(q) \in Int /\ Sure(q) \in Int
      BY RegionNumbers
    <3>5. /\ Ends(q) <= TableTop => Ends(q) <= TableTop'
          /\ \A len \in Int : Backed(table, q, len) => Backed(table', q, len)
      BY <3>1, <3>2, MorePages
    <3>6. /\ i < k => /\ Ends(q) <= TableTop
                      /\ Unwrapped(q) => Backed(table, q, Extent(q))
          /\ Unwrapped(q) => Backed(table, q, Sure(q))
      BY <1>6, <3>3 DEF MInv, RegionsOk, AllBacked
    <3>7. QED
      BY <3>3, <3>4, <3>5, <3>6
  <2>2. QED
    BY <1>5, <1>6, <1>7, <2>1 DEF AllBacked
<1>9. Ascending' /\ BootRoom' /\ regions' \in Seq(RegionType)
  BY <1>6 DEF MInv, RegionsOk, Ascending, BootRoom
<1>10. QED
  BY <1>3, <1>8, <1>9 DEF RegionsOk

\* There is room for the heap's first chunk and its spare page.
LEMMA RoomAtBoot ==
    ASSUME MInv, Len(regions) = 1
    PROVE  Room > 0 /\ PagesFor(InitialSize) <= Room
<1>1. PICK l \in Nat : l = Len(table) /\ l = PagesFor(screen_size)
  BY LenProperties DEF MInv, TableOk, RegionsOk, BootRoom
<1>2. PICK n \in Nat : n = PagesFor(InitialSize)
  BY ChunkLeavesRoom, MemoryAssumption
<1>3. l + n + 1 <= Entries
  BY <1>1, <1>2, MemoryAssumption
<1>4. Room = Entries - l
  BY <1>1 DEF Room
<1>5. QED
  BY <1>1, <1>2, <1>3, <1>4, Constants

\* A chunk for the heap preserves the invariant: the spare page covers its end.
LEMMA request_memoryMInv ==
    ASSUME MInv, NEW size \in Sizes, request_memory(size)
    PROVE  MInv'
<1>1. /\ IInv /\ TableOk /\ RegionsOk /\ abar \in BOOLEAN
      /\ Len(regions) > 0 /\ (Len(regions) = 1 => size = InitialSize)
      /\ allocate_size(size) /\ UNCHANGED abar
  BY DEF MInv, request_memory
<1>2. PICK p \in Nat : /\ p = entry.base + last'.at * BLOCK_SIZE
                       /\ p % BLOCK_SIZE = 0 /\ IInv'
  BY <1>1, ChunkPlace
<1>3. PICK n \in Nat \ {0, 1} :
          n = PagesFor(size) /\ size + PAGE_SIZE - BLOCK_SIZE <= PAGE_SIZE * n
  BY ChunkLeavesRoom
<1>4. size \in Nat \ {0} /\ size <= PAGE_SIZE * n
  BY <1>3, ChunkLeavesRoom, PagesCover
<1>5. PICK off \in Nat : off = Offset(p) /\ off + BLOCK_SIZE <= PAGE_SIZE + PAGE_SIZE
  BY <1>2, OffsetOfBlock
<1>6. PICK addr \in Nat : addr = PAGE_ALIGN(p) /\ p = addr + off
  BY <1>2, <1>5, OffsetOfBlock
<1>7. PICK c \in Nat : c = n + 1
  OBVIOUS
<1>8. /\ request_pages(addr, c)
      /\ \E page \in PageAddresses(Len(table)) :
            regions' = IF n <= Room THEN Append(regions, Region("heap", page + off, p, size))
                                    ELSE regions
  <2>1. map_memory("heap", p, size)
    BY <1>2, Zenon DEF request_memory
  <2>2. QED
    BY <1>3, <1>5, <1>6, <1>7, <2>1, Zenon DEF map_memory, grant
<1>9. PICK room \in Nat : room = Room
  <2>1. PICK l \in Nat : l = Len(table) /\ l <= Entries
    BY <1>1, LenProperties DEF TableOk
  <2>2. Room = Entries - l
    BY <2>1 DEF Room
  <2>3. QED
    BY <2>1, <2>2, Constants
<1>10. CASE n <= room
  <2>1. PICK page \in PageAddresses(Len(table)) :
            regions' = Append(regions, Region("heap", page + off, p, size))
    BY <1>8, <1>9, <1>10
  <2>2. off + (IF "heap" = "ahci" THEN HBA_SIZE ELSE size) <= PAGE_SIZE * c
    <3>1. PICK x \in Nat : x = PAGE_SIZE * n /\ x = n * PAGE_SIZE
      BY Constants
    <3>2. PAGE_SIZE * c = x + PAGE_SIZE
      BY <1>7, <3>1, SumOfMultiples, Constants
    <3>3. PICK P \in Nat : P = PAGE_SIZE
      BY Constants
    <3>4. PICK B \in Nat : B = BLOCK_SIZE
      BY Constants
    <3>5. off + B <= P + P /\ size + P - B <= x
      BY <1>3, <1>5, <3>1, <3>3, <3>4
    <3>6. off + size <= x + P
      BY <1>4, <3>5
    <3>7. QED
      BY <3>2, <3>3, <3>6
  <2>3. off < PAGE_SIZE + PAGE_SIZE
    BY <1>5, Constants
  <2>4. Room > 0 /\ n <= c /\ n <= Room /\ Len(regions) # 0
    BY <1>1, <1>3, <1>7, <1>9, <1>10
  <2>5. off <= Offset(p)
    BY <1>5
  <2>6. TableOk' /\ RegionsOk'
    BY <1>4, <1>6, <1>8, <2>1, <2>2, <2>3, <2>4, <2>5, AddRegion
  <2>7. QED
    BY <1>1, <1>2, <2>6 DEF MInv
<1>11. CASE ~ n <= room
  <2>1. UNCHANGED regions
    BY <1>8, <1>9, <1>11
  <2>2. ~ (c <= Room)
    BY <1>3, <1>7, <1>9, <1>11
  <2>3. Len(regions) > 1
    <3>1. Len(regions) # 1
      BY <1>1, <1>3, <1>9, <1>11, RoomAtBoot
    <3>2. PICK k \in Nat : k = Len(regions)
      BY <1>1, LenProperties DEF RegionsOk
    <3>3. k > 0 /\ k # 1
      BY <1>1, <3>1, <3>2
    <3>4. QED
      BY <3>2, <3>3
  <2>4. TableOk' /\ RegionsOk'
    BY <1>8, <2>1, <2>2, <2>3, NothingGranted
  <2>5. QED
    BY <1>1, <1>2, <2>4 DEF MInv
<1>12. QED
  BY <1>10, <1>11

\* The mapping of the framebuffer preserves the invariant.
LEMMA map_framebufferMInv ==
    ASSUME MInv, map_framebuffer
    PROVE  MInv'
<1> DEFINE n == PagesFor(screen_size)
<1>1. /\ IInv /\ TableOk /\ RegionsOk /\ abar \in BOOLEAN
      /\ regions = <<>> /\ request_pages(framebuffer_addr, n)
      /\ UNCHANGED <<vars, abar>>
  BY DEF MInv, map_framebuffer
<1>2. PICK page \in PageAddresses(Len(table)) :
          regions' = <<Region("screen", page, framebuffer_addr, screen_size)>>
  BY DEF map_framebuffer
<1>3. n \in Nat \ {0} /\ screen_size \in Nat /\ screen_size <= PAGE_SIZE * n
  BY PagesCover, Constants
<1>4. n <= Entries
  <2>1. PagesFor(InitialSize) \in Nat
    BY ChunkLeavesRoom, MemoryAssumption
  <2>2. n + PagesFor(InitialSize) + 1 <= Entries
    BY MemoryAssumption
  <2>3. QED
    BY <1>3, <2>1, <2>2, Constants
<1>5. n = PagesFor(screen_size)
  OBVIOUS
<1> HIDE DEF n
<1>6. Len(regions) = 0 /\ Len(table) = 0
  BY <1>1 DEF RegionsOk, BootRoom
<1>7. Room = Entries
  BY <1>6, Constants DEF Room
<1>8. page \in Int
  <2>1. PICK x \in Int : x = TABLE_OFFSET + PAGE_SIZE * 0
    BY Constants
  <2>2. page \in {x, x - 2 * INT_LIMIT}
    BY <1>6, <2>1 DEF PageAddresses
  <2>3. QED
    BY <2>1, <2>2, Constants
<1>9. regions' = Append(regions, Region("screen", page + 0, framebuffer_addr, screen_size))
  <2>1. page + 0 = page
    BY <1>8
  <2>2. QED
    BY <1>1, <1>2, <2>1
<1>10. 0 <= Offset(framebuffer_addr) /\ 0 < PAGE_SIZE + PAGE_SIZE
  <2>1. PICK D \in Nat \ {0} : D = 2 * PAGE_SIZE
    BY Constants
  <2>2. PICK f \in Nat : f = framebuffer_addr
    BY Constants
  <2>3. 0 <= f % D
    BY <2>1, <2>2
  <2>4. QED
    BY <2>1, <2>2, <2>3, Constants DEF Offset
<1>11. 0 + (IF "screen" = "ahci" THEN HBA_SIZE ELSE screen_size) <= PAGE_SIZE * n
  BY <1>3
<1>12. framebuffer_addr = framebuffer_addr + 0 /\ framebuffer_addr \in Nat /\ 0 \in Nat
  BY Constants
<1>13. Room > 0 /\ n <= Room /\ n <= n
  BY <1>3, <1>4, <1>7, Constants
<1>14. TableOk' /\ RegionsOk'
  BY <1>1, <1>3, <1>5, <1>9, <1>10, <1>11, <1>12, <1>13, AddRegion
<1>15. IInv'
  BY <1>1, NextIInv
<1>16. QED
  BY <1>1, <1>14, <1>15 DEF MInv

\* One page holds a page.
LEMMA PagesForPage == PagesFor(PAGE_SIZE) = 1
<1>1. PICK P \in Nat \ {0} : P = PAGE_SIZE
  BY Constants
<1>2. PICK d \in Int : d = P + P - 1
  OBVIOUS
<1>3. d = 1 * P + (P - 1) /\ P - 1 \in 0 .. P - 1
  BY <1>2
<1>4. d \div P = 1
  BY <1>3, DivIs
<1>5. QED
  BY <1>1, <1>2, <1>4 DEF PagesFor

\* The place of an address in its two pages.
LEMMA OffsetOf ==
    ASSUME NEW a \in Nat
    PROVE  /\ Offset(a) \in Nat /\ Offset(a) < PAGE_SIZE + PAGE_SIZE
           /\ PAGE_ALIGN(a) \in Nat /\ a = PAGE_ALIGN(a) + Offset(a)
<1>1. PICK P \in Nat \ {0} : P = PAGE_SIZE
  BY Constants
<1>2. PICK D \in Nat \ {0} : D = 2 * P
  BY <1>1
<1>3. PICK q \in Int : q = a \div D
  BY <1>2
<1>4. PICK f \in Int : f = a % D
  BY <1>2
<1>5. a = q * D + f /\ f \in 0 .. D - 1
  <2>1. a \in Int /\ D \in Nat \ {0} /\ q \in Int /\ f \in Int
    BY <1>2, <1>3, <1>4
  <2>2. q = a \div D /\ f = a % D
    BY <1>3, <1>4
  <2>3. QED
    BY <2>1, <2>2, DivMod
<1>6. q \in Nat
  BY <1>2, <1>3
<1>7. PICK x \in Nat : x = q * D
  BY <1>2, <1>6
<1>8. Offset(a) = f /\ PAGE_ALIGN(a) = x
  <2>1. a - f = x
    BY <1>2, <1>5, <1>7
  <2>2. QED
    BY <1>1, <1>2, <1>4, <2>1 DEF Offset, PAGE_ALIGN
<1>9. QED
  BY <1>1, <1>2, <1>5, <1>7, <1>8

\* The request for the AHCI registers preserves the invariant: they lie in the
\* page asked for or in the one to spare.
LEMMA request_memory_addrMInv ==
    ASSUME MInv, request_memory_addr
    PROVE  MInv'
<1>1. /\ IInv /\ TableOk /\ RegionsOk
      /\ Len(regions) > 1 /\ abar' = TRUE
      /\ map_memory("ahci", bar5, PAGE_SIZE)
      /\ UNCHANGED vars
  BY DEF MInv, request_memory_addr
<1>2. PICK off \in Nat : off = Offset(bar5) /\ off < PAGE_SIZE + PAGE_SIZE
  BY Constants, OffsetOf
<1>3. PICK addr \in Nat : addr = PAGE_ALIGN(bar5) /\ bar5 = addr + off
  BY <1>2, Constants, OffsetOf
<1>4. /\ request_pages(addr, 2)
      /\ \E page \in PageAddresses(Len(table)) :
            regions' = IF 1 <= Room
                       THEN Append(regions, Region("ahci", page + off, bar5, PAGE_SIZE))
                       ELSE regions
  <2>1. PagesFor(PAGE_SIZE) + 1 = 2
    BY PagesForPage
  <2>2. QED
    BY <1>1, <1>2, <1>3, <2>1, PagesForPage, Zenon DEF map_memory, grant
<1>5. PICK room \in Nat : room = Room
  <2>1. PICK l \in Nat : l = Len(table) /\ l <= Entries
    BY <1>1, LenProperties DEF TableOk
  <2>2. Room = Entries - l
    BY <2>1 DEF Room
  <2>3. QED
    BY <2>1, <2>2, Constants
<1>6. TableOk' /\ RegionsOk'
  <2>1. CASE 1 <= room
    <3>1. PICK page \in PageAddresses(Len(table)) :
              regions' = Append(regions, Region("ahci", page + off, bar5, PAGE_SIZE))
      BY <1>4, <1>5, <2>1
    <3>2. off + (IF "ahci" = "ahci" THEN HBA_SIZE ELSE PAGE_SIZE) <= PAGE_SIZE * 2
      BY <1>2, MemoryAssumption, Constants
    <3>3. 1 \in Nat /\ 1 <= 2 /\ 1 <= Room /\ Room > 0 /\ Len(regions) # 0
      BY <1>1, <1>5, <2>1
    <3>4. PAGE_SIZE <= PAGE_SIZE * 1 /\ PAGE_SIZE \in Nat /\ bar5 \in Nat
      BY Constants
    <3>5. off <= Offset(bar5) /\ 2 \in Nat
      BY <1>2
    <3>6. QED
      BY <1>2, <1>3, <1>4, <3>1, <3>2, <3>3, <3>4, <3>5, AddRegion
  <2>2. CASE ~ 1 <= room
    <3>1. UNCHANGED regions
      BY <1>4, <1>5, <2>2
    <3>2. ~ (2 <= Room)
      BY <1>5, <2>2
    <3>3. QED
      BY <1>1, <1>4, <3>1, <3>2, NothingGranted
  <2>3. QED
    BY <2>1, <2>2
<1>7. IInv'
  BY <1>1, NextIInv
<1>8. QED
  BY <1>1, <1>6, <1>7 DEF MInv

\* Every step preserves the invariant.
LEMMA MemoryNextMInv ==
    ASSUME MInv, [MemoryNext]_memory_vars
    PROVE  MInv'
<1>1. CASE \E size \in Sizes : request_memory(size)
  BY <1>1, request_memoryMInv
<1>2. ASSUME NEW size \in Sizes, request_memory_fails(size)
      PROVE  MInv'
  <2>1. IInv' /\ UNCHANGED <<table, regions, abar>>
    BY <1>2, NextIInv DEF MInv, Next, request_memory_fails
  <2>2. QED
    BY <2>1 DEF MInv, TableOk, RegionsOk, AllBacked, Ascending, BootRoom, TableTop, Room
<1>3. CASE map_framebuffer
  BY <1>3, map_framebufferMInv
<1>4. CASE request_memory_addr
  BY <1>4, request_memory_addrMInv
<1>5. CASE UNCHANGED memory_vars
  <2>1. UNCHANGED vars /\ UNCHANGED <<table, regions, abar>>
    BY <1>5 DEF memory_vars
  <2>2. IInv'
    BY <2>1, NextIInv DEF MInv
  <2>3. QED
    BY <2>1, <2>2 DEF MInv, TableOk, RegionsOk, AllBacked, Ascending, BootRoom,
                      TableTop, Room
<1>6. QED
  BY <1>1, <1>2, <1>3, <1>4, <1>5 DEF MemoryNext

\* The inductive invariant of virtual memory (memory.c): the regions handed out
\* ascend, and are backed by the pages they were given, all but the end of one
\* that fills the table.
THEOREM MemoryInvariance == MemorySpec => []MInv
<1>1. MInv /\ [MemoryNext]_memory_vars => MInv'
  BY MemoryNextMInv
<1>2. QED
  BY <1>1, InitMInv, PTL DEF MemorySpec

\* The pages of the framebuffer, the heap and the AHCI registers ascend in any
\* order of requests after boot, for any memory map, page size and table, a full
\* one included: what expand_heap links after the last block lies above it,
\* until the addresses of pages wrap.
THEOREM RegionsAlwaysAscend == MemorySpec => []RegionsAscend
<1>1. ASSUME MInv PROVE RegionsAscend
  <2>1. IInv /\ TableOk /\ RegionsOk /\ abar \in BOOLEAN
    BY <1>1 DEF MInv
  <2>2. DOMAIN regions = 1 .. Len(regions)
    BY <2>1, LenProperties DEF RegionsOk
  <2>3. MemoryTypeOK
    BY <2>1 DEF MemoryTypeOK, IInv, TableOk, RegionsOk, RegionType
  <2>4. QED
    BY <2>1, <2>2, <2>3 DEF RegionsAscend, RegionsOk, Ascending, Ends
<1>2. QED
  BY <1>1, MemoryInvariance, PTL

\* Every byte that the owner of a region uses is mapped to its own physical
\* byte, for any memory map, page size and table, although a chunk may begin
\* anywhere in its first two pages: the one page to spare is enough for what
\* the heap asks for and for the AHCI registers, and in a full table only the
\* end of the last region can be missing.
THEOREM RegionsAlwaysMapped == MemorySpec => []RegionsMapped
<1>1. ASSUME MInv PROVE RegionsMapped
  <2>1. TableOk /\ RegionsOk
    BY <1>1 DEF MInv
  <2>2. PICK k \in Nat : k = Len(regions) /\ DOMAIN regions = 1 .. k
    BY <2>1, LenProperties DEF RegionsOk
  <2>3. PICK room \in Nat : room = Room
    <3>1. PICK l \in Nat : l = Len(table) /\ l <= Entries
      BY <2>1, LenProperties DEF TableOk
    <3>2. Room = Entries - l
      BY <3>1 DEF Room
    <3>3. QED
      BY <3>1, <3>2, Constants
  <2>4. ASSUME NEW i \in DOMAIN regions, Unwrapped(regions[i]),
               NEW o \in 0 .. Extent(regions[i]) - 1
        PROVE  \/ Mapped(regions[i], o)
               \/ Room = 0 /\ i = Len(regions) /\ o >= regions[i].size - Offset(regions[i].paddr)
    <3>1. PICK r \in RegionType : r = regions[i]
      BY <2>1, <2>2, ElementOfSeq DEF RegionsOk
    <3>2. /\ room > 0 \/ i < k => Backed(table, r, Extent(r))
          /\ Backed(table, r, Sure(r))
      BY <2>1, <2>2, <2>3, <2>4, <3>1 DEF RegionsOk, AllBacked
    <3>3. Extent(r) \in Int /\ Sure(r) \in Int
      BY RegionNumbers
    <3>4. CASE room > 0 \/ i < k
      <4>1. o \in 0 .. Extent(r) - 1
        BY <2>4, <3>1
      <4>2. Mapped(r, o)
        BY <2>1, <3>2, <3>3, <3>4, <4>1, BytesMapped
      <4>3. QED
        BY <3>1, <4>2
    <3>5. CASE room = 0 /\ i = k
      <4>1. PICK e \in Nat : e = Extent(r)
        BY RegionNumbers
      <4>2. o \in 0 .. e - 1
        BY <2>4, <3>1, <4>1
      <4>3. PICK s \in Int : s = Sure(r)
        BY <3>3
      <4>4. CASE o < s
        <5>1. o \in 0 .. s - 1
          BY <4>2, <4>3, <4>4
        <5>2. Mapped(r, o)
          BY <2>1, <3>2, <4>3, <5>1, BytesMapped
        <5>3. QED
          BY <3>1, <5>2
      <4>5. CASE o >= s
        BY <2>2, <2>3, <3>1, <3>5, <4>3, <4>5 DEF Sure
      <4>6. QED
        BY <4>2, <4>3, <4>4, <4>5
    <3>6. QED
      BY <2>2, <2>3, <3>4, <3>5
  <2>5. QED
    BY <2>4 DEF RegionsMapped
<1>2. QED
  BY <1>1, MemoryInvariance, PTL

------------------------------------------------------------------------------
(* Physical memory of the chunks.                                           *)

\* A chunk begins at the last block of the first run of its length that was
\* free: all runs of that length that end earlier are in use since.
Placed(r) ==
    /\ r.size \in Nat
    /\ \E b \in bitmap : LET n == BlocksFor(r.size) IN
          /\ r.paddr = entry.base + b * BLOCK_SIZE
          /\ \A e \in Nat : n - 1 <= e /\ e < b => (e - n + 1 .. e) \cap bitmap # {}

PlacedInv == ChunksApart /\ \A i \in Chunks : Placed(regions[i])

\* A size is less than the blocks requested for it, and a longer one takes no fewer.
LEMMA BlocksOf ==
    ASSUME NEW s \in Nat
    PROVE  /\ BlocksFor(s) \in Nat \ {0} /\ s < BlocksFor(s) * BLOCK_SIZE
           /\ \A t \in Nat : s <= t => BlocksFor(s) <= BlocksFor(t)
<1>1. PICK B \in Nat \ {0} : B = BLOCK_SIZE
  BY Constants
<1>2. ASSUME NEW t \in Nat
      PROVE  \E q \in Nat : BlocksFor(t) = q + 1 /\ q * B <= t /\ t < (q + 1) * B
  <2>1. PICK q \in Int, r \in Int : q = t \div B /\ r = t % B
    BY <1>1
  <2>2. t = q * B + r /\ r \in 0 .. B - 1
    BY <2>1, DivMod
  <2>3. q \in Nat
    BY <2>1
  <2>4. (q + 1) * B = q * B + 1 * B /\ 1 * B = B
    BY <2>3, SumOfMultiples
  <2>5. q * B \in Nat
    BY <2>3
  <2>6. q * B <= t /\ t < (q + 1) * B
    BY <2>2, <2>4, <2>5
  <2>7. QED
    BY <1>1, <2>1, <2>3, <2>6 DEF BlocksFor
<1>3. PICK q \in Nat : BlocksFor(s) = q + 1 /\ q * B <= s /\ s < (q + 1) * B
  BY <1>2
<1>4. ASSUME NEW t \in Nat, s <= t PROVE BlocksFor(s) <= BlocksFor(t)
  <2>1. PICK p \in Nat : BlocksFor(t) = p + 1 /\ p * B <= t /\ t < (p + 1) * B
    BY <1>2
  <2>2. ~ (p < q)
    <3>1. SUFFICES ASSUME p < q PROVE FALSE
      OBVIOUS
    <3>2. (p + 1) * B <= q * B
      <4>1. CASE p + 1 = q
        BY <4>1
      <4>2. CASE p + 1 < q
        <5>1. (p + 1) * B + B <= q * B
          BY <4>2, NextMultiple
        <5>2. (p + 1) * B \in Nat /\ q * B \in Nat
          OBVIOUS
        <5>3. QED
          BY <5>1, <5>2
      <4>3. QED
        BY <3>1, <4>1, <4>2
    <3>3. (p + 1) * B \in Nat /\ q * B \in Nat
      OBVIOUS
    <3>4. QED
      BY <1>3, <1>4, <2>1, <3>2, <3>3
  <2>3. QED
    BY <1>3, <2>1, <2>2
<1>5. QED
  BY <1>1, <1>3, <1>4

\* First fit: no run of the requested length ends before the one granted.
LEMMA FirstFit ==
    ASSUME IInv, NEW size \in Sizes, allocate_size(size)
    PROVE  \E b \in Blocks : LET n == BlocksFor(size) IN
              /\ last'.at = b /\ b >= n - 1
              /\ bitmap' = bitmap \cup (b - n + 1 .. b)
              /\ (b - n + 1 .. b) \cap bitmap = {}
              /\ \A e \in Nat : n - 1 <= e /\ e < b => (e - n + 1 .. e) \cap bitmap # {}
<1>1. PICK n \in Nat \ {0} : n = BlocksFor(size)
  BY BlocksForPositive
<1>2. PICK i \in Blocks :
          /\ StopsAt(bitmap, next_block, i)
          /\ \E b \in RunEnds(i, n) :
                /\ \A k \in RunEnds(i, n) : b <= k
                /\ bitmap' = bitmap \cup (b - n + 1 .. b)
                /\ last' = [n |-> n, at |-> b]
  BY <1>1 DEF allocate_size, get_next_block
<1>3. PICK b \in RunEnds(i, n) :
          /\ \A k \in RunEnds(i, n) : b <= k
          /\ bitmap' = bitmap \cup (b - n + 1 .. b)
          /\ last' = [n |-> n, at |-> b]
  BY <1>2
<1>4. i \in 0 .. total_blocks /\ total_blocks \in Nat
  BY TotalBlocksNat DEF Blocks
<1>5. b \in Blocks /\ b - n + 1 \in i .. total_blocks - n /\ (b - n + 1 .. b) \cap bitmap = {}
  BY <1>3, <1>4, RunIsFree
<1>6. 0 .. i - 1 \subseteq bitmap
  BY <1>2, <1>4, HintMoves
<1>7. b \in Nat /\ b >= n - 1 /\ b < total_blocks
  BY <1>1, <1>4, <1>5 DEF Blocks
<1>8. ASSUME NEW e \in Nat, n - 1 <= e, e < b
      PROVE  (e - n + 1 .. e) \cap bitmap # {}
  <2>1. CASE e - n + 1 < i
    <3>1. e - n + 1 \in 0 .. i - 1 /\ e - n + 1 \in e - n + 1 .. e
      BY <1>4, <1>8, <2>1
    <3>2. QED
      BY <1>6, <3>1
  <2>2. CASE e - n + 1 >= i
    <3>1. e \in i + n - 1 .. total_blocks - 1
      BY <1>4, <1>7, <1>8, <2>2
    <3>2. e \notin RunEnds(i, n)
      BY <1>3, <1>7, <1>8
    <3>3. QED
      BY <3>1, <3>2 DEF RunEnds
  <2>3. QED
    BY <1>4, <2>1, <2>2
<1>9. last'.at = b
  BY <1>3
<1>10. QED
  BY <1>1, <1>3, <1>5, <1>7, <1>8, <1>9

\* What is in use stays so: a chunk keeps its place.
LEMMA StaysPlaced ==
    ASSUME NEW r, Placed(r), bitmap \subseteq bitmap'
    PROVE  Placed(r)'
<1>1. PICK n : n = BlocksFor(r.size) /\ n = BlocksFor(r.size)'
  BY DEF BlocksFor
<1>2. PICK b \in bitmap :
          /\ r.paddr = entry.base + b * BLOCK_SIZE
          /\ \A e \in Nat : n - 1 <= e /\ e < b => (e - n + 1 .. e) \cap bitmap # {}
  BY <1>1 DEF Placed
<1>3. b \in bitmap' /\ \A e \in Nat : n - 1 <= e /\ e < b => (e - n + 1 .. e) \cap bitmap' # {}
  BY <1>2
<1>4. r.size \in Nat
  BY DEF Placed
<1>5. QED
  BY <1>1, <1>2, <1>3, <1>4 DEF Placed

\* The run for a longer chunk begins above the block where an earlier one begins,
\* and so ends at least the length of the earlier one above it.
LEMMA LaterIsAbove ==
    ASSUME IInv, NEW size \in Sizes, allocate_size(size), NEW r, Placed(r), r.size <= size
    PROVE  r.paddr + r.size <= entry.base + last'.at * BLOCK_SIZE
<1>1. PICK n \in Nat \ {0} : n = BlocksFor(size)
  BY BlocksForPositive
<1>2. PICK b \in Blocks :
          /\ last'.at = b /\ b >= n - 1
          /\ (b - n + 1 .. b) \cap bitmap = {}
  BY <1>1, FirstFit
<1>3. PICK s \in Nat : s = r.size /\ s <= size
  BY DEF Placed
<1>4. PICK m \in Nat \ {0} : m = BlocksFor(s) /\ s < m * BLOCK_SIZE /\ m <= n
  <2>1. size \in Nat
    BY LayoutAssumption
  <2>2. QED
    BY <1>1, <1>3, <2>1, BlocksOf
<1>5. PICK a \in bitmap :
          /\ r.paddr = entry.base + a * BLOCK_SIZE
          /\ \A e \in Nat : m - 1 <= e /\ e < a => (e - m + 1 .. e) \cap bitmap # {}
  BY <1>3, <1>4 DEF Placed
<1>6. a \in Nat /\ b \in Nat
  BY TotalBlocksNat DEF IInv, TypeOK, Blocks
<1>7. ~ (b < a)
  <2>1. SUFFICES ASSUME b < a PROVE FALSE
    OBVIOUS
  <2>2. m - 1 <= b
    BY <1>2, <1>4, <1>6
  <2>3. PICK x \in b - m + 1 .. b : x \in bitmap
    BY <1>5, <1>6, <2>1, <2>2
  <2>4. x \in b - n + 1 .. b
    BY <1>4, <1>6, <2>3
  <2>5. QED
    BY <1>2, <2>3, <2>4
<1>8. a < b - n + 1
  <2>1. a \notin b - n + 1 .. b
    BY <1>2, <1>5
  <2>2. QED
    BY <1>6, <1>7, <2>1
<1>9. PICK d \in Nat : b = a + m + d
  <2>1. b - a - m \in Nat /\ b = a + m + (b - a - m)
    BY <1>4, <1>6, <1>8
  <2>2. QED
    BY <2>1
<1>10. PICK B \in Nat \ {0} : B = BLOCK_SIZE
  BY Constants
<1>11. b * B = a * B + m * B + d * B
  <2>1. (a + m + d) * B = (a + m) * B + d * B /\ (a + m) * B = a * B + m * B
    BY <1>6, SumOfMultiples
  <2>2. QED
    BY <1>9, <2>1
<1>12. PICK x \in Nat, y \in Nat, z \in Nat : x = a * B /\ y = m * B /\ z = d * B
  BY <1>6
<1>13. b * B = x + y + z
  BY <1>11, <1>12
<1>14. entry.base + x + s <= entry.base + (x + y + z)
  BY <1>4, <1>10, <1>12, Constants
<1>15. last'.at * BLOCK_SIZE = x + y + z
  BY <1>2, <1>10, <1>13, Zenon
<1>16. r.paddr = entry.base + x
  BY <1>5, <1>10, <1>12
<1>17. QED
  BY <1>3, <1>14, <1>15, <1>16, Zenon

\* A step that adds no chunk, and frees no block.
LEMMA NoNewChunk ==
    ASSUME MInv, PlacedInv, bitmap \subseteq bitmap',
           \/ UNCHANGED regions
           \/ \E r \in RegionType : /\ regions' = Append(regions, r)
                                    /\ r.owner # "heap"
    PROVE  PlacedInv'
<1>1. Chunks' = Chunks /\ \A i \in Chunks : regions'[i] = regions[i]
  <2>1. CASE UNCHANGED regions
    BY <2>1 DEF Chunks
  <2>2. ASSUME NEW r \in RegionType, regions' = Append(regions, r),
               r.owner # "heap"
        PROVE  Chunks' = Chunks /\ \A i \in Chunks : regions'[i] = regions[i]
    <3>1. regions \in Seq(RegionType)
      BY DEF MInv, RegionsOk
    <3>2. PICK l \in Nat : l = Len(regions) /\ DOMAIN regions = 1 .. l
      BY <3>1, LenProperties
    <3>3. /\ DOMAIN regions' = 1 .. l + 1
          /\ \A i \in 1 .. l : regions'[i] = regions[i]
          /\ regions'[l + 1] = r
      BY <2>2, <3>1, <3>2, AppendProperties
    <3>4. regions'[l + 1].owner # "heap"
      BY <2>2, <3>3
    <3>5. \A i : i \in 1 .. l + 1 <=> i \in 1 .. l \/ i = l + 1
      BY <3>2
    <3>6. QED
      BY <3>2, <3>3, <3>4, <3>5 DEF Chunks
  <2>3. QED
    BY <2>1, <2>2
<1>2. ASSUME NEW i \in Chunks PROVE Placed(regions[i])'
  <2>1. PICK r : r = regions[i] /\ r = regions'[i]
    BY <1>1
  <2>2. Placed(r)'
    BY <1>2, <2>1, StaysPlaced DEF PlacedInv
  <2>3. QED
    BY <2>1, <2>2
<1>3. ChunksApart'
  BY <1>1 DEF PlacedInv, ChunksApart
<1>4. QED
  BY <1>1, <1>2, <1>3 DEF PlacedInv

\* The address of a page is a number, wrapped or not.
LEMMA TablePageInt ==
    ASSUME MInv, NEW page \in PageAddresses(Len(table))
    PROVE  page \in Int
<1>1. PICK k \in Nat : k = Len(table)
  BY LenProperties DEF MInv, TableOk
<1>2. PICK x \in Int : x = TABLE_OFFSET + PAGE_SIZE * k
  BY Constants
<1>3. page \in {x, x - 2 * INT_LIMIT}
  BY <1>1, <1>2 DEF PageAddresses
<1>4. QED
  BY <1>2, <1>3, Constants

\* A new chunk is placed, and above all earlier ones that are no longer.
LEMMA NewChunk ==
    ASSUME MInv, PlacedInv, NEW size \in Sizes, request_memory(size)
    PROVE  PlacedInv'
<1>1. IInv /\ allocate_size(size)
  BY DEF MInv, request_memory
<1>2. PICK n \in Nat \ {0} : n = BlocksFor(size)
  BY BlocksForPositive
<1>3. PICK b \in Blocks :
          /\ last'.at = b /\ b >= n - 1
          /\ bitmap' = bitmap \cup (b - n + 1 .. b)
          /\ \A e \in Nat : n - 1 <= e /\ e < b => (e - n + 1 .. e) \cap bitmap # {}
  BY <1>1, <1>2, FirstFit
<1>4. bitmap \subseteq bitmap'
  BY <1>3
<1>5. CASE UNCHANGED regions
  BY <1>4, <1>5, NoNewChunk
<1>6. CASE ~ UNCHANGED regions
  <2>1. PICK p \in Nat : p = entry.base + last'.at * BLOCK_SIZE
    BY <1>1, ChunkPlace
  <2>2. PICK page \in PageAddresses(Len(table)) :
            regions' = Append(regions, Region("heap", page + Offset(p), p, size))
    <3>1. map_memory("heap", p, size)
      BY <2>1, Zenon DEF request_memory
    <3>2. QED
      BY <1>6, <3>1 DEF map_memory, grant
  <2>3. PICK r : r = Region("heap", page + Offset(p), p, size)
    OBVIOUS
  <2>4. r.paddr = p /\ r.size = size /\ size \in Nat
    BY <2>3, LayoutAssumption DEF Region
  <2>5. regions \in Seq(RegionType)
    BY DEF MInv, RegionsOk
  <2>6. PICK l \in Nat : l = Len(regions) /\ DOMAIN regions = 1 .. l
    BY <2>5, LenProperties
  <2>7. r \in RegionType
    <3>1. PICK v \in Int : v = page + Offset(p)
      <4>1. page \in Int
        BY TablePageInt
      <4>2. Offset(p) \in Int
        BY <2>1, Constants DEF Offset
      <4>3. QED
        BY <4>1, <4>2
    <3>2. QED
      BY <2>3, <2>4, <3>1 DEF Region, RegionType
  <2>8. /\ DOMAIN regions' = 1 .. l + 1
        /\ \A i \in 1 .. l : regions'[i] = regions[i]
        /\ regions'[l + 1] = r
    BY <2>2, <2>3, <2>5, <2>6, <2>7, AppendProperties
  <2>9. \A i \in Chunks' : i = l + 1 \/ (i \in Chunks /\ i \in 1 .. l)
    <3>1. \A i : i \in 1 .. l + 1 <=> i \in 1 .. l \/ i = l + 1
      BY <2>6
    <3>2. QED
      BY <2>6, <2>8, <3>1 DEF Chunks
  <2>10. Placed(r)'
    <3>1. b \in Nat
      BY TotalBlocksNat DEF Blocks
    <3>2. b \in bitmap'
      <4>1. b \in b - n + 1 .. b
        BY <3>1
      <4>2. QED
        BY <1>3, <4>1
    <3>3. r.paddr = entry.base + b * BLOCK_SIZE
      BY <1>3, <2>1, <2>4
    <3>4. \A e \in Nat : n - 1 <= e /\ e < b => (e - n + 1 .. e) \cap bitmap' # {}
      BY <1>3
    <3>5. n = BlocksFor(r.size)'
      BY <1>2, <2>4 DEF BlocksFor
    <3>6. QED
      BY <2>4, <3>2, <3>3, <3>4, <3>5 DEF Placed
  <2>11. ASSUME NEW i \in Chunks' PROVE Placed(regions[i])'
    <3>1. CASE i = l + 1
      BY <2>8, <2>10, <3>1
    <3>2. CASE i \in Chunks /\ i \in 1 .. l
      <4>1. PICK q : q = regions[i] /\ q = regions'[i]
        BY <2>8, <3>2
      <4>2. Placed(q)'
        BY <1>4, <3>2, <4>1, StaysPlaced DEF PlacedInv
      <4>3. QED
        BY <4>1, <4>2
    <3>3. QED
      BY <2>9, <3>1, <3>2
  <2>12. ASSUME NEW i \in Chunks', NEW j \in Chunks', i < j,
                regions'[i].size <= regions'[j].size
         PROVE  regions'[i].paddr + regions'[i].size <= regions'[j].paddr
    <3>1. CASE j \in 1 .. l
      <4>1. i \in Chunks /\ j \in Chunks /\ i \in 1 .. l
        BY <2>6, <2>9, <2>12, <3>1
      <4>2. regions'[i] = regions[i] /\ regions'[j] = regions[j]
        BY <2>8, <3>1, <4>1
      <4>3. QED
        BY <2>12, <4>1, <4>2 DEF PlacedInv, ChunksApart
    <3>2. CASE j = l + 1
      <4>1. i \in Chunks /\ regions'[i] = regions[i] /\ regions'[j] = r
        BY <2>6, <2>8, <2>9, <2>12, <3>2
      <4>2. Placed(regions[i]) /\ regions[i].size <= size
        BY <2>4, <2>12, <4>1 DEF PlacedInv
      <4>3. regions[i].paddr + regions[i].size <= p
        BY <1>1, <2>1, <4>2, LaterIsAbove
      <4>4. QED
        BY <2>4, <4>1, <4>3
    <3>3. QED
      BY <2>9, <3>1, <3>2
  <2>13. ChunksApart'
    BY <2>12 DEF ChunksApart
  <2>14. QED
    BY <2>11, <2>13 DEF PlacedInv
<1>7. QED
  BY <1>5, <1>6

\* Chunks that were requested in the order of their lengths, as those of a heap
\* that grows by one page at a time, never share physical memory, for any memory
\* map and whatever was in use before (memory.c:58, pmm.c:136).
THEOREM ChunksStayApart == MemorySpec => []ChunksApart
<1>1. MemoryInit => PlacedInv
  BY DEF MemoryInit, PlacedInv, ChunksApart, Chunks
<1>2. MInv /\ PlacedInv /\ [MemoryNext]_memory_vars => PlacedInv'
  <2> SUFFICES ASSUME MInv, PlacedInv, [MemoryNext]_memory_vars PROVE PlacedInv'
    OBVIOUS
  <2>1. ASSUME NEW size \in Sizes, request_memory(size) PROVE PlacedInv'
    BY <2>1, NewChunk
  <2>2. ASSUME NEW size \in Sizes, request_memory_fails(size) PROVE PlacedInv'
    BY <2>2, NoNewChunk DEF request_memory_fails, allocate_size_fails
  <2>3. CASE map_framebuffer
    <3>1. PICK page \in PageAddresses(Len(table)) :
              regions' = <<Region("screen", page, framebuffer_addr, screen_size)>>
      BY <2>3 DEF map_framebuffer
    <3>2. PICK r : r = Region("screen", page, framebuffer_addr, screen_size)
      OBVIOUS
    <3>3. page \in Int
      BY TablePageInt
    <3>4. r \in RegionType /\ r.owner # "heap"
      BY <3>2, <3>3, Constants DEF Region, RegionType
    <3>5. bitmap \subseteq bitmap' /\ regions' = Append(regions, r)
      BY <2>3, <3>1, <3>2 DEF map_framebuffer, vars
    <3>6. QED
      BY <3>1, <3>2, <3>4, <3>5, NoNewChunk
  <2>4. CASE request_memory_addr
    <3>1. bitmap \subseteq bitmap'
      BY <2>4 DEF request_memory_addr, vars
    <3>2. CASE UNCHANGED regions
      BY <3>1, <3>2, NoNewChunk
    <3>3. CASE ~ UNCHANGED regions
      <4>1. map_memory("ahci", bar5, PAGE_SIZE)
        BY <2>4 DEF request_memory_addr
      <4>2. PICK page \in PageAddresses(Len(table)) :
                regions' = Append(regions, Region("ahci", page + Offset(bar5), bar5, PAGE_SIZE))
        BY <3>3, <4>1 DEF map_memory, grant
      <4>3. PICK r : r = Region("ahci", page + Offset(bar5), bar5, PAGE_SIZE)
        OBVIOUS
      <4>4. PICK v \in Int : v = page + Offset(bar5)
        <5>1. page \in Int /\ Offset(bar5) \in Int
          BY TablePageInt, OffsetOf, Constants
        <5>2. QED
          BY <5>1
      <4>5. r \in RegionType /\ r.owner # "heap"
        BY <4>3, <4>4, Constants DEF Region, RegionType
      <4>6. QED
        BY <3>1, <4>2, <4>3, <4>5, NoNewChunk
    <3>4. QED
      BY <3>2, <3>3
  <2>5. CASE UNCHANGED memory_vars
    BY <2>5, NoNewChunk DEF memory_vars, vars
  <2>6. QED
    BY <2>1, <2>2, <2>3, <2>4, <2>5 DEF MemoryNext
<1>3. PlacedInv => ChunksApart
  BY DEF PlacedInv
<1>4. QED
  BY <1>1, <1>2, <1>3, MemoryInvariance, PTL DEF MemorySpec

\* Virtual memory uses the physical memory manager by its operations only.
THEOREM MemoryImplementsPmm == MemorySpec => Spec
<1>1. MemoryInit => Init
  BY DEF MemoryInit
<1>2. [MemoryNext]_memory_vars => [Next]_vars
  BY DEF MemoryNext, request_memory, request_memory_fails, map_framebuffer,
         request_memory_addr, Next, memory_vars
<1>3. QED
  BY <1>1, <1>2, PTL DEF MemorySpec, Spec

==============================================================================
