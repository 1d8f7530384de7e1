------------------------------ MODULE BlockPool ------------------------------
(***************************************************************************)
(* What a physical block allocator promises, whatever its search strategy: *)
(* a request for n blocks is granted n consecutive free blocks, and it is  *)
(* refused only when no n consecutive free blocks exist.  Pmm implements   *)
(* it with a bitmap, a hint and a first-fit scan.                          *)
(***************************************************************************)
EXTENDS Integers

CONSTANTS
    N,          \* the number of blocks
    Used        \* the blocks in use from the start

VARIABLES
    taken,      \* the blocks in use
    last        \* the last request: the blocks asked for and a block of the
                \* run granted, or -1

poolVars == <<taken, last>>

Run(first, n) == first .. first + n - 1

PoolInit ==
    /\ taken = Used
    /\ last = [n |-> 0, at |-> -1]

Grant ==
    \E n \in 1 .. N : \E first \in 0 .. N - n :
        /\ Run(first, n) \cap taken = {}
        /\ taken' = taken \cup Run(first, n)
        /\ \E b \in Run(first, n) : last' = [n |-> n, at |-> b]

Refuse ==
    /\ last'.n \in Nat \ {0}
    /\ last' = [n |-> last'.n, at |-> -1]
    /\ \A first \in 0 .. N - last'.n : Run(first, last'.n) \cap taken # {}
    /\ taken' = taken

Release ==
    /\ taken' \subseteq taken
    /\ Used \subseteq taken'
    /\ last' = [n |-> 0, at |-> -1]

PoolNext == Grant \/ Refuse \/ Release

PoolSpec == PoolInit /\ [][PoolNext]_poolVars

==============================================================================
