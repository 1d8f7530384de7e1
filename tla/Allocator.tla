------------------------------ MODULE Allocator ------------------------------
(***************************************************************************)
(* What an allocator of memory promises its callers, however it keeps its  *)
(* books: a request is answered once, with as many bytes as were asked for *)
(* and none that another caller holds, or with nothing; and what a caller  *)
(* holds stays as it is until that caller gives it back.  Heap implements  *)
(* it with a list of blocks.                                               *)
(***************************************************************************)
EXTENDS Integers

CONSTANT Amounts    \* the numbers of bytes that may be asked for

VARIABLES
    owned,          \* what is held: pointer -> number of bytes
    wanted          \* the request that waits for its answer, or 0

allocVars == <<owned, wanted>>

Apart(p, n, q, m) == p + n <= q \/ q + m <= p

AllocInit ==
    /\ owned = [p \in {} |-> 0]
    /\ wanted = 0

Ask ==
    /\ wanted = 0
    /\ wanted' \in Amounts
    /\ owned' = owned

Give ==
    /\ wanted # 0 /\ wanted' = 0
    /\ \E p \in DOMAIN owned' \ DOMAIN owned :
          /\ \A q \in DOMAIN owned : Apart(p, wanted, q, owned[q])
          /\ owned' = [q \in DOMAIN owned \cup {p} |->
                          IF q = p THEN wanted ELSE owned[q]]

Refuse ==
    /\ wanted # 0 /\ wanted' = 0
    /\ owned' = owned

GiveBack ==
    /\ wanted = 0 /\ wanted' = 0
    /\ \E p \in DOMAIN owned : owned' = [q \in DOMAIN owned \ {p} |-> owned[q]]

AllocNext == Ask \/ Give \/ Refuse \/ GiveBack

AllocSpec == AllocInit /\ [][AllocNext]_allocVars

------------------------------------------------------------------------------
\* No byte has two owners.
NoOverlap ==
    \A p, q \in DOMAIN owned : p # q => Apart(p, owned[p], q, owned[q])

==============================================================================
