-------------------------------- MODULE MCPmm --------------------------------
(***************************************************************************)
(* Pmm on a small machine: blocks of 4 bytes, bitmap bytes still of 8      *)
(* bits.  The second region suits; it has 14 blocks, so that its bitmap    *)
(* has 16 bits and two of them stand for no memory.  The kernel takes      *)
(* blocks 0 to 2, the bitmap marks 3 to 6, the boot information is in 10.  *)
(***************************************************************************)
EXTENDS Pmm

MCMemoryMap ==
    <<[base |->  0, end |-> 10, available |-> TRUE],
      [base |-> 15, end |-> 71, available |-> TRUE],
      [base |-> 80, end |-> 99, available |-> FALSE]>>

\* No marking loop ends before the block of its region's last byte.
ASSUME MCStridesMeetAll == StridesMeetAll

==============================================================================
