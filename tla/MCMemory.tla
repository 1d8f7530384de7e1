------------------------------ MODULE MCMemory -------------------------------
(***************************************************************************)
(* Memory on a small machine: blocks of 4 bytes, pages of 8, a table of 14 *)
(* entries of which the first 10 have addresses that fit an int.  Memory   *)
(* has 56 blocks; the devices lie above it.                                *)
(***************************************************************************)
EXTENDS Memory

MCMemoryMap == <<[base |-> 16, end |-> 240, available |-> TRUE]>>

==============================================================================
