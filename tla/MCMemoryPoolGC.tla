--------------------------- MODULE MCMemoryPoolGC ---------------------------
(***************************************************************************)
(* Instances of the memory pool with its collector for TLC.                *)
(***************************************************************************)
EXTENDS MemoryPoolGC, TLC

Sizes == [l \in Level |-> l]
ClientSymmetry == Permutations(Client)
=============================================================================
