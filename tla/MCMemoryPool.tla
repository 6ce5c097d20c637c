---------------------------- MODULE MCMemoryPool ----------------------------
(***************************************************************************)
(* Instances of the memory pool for TLC.  Chunks of two units with element *)
(* sizes one and two: a chunk is either two small elements or a single     *)
(* large one, the two shapes the real table has (capacity 1 is its 16 MB   *)
(* level), and a small and a large element of one chunk overlap.           *)
(***************************************************************************)
EXTENDS MemoryPool, TLC

Sizes == [l \in Level |-> l]
ClientSymmetry == Permutations(Client)
=============================================================================
