---------------------------- MODULE MCStoragePool ---------------------------
(***************************************************************************)
(* Instances of the storage pool for TLC.                                  *)
(***************************************************************************)
EXTENDS StoragePool, TLC

Writers == 1 .. MaxThread

\* An upload that failed is reported, as GridFSStorage does when its write was
\* short, or is not, as LocalStorage does.
AnyResults == {<<TRUE, 0>>, <<FALSE, 0>>, <<FALSE, -1>>}

\* A disk that never fails.
GoodDisk == {<<TRUE, 0>>}

\* Callers (that all free refused elements), elements and uploads are alike.
Alike == Permutations(Caller) \cup Permutations(Element) \cup Permutations(Upload)
=============================================================================
