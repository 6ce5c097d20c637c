---------------------------- MODULE MCFileService ---------------------------
(***************************************************************************)
(* Instances of the file service for TLC.                                  *)
(***************************************************************************)
EXTENDS FileService, TLC

Writers == 1 .. MaxThread

\* LocalStorage does not look whether it could open and write the file.
LocalResults == {<<TRUE, 0>>, <<FALSE, 0>>}

\* A disk that never fails.
GoodDisk == {<<TRUE, 0>>}

\* Connections, elements and uploads are alike.
Alike == Permutations(Caller) \cup Permutations(Element) \cup Permutations(Upload)
           \cup Permutations(File)
=============================================================================
