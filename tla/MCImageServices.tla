--------------------------- MODULE MCImageServices --------------------------
(***************************************************************************)
(* Instances of the image services for TLC.                                *)
(***************************************************************************)
EXTENDS ImageServices, TLC

Writers == 1 .. MaxThread

\* A storage that writes what it is given.
GoodStorage == {<<TRUE, 0>>}

Alike == Permutations(Caller) \cup Permutations(Element) \cup Permutations(Upload)
=============================================================================
