----------------------------- MODULE RemoteFiles ----------------------------
(***************************************************************************)
(* What a storage service outside the program keeps: under each name the   *)
(* versions of a file that it may give back.  S3 keeps the last one that   *)
(* was put; GridFS adds a file under the same name to the others.          *)
(***************************************************************************)
EXTENDS Integers, Sequences

CONSTANTS
  Key,       \* the names of files
  Upload,    \* the contents that can be saved
  Blocks,    \* the number of blocks of each upload
  InitialLen,  \* the first length of a read buffer, in blocks (1 MiB)
  NoMemory,  \* NULL
  Junk       \* what malloc gives

ASSUME FilesAssumption ==
  /\ Blocks \in [Upload -> Nat]
  /\ InitialLen \in Nat \ {0}

VARIABLE remote

\* A version is an upload of which the service has got the first n blocks.
Version == UNION {{<<u, n>> : n \in 0 .. Blocks[u]} : u \in Upload}

Whole(u) == <<u, Blocks[u]>>
Content(v) == [i \in 1 .. v[2] |-> <<v[1], i>>]

\* The bytes that data() and its length lead to.
Bytes(memory, n) == SubSeq(memory, 1, n)

\* malloc(n)
Fresh(n) == [i \in 1 .. n |-> Junk]

RemoteTypeOK == remote \in [Key -> SUBSET Version]
=============================================================================
