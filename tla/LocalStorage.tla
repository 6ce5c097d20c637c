---------------------------- MODULE LocalStorage ----------------------------
(***************************************************************************)
(* The files of webservice/src/localStorage.cpp.  Every writer thread has  *)
(* a LocalStorage of its own, but all clones name the same directory, so   *)
(* the files are shared.  DiskFile::flush opens (and so truncates) the     *)
(* file and then writes it from its start: two steps, with no lock around  *)
(* them.  A file is the sequence of its blocks, and a block is the upload  *)
(* it came from.                                                           *)
(***************************************************************************)
EXTENDS Integers, Sequences

CONSTANTS
  File,      \* the paths that getLocalPath can give
  Upload,    \* the contents that can be saved
  Writer,    \* those who save
  Absent,    \* no such file
  NoFile,    \* a stream that is not open
  Unlinked   \* the file of a stream, once it was removed

ASSUME FileAssumption ==
  /\ {NoFile, Unlinked} \cap File = {}
  /\ Absent \notin Seq(Upload)

VARIABLES
  disk,      \* the content of every file
  stream     \* the file an open ofstream of a writer writes to

storageVars == <<disk, stream>>

StorageInit ==
  /\ disk = [f \in File |-> Absent]
  /\ stream = [w \in Writer |-> NoFile]

Exists(f) == disk[f] # Absent

\* The ofstream of flush is constructed, which truncates the file.
OpenForWrite(w, f) ==
  /\ disk' = [disk EXCEPT ![f] = <<>>]
  /\ stream' = [stream EXCEPT ![w] = f]

\* Blocks 1 .. n of the content old become blocks of upload u.
Overlay(old, u, n) ==
  [i \in 1 .. (IF Len(old) > n THEN Len(old) ELSE n) |-> IF i <= n THEN u ELSE old[i]]

\* write and close: n blocks reach the file.
WriteAndClose(w, u, n) ==
  /\ stream' = [stream EXCEPT ![w] = NoFile]
  /\ disk' = [f \in File |-> IF stream[w] = f THEN Overlay(disk[f], u, n) ELSE disk[f]]

\* deleteImage: removing a file that does not exist is a success too, and a
\* stream that is open goes on writing to a file without a name.
RemoveFile(f) ==
  /\ disk' = [disk EXCEPT ![f] = Absent]
  /\ stream' = [w \in Writer |-> IF stream[w] = f THEN Unlinked ELSE stream[w]]

=============================================================================
