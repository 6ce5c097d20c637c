---------------------------- MODULE GridFSStorage ---------------------------
(***************************************************************************)
(* webservice/src/gridfsStorage.cpp as one thread sees it.  The buffer of  *)
(* GridFSImage is static and thread-local: all images a thread has read    *)
(* and not freed lead to the same memory, and each only knows its length.  *)
(***************************************************************************)
EXTENDS RemoteFiles

VARIABLES
  memory,     \* _BUFFER, a sequence of blocks or NULL
  memoryLen,  \* _BUFFER_LEN
  gridLens    \* _len of each image that was read, in order

gridVars == <<memory, memoryLen, gridLens>>

GridTypeOK ==
  /\ memoryLen \in Nat
  /\ gridLens \in Seq(Nat)
  /\ memory # NoMemory => Len(memory) = memoryLen

GridInit ==
  /\ memory = NoMemory
  /\ memoryLen = InitialLen
  /\ gridLens = <<>>

\* reInit: a file that is larger than the buffer makes it grow by the
\* length of the file, and the old memory is given up.
GrownLen(n) == IF n > memoryLen THEN memoryLen + n ELSE memoryLen

KeptMemory(n) == IF memory = NoMemory THEN Fresh(memoryLen) ELSE memory  \* (mistake: does not grow)
Reserved(n) == IF n > memoryLen \/ memory = NoMemory THEN Fresh(GrownLen(n)) ELSE memory

\* The stream gives the first `got` blocks of version v; it may end, or fail,
\* before the file does, and nobody is told.
ReadInto(cells, v, got) ==
  [i \in DOMAIN cells |-> IF i <= got THEN <<v[1], i>> ELSE cells[i]]

\* getImage of a file that exists.
GridGet(v, got) ==
  /\ memory' = ReadInto(Reserved(v[2]), v, got)
  /\ memoryLen' = GrownLen(v[2])
  /\ gridLens' = Append(gridLens, v[2])
  /\ UNCHANGED remote

\* getImage when malloc gives nothing: an image of length 0.
GridGetNoMemory(v) ==
  /\ v[2] > memoryLen \/ memory = NoMemory
  /\ memory' = NoMemory
  /\ memoryLen' = GrownLen(v[2])
  /\ gridLens' = Append(gridLens, 0)
  /\ UNCHANGED remote

\* freeImage of every image of the thread: the destructor frees the memory
\* that they share.
GridFree ==
  /\ gridLens' = <<>>
  /\ IF gridLens = <<>>
     THEN UNCHANGED <<memory, memoryLen>>
     ELSE memory' = NoMemory /\ memoryLen' = 0
  /\ UNCHANGED remote

\* saveImage2Mongo: a new file under the same name, of which n blocks were
\* written, is saved whatever the write said.  mongoc_gridfs_file_save may fail
\* and store nothing; its result is not looked at.
GridSave(k, u, n) ==
  /\ \/ remote' = [remote EXCEPT ![k] = @ \cup {<<u, n>>}]
     \/ UNCHANGED remote
  /\ UNCHANGED gridVars

\* What mongoc_gridfs_file_writev says when n blocks were written: the whole
\* length, or that there was an error.
WrittenCount(u, n) == IF n = Blocks[u] THEN {n, -1} ELSE {-1}

\* What saveImage2Mongo returns.
GridResult(count) == IF count <= 0 THEN -1 ELSE 0
=============================================================================
