----------------------------- MODULE MemoryPool -----------------------------
(***************************************************************************)
(* The fixed-size element pool of webservice/src/memoryPool.cpp, as the    *)
(* service builds it (main.cpp creates the pool without its collector):    *)
(* a ChunkBank hands out 16 MB chunks under its own mutex, and one         *)
(* BlockStore per element size cuts its chunks into nodes that it chains   *)
(* on a free queue through the first word of each free node.  Several      *)
(* threads call alloc, getElementAddress and freeNode concurrently.        *)
(*                                                                         *)
(* Every critical section is one step, except addNewChunk, whose loop      *)
(* keeps the store's mutex while other threads go on with other stores     *)
(* and with the bank.  Garbage collection is added by MemoryPoolGC.        *)
(***************************************************************************)
EXTENDS Integers, FiniteSets

CONSTANTS
  Client,         \* the threads that use the pool
  Level,          \* the block codes: one BlockStore per level
  ChunkSize,      \* MAXCHUNKSIZE, in units of the smallest element
  NodeSize,       \* ELEMENT_SIZE_ARRAY, in the same unit
  MaxChunk,       \* MAXCHUNKNUM
  Limitation,     \* the constructor's memory limit, in chunks
  CounterRange,   \* the usage counters live in 0 .. CounterRange - 1
  MallocMayFail,  \* may malloc(MAXCHUNKSIZE) return NULL?
  Collector,      \* the thread of the garbage collector (MemoryPoolGC)
  MP_NULL, Junk, Nobody

ASSUME SizeAssumption ==
  /\ Level # {}
  /\ ChunkSize \in Nat \ {0}
  /\ NodeSize \in [Level -> 1 .. ChunkSize]
  /\ MaxChunk \in Nat \ {0}
  /\ Limitation \in Nat

ASSUME CounterAssumption ==
  \* a chunk has fewer elements than the 32-bit usage counter can count
  CounterRange \in Nat /\ CounterRange > ChunkSize

ASSUME ValueAssumption ==
  /\ MallocMayFail \in BOOLEAN
  /\ Collector \notin Client
  /\ Nobody \notin Client \cup {Collector}
  /\ MP_NULL \notin Client \cup {Junk}

Chunk == 0 .. MaxChunk - 1
DefaultLevel == CHOOSE l \in Level : TRUE  \* of a thread outside alloc
Capacity(l) == ChunkSize \div NodeSize[l]

\* The constructor of ChunkBank clamps the limit to the size of its table.
Limit == IF Limitation >= MaxChunk THEN MaxChunk ELSE Limitation

(***************************************************************************)
(* An MP_ID packs the block code, the chunk index and the offset of a      *)
(* node; slot counts the offset in nodes.  A cell is one unit of a chunk's *)
(* memory: nodes of different levels that share cells share memory.        *)
(***************************************************************************)
Id == {i \in [level : Level, chunk : Chunk, slot : 0 .. ChunkSize - 1] :
         i.slot < Capacity(i.level)}

ASSUME NullAssumption == MP_NULL \notin Id /\ Junk \notin Id /\ Client \cap Id = {}

Cell == Chunk \X (0 .. ChunkSize - 1)

Cells(id) == {id.chunk} \X
  (id.slot * NodeSize[id.level] .. id.slot * NodeSize[id.level] + NodeSize[id.level] - 1)

\* The cell that holds the node's _next: the user's data starts there too.
NodeCell(id) == <<id.chunk, id.slot * NodeSize[id.level]>>

-----------------------------------------------------------------------------
VARIABLES
  live,      \* the chunk indices whose _memoryAddress is not NULL
  using,     \* _usingCounter of the bank
  head,      \* _free._head of each store
  tail,      \* _free._tail of each store
  elements,  \* _currentElementCounter of each store
  usage,     \* the counter half of _usageStatistic of each store and chunk
  recent,    \* the chunks whose timestamp is not idleForLongtime
  mem,       \* the memory of the chunks: a link, a thread's data or junk
  mutex,     \* who holds the mutex of each store inside addNewChunk
  pc,        \* where each thread is in BlockStore::alloc
  level,     \* the store a thread allocates from
  chunk,     \* the chunk index a thread got from createChunk
  slot,      \* the loop variable of addNewChunk
  held,      \* the elements alloc returned to a thread and it did not free
  free       \* history: the elements added to each store and not taken

bankVars   == <<live, using>>
queueVars  == <<head, tail, elements, usage, recent, mem, free>>
threadVars == <<pc, level, chunk, slot>>
vars == <<bankVars, queueVars, threadVars, mutex, held>>

Value == Id \cup Client \cup {MP_NULL, Junk}

TypeOK ==
  /\ live \subseteq Chunk
  /\ using \in Nat
  /\ head \in [Level -> Id \cup {MP_NULL}]
  /\ tail \in [Level -> Id \cup {MP_NULL}]
  /\ elements \in [Level -> Int]
  /\ usage \in [Level -> [Chunk -> 0 .. CounterRange - 1]]
  /\ recent \in [Level -> SUBSET Chunk]
  /\ mem \in [Cell -> Value]
  /\ mutex \in [Level -> Client \cup {Collector, Nobody}]
  /\ pc \in [Client -> {"idle", "create", "add", "adding", "retry"}]
  /\ level \in [Client -> Level]
  /\ chunk \in [Client -> Chunk]
  /\ slot \in [Client -> 0 .. ChunkSize - 1]
  /\ held \in [Client -> SUBSET Id]
  /\ free \in [Level -> SUBSET Id]

Init ==
  /\ live = {}
  /\ using = 0
  /\ head = [l \in Level |-> MP_NULL]
  /\ tail = [l \in Level |-> MP_NULL]
  /\ elements = [l \in Level |-> 0]
  /\ usage = [l \in Level |-> [c \in Chunk |-> 0]]
  /\ recent = [l \in Level |-> {}]
  /\ mem = [x \in Cell |-> Junk]
  /\ mutex = [l \in Level |-> Nobody]
  /\ pc = [t \in Client |-> "idle"]
  /\ level = [t \in Client |-> DefaultLevel]
  /\ chunk = [t \in Client |-> 0]
  /\ slot = [t \in Client |-> 0]
  /\ held = [t \in Client |-> {}]
  /\ free = [l \in Level |-> {}]

-----------------------------------------------------------------------------
(* The free queue of a store.                                              *)

\* getNodeFromID(id) is not NULL: the bank has memory for its chunk.
HasNode(id) == id # MP_NULL /\ id.chunk \in live

\* decCounter and incCounter on the 32 high bits of the statistic.
DecForgotten(n) == n  \* (mistake)
Dec(n) == IF n = 0 THEN CounterRange - 1 ELSE n - 1
Inc(n) == IF n = CounterRange - 1 THEN 0 ELSE n + 1

\* addElement asks the head whether the queue is empty.
TailIsNull(l) == tail[l] = MP_NULL  \* (mistake: the tail outlives the queue)
QueueEmpty(l) == head[l] = MP_NULL

\* The end of both successful branches of addElement.
TailKept(id) ==  \* (mistake: the new element does not become the tail)
  /\ tail' = IF QueueEmpty(id.level) THEN [tail EXCEPT ![id.level] = id] ELSE tail
  /\ elements' = [elements EXCEPT ![id.level] = @ + 1]
  /\ usage' = [usage EXCEPT ![id.level][id.chunk] = Inc(@)]
  /\ recent' = [recent EXCEPT ![id.level] = @ \cup {id.chunk}]
  /\ free' = [free EXCEPT ![id.level] = @ \cup {id}]
CountElement(id) ==
  /\ tail' = [tail EXCEPT ![id.level] = id]
  /\ elements' = [elements EXCEPT ![id.level] = @ + 1]
  /\ usage' = [usage EXCEPT ![id.level][id.chunk] = Inc(@)]
  /\ recent' = [recent EXCEPT ![id.level] = @ \cup {id.chunk}]
  /\ free' = [free EXCEPT ![id.level] = @ \cup {id}]

\* BlockStore::addElement(id), with the store's mutex held.
AddElement(id) ==
  \/ /\ ~ HasNode(id)
     /\ UNCHANGED queueVars
  \/ /\ HasNode(id)
     /\ QueueEmpty(id.level)
     /\ mem' = [mem EXCEPT ![NodeCell(id)] = MP_NULL]
     /\ head' = [head EXCEPT ![id.level] = id]
     /\ CountElement(id)
  \/ /\ HasNode(id)
     /\ ~ QueueEmpty(id.level)
     /\ HasNode(tail[id.level])
     /\ mem' = [mem EXCEPT ![NodeCell(id)] = MP_NULL,
                           ![NodeCell(tail[id.level])] = id]
     /\ UNCHANGED head
     /\ CountElement(id)
  \/ /\ HasNode(id)
     /\ ~ QueueEmpty(id.level)
     /\ ~ HasNode(tail[id.level])
     /\ mem' = [mem EXCEPT ![NodeCell(id)] = MP_NULL]
     /\ UNCHANGED <<head, tail, elements, usage, recent, free>>

\* What becomes the head when an element is taken.
SameHead(l) == head[l]  \* (mistake: the head does not move)
NextHead(l) == mem[NodeCell(head[l])]

\* Thread t takes the head of the free queue of l: the branch of
\* allocFromFreeQueue that finds an element.  If the head's chunk has no
\* memory the id is returned and the queue stays as it is.
TakeHead(t, l) ==
  /\ head[l] # MP_NULL
  /\ held' = [held EXCEPT ![t] = @ \cup {head[l]}]
  /\ \/ /\ HasNode(head[l])
        /\ head' = [head EXCEPT ![l] = NextHead(l)]
        /\ elements' = [elements EXCEPT ![l] = @ - 1]
        /\ usage' = [usage EXCEPT ![l][head[l].chunk] = Dec(@)]
        /\ free' = [free EXCEPT ![l] = @ \ {head[l]}]
        /\ UNCHANGED <<tail, recent, mem>>
     \/ /\ ~ HasNode(head[l])
        /\ UNCHANGED queueVars

-----------------------------------------------------------------------------
(* BlockStore::alloc: free queue, new chunk, free queue again.             *)

GoTo(t, place) == pc' = [pc EXCEPT ![t] = place]

\* alloc returns: the thread-local variables go out of scope.
Return(t) ==
  /\ GoTo(t, "idle")
  /\ chunk' = [chunk EXCEPT ![t] = 0]
  /\ slot' = [slot EXCEPT ![t] = 0]
  /\ level' = [level EXCEPT ![t] = DefaultLevel]

\* The first allocFromFreeQueue of alloc.
AllocFirst(t, l) ==
  /\ pc[t] = "idle"
  /\ mutex[l] = Nobody
  /\ \/ /\ TakeHead(t, l)
        /\ UNCHANGED threadVars
     \/ /\ head[l] = MP_NULL
        /\ GoTo(t, "create")
        /\ level' = [level EXCEPT ![t] = l]
        /\ UNCHANGED <<queueVars, chunk, slot, held>>
  /\ UNCHANGED <<bankVars, mutex>>

BudgetLeft == using < Limit

\* The lowest index without memory, if there is one.
FirstIndex == {0}  \* (mistake: the memory is not looked at)
FreeIndex == {c \in Chunk \ live : \A d \in Chunk \ live : c <= d}

\* ChunkBank::createChunk takes the lowest index without memory; the index
\* is returned, and counted, even when malloc returns NULL.
CreateChunk(t) ==
  /\ pc[t] = "create"
  /\ BudgetLeft
  /\ \E c \in FreeIndex :
       /\ chunk' = [chunk EXCEPT ![t] = c]
       /\ \/ live' = live \cup {c}
          \/ MallocMayFail /\ UNCHANGED live
  /\ using' = using + 1
  /\ GoTo(t, "add")
  /\ UNCHANGED <<queueVars, level, slot, mutex, held>>

\* createChunk returns INVALID_CHUNK_INDEX and alloc returns MP_NULL.
AskAgain(t) ==  \* (mistake: alloc waits for a chunk instead of giving up)
  /\ pc[t] = "create"
  /\ ~ BudgetLeft \/ FreeIndex = {}
  /\ UNCHANGED vars

CreateChunkRefused(t) ==
  /\ pc[t] = "create"
  /\ ~ BudgetLeft \/ FreeIndex = {}
  /\ Return(t)
  /\ UNCHANGED <<bankVars, queueVars, mutex, held>>

\* addNewChunk locks the store ...
AddNewChunkLock(t) ==
  /\ pc[t] = "add"
  /\ mutex[level[t]] = Nobody
  /\ mutex' = [mutex EXCEPT ![level[t]] = t]
  /\ GoTo(t, "adding")
  /\ UNCHANGED <<bankVars, queueVars, level, chunk, slot, held>>

\* The loop condition of addNewChunk, for the node after the current one.
StopsEarly(t) == slot[t] + 2 < Capacity(level[t])  \* (mistake: off by one)
RunsOver(t) == slot[t] < Capacity(level[t])        \* (mistake: off by one)
MoreNodes(t) == slot[t] + 1 < Capacity(level[t])

\* ... adds the nodes of the chunk one by one and unlocks after the last.
AddNewChunkStep(t) ==
  /\ pc[t] = "adding"
  /\ AddElement([level |-> level[t], chunk |-> chunk[t], slot |-> slot[t]])
  /\ \/ /\ MoreNodes(t)
        /\ slot' = [slot EXCEPT ![t] = @ + 1]
        /\ UNCHANGED <<pc, mutex>>
     \/ /\ ~ MoreNodes(t)
        /\ mutex' = [mutex EXCEPT ![level[t]] = Nobody]
        /\ GoTo(t, "retry")
        /\ UNCHANGED slot
  /\ UNCHANGED <<bankVars, level, chunk, held>>

\* The second allocFromFreeQueue: other threads may have emptied the queue
\* again, and then alloc returns MP_NULL.
AllocRetry(t) ==
  /\ pc[t] = "retry"
  /\ mutex[level[t]] = Nobody
  /\ \/ TakeHead(t, level[t])
     \/ head[level[t]] = MP_NULL /\ UNCHANGED <<queueVars, held>>
  /\ Return(t)
  /\ UNCHANGED <<bankVars, mutex>>

-----------------------------------------------------------------------------
(* The other operations of a thread that holds an element.                 *)

\* MemoryPool::freeNode.  Whether addElement succeeds or not, the caller
\* has given the element up.
FreeNode(t, id) ==
  /\ pc[t] = "idle"
  /\ id \in held[t]
  /\ mutex[id.level] = Nobody
  /\ AddElement(id)
  /\ held' = [held EXCEPT ![t] = @ \ {id}]
  /\ UNCHANGED <<bankVars, threadVars, mutex>>

\* getElementAddress, then the caller fills the element: the address is the
\* node's own, so the data overwrites _next.  Without memory it is NULL.
WriteElement(t, id) ==
  /\ pc[t] = "idle"
  /\ id \in held[t]
  /\ HasNode(id)
  /\ mem' = [x \in Cell |-> IF x \in Cells(id) THEN t ELSE mem[x]]
  /\ UNCHANGED <<bankVars, head, tail, elements, usage, recent, free,
                 threadVars, mutex, held>>

\* The steps of a call of alloc that is under way.
AllocStep(t) ==
  \/ CreateChunk(t)
  \/ CreateChunkRefused(t)
  \/ AddNewChunkLock(t)
  \/ AddNewChunkStep(t)
  \/ AllocRetry(t)

Next ==
  \E t \in Client :
    \/ \E l \in Level : AllocFirst(t, l)
    \/ AllocStep(t)
    \/ \E id \in held[t] : FreeNode(t, id) \/ WriteElement(t, id)

Spec == Init /\ [][Next]_vars

\* Threads inside alloc keep being scheduled.
FairSpec == Spec /\ \A t \in Client : WF_vars(AllocStep(t))
-----------------------------------------------------------------------------
(* Properties.                                                             *)

Taken == UNION {held[t] : t \in Client}
Queued == UNION {free[l] : l \in Level}

\* The nodes a thread in addNewChunk has still to add.
Pending(t) ==
  IF pc[t] \in {"add", "adding"}
  THEN {i \in Id : i.level = level[t] /\ i.chunk = chunk[t] /\ i.slot >= slot[t]}
  ELSE {}

\* No memory has two owners: two different elements that are in use, both
\* held, both queued, or one of each, share no cell, and no element is held
\* twice or held while queued (BlockStore::alloc and freeNode under
\* concurrent callers, and createChunk's choice of an index).
ExclusiveOwnership ==
  /\ \A i, j \in Taken \cup Queued : i # j => Cells(i) \cap Cells(j) = {}
  /\ Taken \cap Queued = {}
  /\ \A t, u \in Client : t # u => held[t] \cap held[u] = {}

\* The elements met when the free queue of l is followed from its head for
\* at most n links.
Reached(n, l) ==
  LET R[k \in Nat] ==
        IF k = 0 THEN {head[l]} \ {MP_NULL}
        ELSE R[k - 1] \cup ({mem[NodeCell(i)] : i \in R[k - 1]} \ {MP_NULL})
  IN  R[n]

\* No element is lost behind the queue: the elements put back and not taken
\* are exactly those the links reach, and the last one is the tail (what
\* addElement's separate writes to _next, _head and _tail must keep up).
FreeQueueComplete ==
  \A l \in Level :
    /\ Reached(Cardinality(free[l]), l) = free[l]
    /\ free[l] # {} => tail[l] \in free[l] /\ mem[NodeCell(tail[l])] = MP_NULL

\* Every node of a chunk of the pool is queued, held or about to be added
\* by the thread that created the chunk: none leaks.
NoElementLeaks ==
  \A c \in live : \E l \in Level : \A k \in 0 .. Capacity(l) - 1 :
    [level |-> l, chunk |-> c, slot |-> k]
      \in Taken \cup Queued \cup UNION {Pending(t) : t \in Client}

\* The statistics the collector and stat() rely on: a store counts its
\* queued elements, in total and per chunk, and the bank the chunks that have
\* memory, which are never more than the limit given to the constructor.
CountersExact ==
  /\ \A l \in Level :
       /\ elements[l] = Cardinality(free[l])
       /\ \A c \in Chunk : usage[l][c] = Cardinality({i \in free[l] : i.chunk = c})
  /\ using = Cardinality(live) /\ using <= Limitation

\* The memory of an element that stays held is written by its holder only:
\* no step of the pool or of another thread touches it.
HeldMemoryStable ==
  [][\A t \in Client : \A i \in held[t] \cap held'[t] : \A x \in Cells(i) :
       mem'[x] \in {mem[x], t}]_vars

\* A call of alloc returns, with an element or with MP_NULL.
AllocReturns == \A t \in Client : pc[t] # "idle" ~> pc[t] = "idle"

\* The pool as its callers see it: the queued elements of all the stores
\* form one pool, and chunks, queues, links and mutexes disappear.
Abstract == INSTANCE ElementPool WITH
  Element <- Id, Region <- Cells, pooled <- Queued, owned <- held

\* Every step of the pool is a step of the abstract pool or changes nothing
\* a caller can see.
ImplementsElementPool == Abstract!AbstractSpec

=============================================================================
