---------------------------- MODULE MemoryPoolGC ----------------------------
(***************************************************************************)
(* The memory pool with its garbage collector: MemoryPool::garbageCollect, *)
(* called by the GCThread of a pool built with autoGC or by the owner of   *)
(* the pool.  For each store in turn the collector picks one chunk whose   *)
(* elements are all queued and idle, unlinks them while it holds the       *)
(* store's mutex, and then, without that mutex, has the bank free the      *)
(* chunk.                                                                  *)
(***************************************************************************)
EXTENDS MemoryPool

CONSTANT MaxRounds  \* bound: the calls of garbageCollect in a behaviour

ASSUME RoundsAssumption == MaxRounds \in Nat

ASSUME LevelOrder == Level \subseteq Nat  \* the stores are visited in order

VARIABLES
  rounds,  \* the calls of garbageCollect so far
  gcpc,    \* where the collector is
  todo,    \* the stores garbageCollect has still to visit
  target,  \* the chunk index calcRecyclableChunk found
  cur,     \* curID
  prev     \* prevID

gcVars  == <<rounds, gcpc, todo, target, cur, prev>>
allVars == <<vars, gcVars>>

GCTypeOK ==
  /\ rounds \in 0 .. MaxRounds
  /\ gcpc \in {"sleep", "scan", "skip", "follow", "unlink", "destroy"}
  /\ todo \subseteq Level
  /\ target \in Chunk
  /\ {cur, prev} \subseteq Value
  /\ using \in Nat

InitGC ==
  /\ Init
  /\ rounds = 0
  /\ gcpc = "sleep"
  /\ todo = {}
  /\ target = 0
  /\ cur = MP_NULL
  /\ prev = MP_NULL

Least(S) == CHOOSE n \in S : \A m \in S : n <= m

\* The store under collection.
Visited == Least(todo)

\* The loop of garbageCollect goes on with the next store, or returns.
NextStore ==
  /\ todo' = todo \ {Visited}
  /\ gcpc' = IF todo' = {} THEN "sleep" ELSE "scan"

\* GCThread::_main calls garbageCollect every 120 seconds.
StartCollection ==
  /\ gcpc = "sleep"
  /\ rounds < MaxRounds
  /\ rounds' = rounds + 1
  /\ todo' = Level
  /\ gcpc' = "scan"
  /\ UNCHANGED <<vars, target, cur, prev>>

\* A chunk whose elements are all counted as queued and were not touched
\* for idleTime seconds.
AlmostFree(l) ==  \* (mistake: one element may still be out)
  {c \in Chunk : usage[l][c] >= Capacity(l) - 1 /\ c \notin recent[l]}

Recyclable(l) ==
  {c \in Chunk : usage[l][c] >= Capacity(l) /\ c \notin recent[l]}

\* calcRecyclableChunk finds nothing in this store.
DestroyAnyway ==  \* (mistake: the index is not checked)
  /\ gcpc = "scan"
  /\ mutex[Visited] = Nobody
  /\ Recyclable(Visited) = {}
  /\ gcpc' = "destroy"
  /\ UNCHANGED <<vars, rounds, todo, target, cur, prev>>

PickNone ==
  /\ gcpc = "scan"
  /\ mutex[Visited] = Nobody
  /\ Recyclable(Visited) = {}
  /\ NextStore
  /\ UNCHANGED <<vars, rounds, target, cur, prev>>

\* calcRecyclableChunk takes the first recyclable chunk, clears its
\* statistic and starts at the head; _currentElementCounter stays.
PickChunk ==
  /\ gcpc = "scan"
  /\ mutex[Visited] = Nobody
  /\ Recyclable(Visited) # {}
  /\ target' = Least(Recyclable(Visited))
  /\ mutex' = [mutex EXCEPT ![Visited] = Collector]
  /\ usage' = [usage EXCEPT ![Visited][target'] = 0]
  /\ recent' = [recent EXCEPT ![Visited] = @ \ {target'}]
  /\ free' = [free EXCEPT ![Visited] = {i \in @ : i.chunk # target'}]
  /\ cur' = head[Visited]
  /\ gcpc' = "skip"
  /\ UNCHANGED <<bankVars, head, tail, elements, mem, threadVars, held, rounds, todo, prev>>

\* The current id is a node of the chunk to recycle that can be followed.
InTarget == HasNode(cur) /\ cur.chunk = target

OldHead == head[Visited]  \* (mistake: _head is not updated)
NewHead == cur

\* The first loop passes the leading nodes of the chunk; the first other
\* node becomes the head.  The tail is left as it is.
SkipHead ==
  /\ gcpc = "skip"
  /\ \/ /\ InTarget
        /\ cur' = mem[NodeCell(cur)]
        /\ UNCHANGED <<head, prev, gcpc>>
     \/ /\ ~ InTarget
        /\ head' = [head EXCEPT ![Visited] = NewHead]
        /\ prev' = cur
        /\ gcpc' = "follow"
        /\ UNCHANGED cur
  /\ UNCHANGED <<bankVars, tail, elements, usage, recent, mem, free, threadVars,
                 mutex, held, rounds, todo, target>>

\* The outer loop: read the link of the last kept node.
FollowLink ==
  /\ gcpc = "follow"
  /\ HasNode(prev)
  /\ cur' = mem[NodeCell(prev)]
  /\ gcpc' = "unlink"
  /\ UNCHANGED <<vars, rounds, todo, target, prev>>

\* The inner loop passes the nodes of the chunk, and the first other id is
\* written into the last kept node.
Unlink ==
  /\ gcpc = "unlink"
  /\ \/ /\ InTarget
        /\ cur' = mem[NodeCell(cur)]
        /\ UNCHANGED <<mem, prev, gcpc>>
     \/ /\ ~ InTarget
        /\ mem' = [mem EXCEPT ![NodeCell(prev)] = cur]
        /\ prev' = cur
        /\ gcpc' = "follow"
        /\ UNCHANGED cur
  /\ UNCHANGED <<bankVars, head, tail, elements, usage, recent, free, threadVars,
                 mutex, held, rounds, todo, target>>

\* The end of calcRecyclableChunk.
ScanDone ==
  /\ gcpc = "follow"
  /\ ~ HasNode(prev)
  /\ mutex' = [mutex EXCEPT ![Visited] = Nobody]
  /\ cur' = MP_NULL
  /\ prev' = MP_NULL
  /\ gcpc' = "destroy"
  /\ UNCHANGED <<bankVars, queueVars, threadVars, held, rounds, todo, target>>

\* ChunkBank::destroyChunk.  The counter is decremented even if the index
\* has no memory.
DestroyChunk ==
  /\ gcpc = "destroy"
  /\ live' = live \ {target}
  /\ using' = using - 1
  /\ mem' = [x \in Cell |-> IF x[1] = target THEN Junk ELSE mem[x]]
  /\ target' = 0
  /\ NextStore
  /\ UNCHANGED <<head, tail, elements, usage, recent, free, threadVars, mutex, held,
                 rounds, cur, prev>>

\* idleTime seconds pass without a call: every timestamp becomes old.
IdleTimePasses ==
  /\ recent # [l \in Level |-> {}]
  /\ recent' = [l \in Level |-> {}]
  /\ UNCHANGED <<bankVars, head, tail, elements, usage, mem, free, threadVars, mutex,
                 held, gcVars>>

CollectorStep ==
  \/ StartCollection \/ PickNone \/ PickChunk \/ SkipHead
  \/ FollowLink \/ Unlink \/ ScanDone \/ DestroyChunk

NextGC ==
  \/ Next /\ UNCHANGED gcVars
  \/ CollectorStep
  \/ IdleTimePasses

SpecGC == InitGC /\ [][NextGC]_allVars

-----------------------------------------------------------------------------
(* Properties.                                                             *)

\* The chunk the collector is about to destroy has no element in use: between
\* the unlock of calcRecyclableChunk and destroyChunk no thread can get one.
CollectsUnusedOnly ==
  gcpc = "destroy" => \A i \in Taken \cup Queued : i.chunk # target

\* The free queue only ever leads to elements that were put back, and to
\* memory the bank still has, whenever nobody is inside the store.
QueueLeadsToFree ==
  \A l \in Level : mutex[l] = Nobody =>
    /\ Reached(Cardinality(Id), l) \subseteq free[l]
    /\ \A i \in Reached(Cardinality(Id), l) : HasNode(i)

\* Elements that different calls of alloc gave out do not share memory.
ElementsAreNew ==
  /\ \A t, u \in Client : t # u => held[t] \cap held[u] = {}
  /\ \A i, j \in Taken : i # j => Cells(i) \cap Cells(j) = {}

=============================================================================
