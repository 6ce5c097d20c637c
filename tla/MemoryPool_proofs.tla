-------------------------- MODULE MemoryPool_proofs --------------------------
(***************************************************************************)
(* Proofs about the memory pool, for every number of threads, levels and   *)
(* chunks, when malloc does not fail.  The pool keeps its types and no     *)
(* memory has two owners; an element's memory is its holder's              *)
(* (HeldMemoryStable) and the pool implements the abstract ElementPool; no *)
(* node of a chunk is lost, the counters of stores and bank are exact      *)
(* although they are 32 bits wide and change apart from the links, and the *)
(* links of a queue reach every element of it.                             *)
(***************************************************************************)
EXTENDS MemoryPool, Induction

-----------------------------------------------------------------------------
(* The geometry of elements.                                               *)

\* What fits in a chunk by integer division does fit.
LEMMA DivisionFits ==
  ASSUME NEW c \in Nat, NEW n \in Nat, n > 0
  PROVE  c \div n \in Nat /\ (c \div n) * n <= c
BY Z3

\* Consecutive multiples of n are n apart.
LEMMA MultiplesApart ==
  ASSUME NEW a \in Int, NEW b \in Int, NEW n \in Nat, a < b
  PROVE  a * n + n <= b * n
BY SMT

\* The fields of an MP_ID have their types.
LEMMA IdFields ==
  ASSUME NEW i \in Id
  PROVE  /\ i.level \in Level /\ i.chunk \in Chunk
         /\ i.slot \in Nat /\ i.slot < Capacity(i.level)
         /\ i.slot \in 0 .. ChunkSize - 1
         /\ i = [level |-> i.level, chunk |-> i.chunk, slot |-> i.slot]
BY SizeAssumption DEF Id

\* The memory of an element begins at its node and lies inside its chunk.
LEMMA ElementInChunk ==
  ASSUME NEW i \in Id
  PROVE  /\ NodeCell(i) \in Cells(i)
         /\ NodeCell(i) \in Cell
         /\ Cells(i) \subseteq Cell
         /\ \A x \in Cells(i) : x[1] = i.chunk
<1> DEFINE n == NodeSize[i.level]
<1>1. n \in Nat /\ n > 0 /\ ChunkSize \in Nat
  BY IdFields, SizeAssumption
<1>2. i.slot \in Nat /\ i.chunk \in Chunk /\ i.slot < ChunkSize \div n
  BY IdFields DEF Capacity
<1>3. i.slot * n \in Nat
  BY <1>1, <1>2
<1>4. i.slot * n + n <= (ChunkSize \div n) * n
  BY <1>1, <1>2, DivisionFits, MultiplesApart
<1>5. i.slot * n + n <= ChunkSize
  <2>1. (ChunkSize \div n) * n <= ChunkSize /\ (ChunkSize \div n) * n \in Nat
    BY <1>1, DivisionFits
  <2>. QED  BY <1>1, <1>3, <1>4, <2>1
<1>6. i.slot * n \in i.slot * n .. i.slot * n + n - 1
  BY <1>1, <1>3
<1>7. i.slot * n \in 0 .. ChunkSize - 1
  BY <1>1, <1>3, <1>5
<1>8. NodeCell(i) = <<i.chunk, i.slot * n>>
  BY DEF NodeCell
<1>9. Cells(i) = {i.chunk} \X (i.slot * n .. i.slot * n + n - 1)
  BY DEF Cells
<1>10. NodeCell(i) \in Cells(i)
  BY <1>6, <1>8, <1>9
<1>11. NodeCell(i) \in Cell
  BY <1>2, <1>7, <1>8 DEF Cell
<1>12. \A x \in Cells(i) : x[1] = i.chunk
  BY <1>9
<1>13. Cells(i) \subseteq Cell
  <2>1. i.slot * n .. i.slot * n + n - 1 \subseteq 0 .. ChunkSize - 1
    BY <1>1, <1>3, <1>5
  <2>. QED  BY <1>2, <1>9, <2>1 DEF Cell
<1>. QED  BY <1>10, <1>11, <1>12, <1>13

\* Elements of different chunks, and different elements of one level, share
\* no memory.
LEMMA ElementsDisjoint ==
  ASSUME NEW i \in Id, NEW j \in Id, i # j, i.chunk = j.chunk => i.level = j.level
  PROVE  Cells(i) \cap Cells(j) = {}
<1>1. CASE i.chunk # j.chunk
  BY <1>1 DEF Cells
<1>2. CASE i.chunk = j.chunk
  <2> DEFINE n == NodeSize[i.level]
  <2>1. i.level = j.level /\ i.slot # j.slot
    BY <1>2, IdFields
  <2>2. n \in Nat /\ n > 0 /\ i.slot \in Int /\ j.slot \in Int
    BY IdFields, SizeAssumption
  <2>3. i.slot * n \in Int /\ j.slot * n \in Int
    BY <2>2
  <2>4. i.slot * n + n <= j.slot * n \/ j.slot * n + n <= i.slot * n
    <3>1. i.slot < j.slot \/ j.slot < i.slot
      BY <2>1, <2>2
    <3>2. i.slot < j.slot => i.slot * n + n <= j.slot * n
      BY <2>2, MultiplesApart
    <3>3. j.slot < i.slot => j.slot * n + n <= i.slot * n
      BY <2>2, MultiplesApart
    <3>. QED  BY <3>1, <3>2, <3>3
  <2>5. (i.slot * n .. i.slot * n + n - 1) \cap (j.slot * n .. j.slot * n + n - 1) = {}
    BY <2>2, <2>3, <2>4
  <2>6. Cells(i) = {i.chunk} \X (i.slot * n .. i.slot * n + n - 1)
    BY DEF Cells
  <2>7. Cells(j) = {j.chunk} \X (j.slot * n .. j.slot * n + n - 1)
    BY <2>1 DEF Cells
  <2>. QED  BY <2>5, <2>6, <2>7
<1>. QED  BY <1>1, <1>2

\* A chunk has room for at least one element of every level.
LEMMA CapacityPositive ==
  ASSUME NEW l \in Level
  PROVE  Capacity(l) \in Nat /\ Capacity(l) >= 1 /\ Capacity(l) <= ChunkSize
<1>1. NodeSize[l] \in Nat /\ NodeSize[l] > 0 /\ NodeSize[l] <= ChunkSize
      /\ ChunkSize \in Nat
  BY SizeAssumption
<1>. QED  BY <1>1, Z3 DEF Capacity

-----------------------------------------------------------------------------
(* The inductive invariant.                                                *)

InUse == Taken \cup Queued

\* The links of the nodes on a free queue stay on that queue, no two nodes
\* have the same successor, the head has no predecessor and the tail no
\* successor.
LinksInv ==
  \A l \in Level :
    /\ head[l] # MP_NULL =>
         head[l] \in free[l] /\ tail[l] \in free[l] /\ mem[NodeCell(tail[l])] = MP_NULL
    /\ \A i \in free[l] :
         \/ mem[NodeCell(i)] = MP_NULL
         \/ mem[NodeCell(i)] \in free[l] \ {head[l]}
    /\ \A i, j \in free[l] :
         i # j /\ mem[NodeCell(i)] = mem[NodeCell(j)] => mem[NodeCell(i)] = MP_NULL

\* Elements have one owner, a live chunk, and the level of their chunk.
OwnersInv ==
  /\ \A l \in Level : \A i \in free[l] : i.level = l
  /\ \A t, u \in Client : t # u => held[t] \cap held[u] = {}
  /\ Taken \cap Queued = {}
  /\ \A i \in InUse : i.chunk \in live
  /\ \A i, j \in InUse : i.chunk = j.chunk => i.level = j.level

Adding(t) == pc[t] \in {"add", "adding"}

\* A chunk being added belongs to one thread, and only the nodes that
\* thread has added are in use.
ThreadInv ==
  /\ \A t \in Client : pc[t] \notin {"adding", "retry"} => slot[t] = 0
  /\ \A t \in Client : Adding(t) =>
       /\ chunk[t] \in live
       /\ slot[t] < Capacity(level[t])
       /\ \A i \in InUse :
            i.chunk = chunk[t] => i.level = level[t] /\ i.slot < slot[t]
  /\ \A t, u \in Client : t # u /\ Adding(t) /\ Adding(u) => chunk[t] # chunk[u]

IInv == TypeOK /\ LinksInv /\ OwnersInv /\ ThreadInv

-----------------------------------------------------------------------------
(* What the invariant says of single elements.                             *)

\* The elements in use are those that are held or queued.
LEMMA InUseMembers ==
  /\ \A i : i \in Taken <=> \E t \in Client : i \in held[t]
  /\ \A i : i \in Queued <=> \E l \in Level : i \in free[l]
BY DEF Taken, Queued

\* The same after a step.
LEMMA InUseMembersNext ==
  /\ \A i : i \in Taken' <=> \E t \in Client : i \in held'[t]
  /\ \A i : i \in Queued' <=> \E l \in Level : i \in free'[l]
BY DEF Taken, Queued

\* Everything in use is an element identifier.
LEMMA InUseIds == TypeOK => InUse \subseteq Id
BY InUseMembers DEF TypeOK, InUse

\* Elements in use have disjoint memory, and so do their nodes.
LEMMA InUseDisjoint ==
  ASSUME TypeOK, OwnersInv, NEW i \in InUse, NEW j \in InUse, i # j
  PROVE  Cells(i) \cap Cells(j) = {} /\ NodeCell(i) # NodeCell(j)
<1>1. i \in Id /\ j \in Id
  BY InUseIds
<1>2. i.chunk = j.chunk => i.level = j.level
  BY DEF OwnersInv
<1>3. Cells(i) \cap Cells(j) = {}
  BY <1>1, <1>2, ElementsDisjoint
<1>4. NodeCell(i) \in Cells(i) /\ NodeCell(j) \in Cells(j)
  BY <1>1, ElementInChunk
<1>. QED  BY <1>3, <1>4

\* The invariant gives the safety property.
LEMMA InvariantIsExclusive == IInv => ExclusiveOwnership
<1> SUFFICES ASSUME IInv PROVE ExclusiveOwnership
  OBVIOUS
<1>1. \A i, j \in Taken \cup Queued : i # j => Cells(i) \cap Cells(j) = {}
  BY InUseDisjoint DEF IInv, InUse
<1>2. Taken \cap Queued = {}
  BY DEF IInv, OwnersInv
<1>3. \A t, u \in Client : t # u => held[t] \cap held[u] = {}
  BY DEF IInv, OwnersInv
<1>. QED  BY <1>1, <1>2, <1>3 DEF ExclusiveOwnership

-----------------------------------------------------------------------------
(* Adding an element to a free queue.                                      *)

\* addElement keeps the invariant of the links: the new node, whose memory
\* overlaps nothing in use, ends its chain with MP_NULL.
LEMMA AddElementLinks ==
  ASSUME TypeOK, LinksInv, OwnersInv,
         NEW id \in Id, HasNode(id), id \notin Queued, AddElement(id),
         \A i \in Queued : NodeCell(i) # NodeCell(id)
  PROVE  /\ LinksInv'
         /\ free' = [free EXCEPT ![id.level] = @ \cup {id}]
         /\ CountElement(id)
         /\ head' \in [Level -> Id \cup {MP_NULL}]
         /\ mem' \in [Cell -> Value]
<1> DEFINE q == id.level
<1>1. q \in Level /\ NodeCell(id) \in Cell
  BY IdFields, ElementInChunk
<1>2. \A l \in Level : \A i \in free[l] :
        /\ i \in Id /\ i \in Queued /\ i # id /\ i # MP_NULL
        /\ NodeCell(i) \in Cell /\ NodeCell(i) # NodeCell(id)
  BY InUseMembers, ElementInChunk, NullAssumption DEF TypeOK
<1>3. \A l \in Level : \A i, j \in free[l] : i # j => NodeCell(i) # NodeCell(j)
  <2> TAKE l \in Level
  <2>1. \A i \in free[l] : i \in InUse
    BY InUseMembers DEF InUse
  <2>. QED  BY <2>1, InUseDisjoint
<1>4. \A l \in Level : l # q => \A i \in free[l], j \in free[q] : NodeCell(i) # NodeCell(j)
  <2> SUFFICES ASSUME NEW l \in Level, l # q, NEW i \in free[l], NEW j \in free[q]
               PROVE  NodeCell(i) # NodeCell(j)
    OBVIOUS
  <2>1. i \in InUse /\ j \in InUse
    BY <1>1, InUseMembers DEF InUse
  <2>2. i # j
    BY <1>1 DEF OwnersInv
  <2>. QED  BY <2>1, <2>2, InUseDisjoint
<1>5. CASE head[q] = MP_NULL
  <2>1. /\ mem' = [mem EXCEPT ![NodeCell(id)] = MP_NULL]
        /\ head' = [head EXCEPT ![q] = id]
        /\ CountElement(id)
    BY <1>5 DEF AddElement, QueueEmpty
  <2>2. /\ free' = [free EXCEPT ![q] = @ \cup {id}]
        /\ tail' = [tail EXCEPT ![q] = id]
    BY <2>1 DEF CountElement
  <2>3. mem'[NodeCell(id)] = MP_NULL
    BY <1>1, <2>1 DEF TypeOK
  <2>4. \A l \in Level : \A i \in free[l] : mem'[NodeCell(i)] = mem[NodeCell(i)]
    BY <1>2, <2>1 DEF TypeOK
  <2>5. free'[q] = free[q] \cup {id} /\ head'[q] = id /\ tail'[q] = id
    BY <1>1, <2>1, <2>2 DEF TypeOK
  <2>6. \A l \in Level : l # q =>
          free'[l] = free[l] /\ head'[l] = head[l] /\ tail'[l] = tail[l]
    BY <1>1, <2>1, <2>2 DEF TypeOK
  <2>7. LinksInv'
    BY <1>2, <2>3, <2>4, <2>5, <2>6 DEF LinksInv
  <2>8. mem' \in [Cell -> Value] /\ head' \in [Level -> Id \cup {MP_NULL}]
    BY <1>1, <2>1 DEF TypeOK, Value
  <2>. QED  BY <2>1, <2>2, <2>7, <2>8
<1>6. CASE head[q] # MP_NULL
  <2>0. tail[q] \in free[q] /\ head[q] \in free[q]
    BY <1>1, <1>6 DEF LinksInv
  <2>1. HasNode(tail[q])
    BY <1>1, <1>2, <2>0 DEF OwnersInv, InUse, HasNode
  <2>2. /\ mem' = [mem EXCEPT ![NodeCell(id)] = MP_NULL, ![NodeCell(tail[q])] = id]
        /\ head' = head
        /\ CountElement(id)
    BY <1>6, <2>1 DEF AddElement, QueueEmpty
  <2>3. /\ free' = [free EXCEPT ![q] = @ \cup {id}]
        /\ tail' = [tail EXCEPT ![q] = id]
    BY <2>2 DEF CountElement
  <2>4. NodeCell(tail[q]) # NodeCell(id) /\ NodeCell(tail[q]) \in Cell
    BY <1>1, <1>2, <2>0
  <2>5. mem'[NodeCell(id)] = MP_NULL /\ mem'[NodeCell(tail[q])] = id
    BY <1>1, <2>2, <2>4 DEF TypeOK
  <2>6. \A l \in Level : \A i \in free[l] :
          i # tail[q] => mem'[NodeCell(i)] = mem[NodeCell(i)]
    <3> SUFFICES ASSUME NEW l \in Level, NEW i \in free[l], i # tail[q]
                 PROVE  NodeCell(i) # NodeCell(tail[q])
      BY <1>2, <2>2 DEF TypeOK
    <3>. QED  BY <1>1, <1>3, <1>4, <2>0
  <2>7. free'[q] = free[q] \cup {id} /\ tail'[q] = id
    BY <1>1, <2>3 DEF TypeOK
  <2>8. \A l \in Level : l # q => free'[l] = free[l] /\ tail'[l] = tail[l]
    BY <1>1, <2>3 DEF TypeOK
  <2>9. LinksInv'
    <3>1. ASSUME NEW l \in Level, l # q
          PROVE  \A i \in free[l] : i # tail[q]
      BY <1>1, <2>0, <3>1 DEF OwnersInv
    <3>2. \A l \in Level : l # q =>
            \A i \in free[l] : mem'[NodeCell(i)] = mem[NodeCell(i)]
      BY <2>6, <3>1
    <3>3. id # head[q] /\ id # MP_NULL
      BY <1>1, <1>2, <2>0, NullAssumption
    <3>4. ASSUME NEW l \in Level, l # q
          PROVE  /\ head'[l] # MP_NULL =>
                      /\ head'[l] \in free'[l] /\ tail'[l] \in free'[l]
                      /\ mem'[NodeCell(tail'[l])] = MP_NULL
                 /\ \A i \in free'[l] :
                      \/ mem'[NodeCell(i)] = MP_NULL
                      \/ mem'[NodeCell(i)] \in free'[l] \ {head'[l]}
                 /\ \A i, j \in free'[l] :
                      i # j /\ mem'[NodeCell(i)] = mem'[NodeCell(j)]
                        => mem'[NodeCell(i)] = MP_NULL
      <4>1. free'[l] = free[l] /\ head'[l] = head[l] /\ tail'[l] = tail[l]
        BY <2>2, <2>8, <3>4
      <4>2. \A i \in free[l] : mem'[NodeCell(i)] = mem[NodeCell(i)]
        BY <3>2, <3>4
      <4>. QED  BY <4>1, <4>2 DEF LinksInv
    <3>5. head'[q] \in free'[q] /\ tail'[q] \in free'[q] /\ mem'[NodeCell(tail'[q])] = MP_NULL
      BY <2>0, <2>2, <2>5, <2>7
    <3>6. \A i \in free'[q] : \/ mem'[NodeCell(i)] = MP_NULL
                              \/ mem'[NodeCell(i)] \in free'[q] \ {head'[q]}
      <4>1. \A i \in free[q] : i # tail[q] =>
              mem'[NodeCell(i)] = MP_NULL \/ mem'[NodeCell(i)] \in free[q] \ {head[q]}
        BY <1>1, <2>6 DEF LinksInv
      <4>. QED  BY <2>2, <2>5, <2>7, <3>3, <4>1
    <3>7. \A i \in free[q] : i # tail[q] => mem'[NodeCell(i)] # id
      BY <1>1, <1>2, <2>6, <3>3 DEF LinksInv
    <3>8. \A i, j \in free'[q] :
            i # j /\ mem'[NodeCell(i)] = mem'[NodeCell(j)] => mem'[NodeCell(i)] = MP_NULL
      BY <1>1, <2>5, <2>6, <2>7, <3>3, <3>7 DEF LinksInv
    <3>. QED  BY <3>4, <3>5, <3>6, <3>8 DEF LinksInv
  <2>10. mem' \in [Cell -> Value] /\ head' \in [Level -> Id \cup {MP_NULL}]
    BY <1>1, <2>2, <2>4 DEF TypeOK, Value
  <2>. QED  BY <2>2, <2>3, <2>9, <2>10
<1>. QED  BY <1>5, <1>6

-----------------------------------------------------------------------------
(* Taking the head of a free queue.                                        *)

\* allocFromFreeQueue moves the head from the queue to its taker and keeps
\* the invariants of links and owners.
LEMMA TakeHeadInv ==
  ASSUME TypeOK, LinksInv, OwnersInv,
         NEW t \in Client, NEW l \in Level, TakeHead(t, l), UNCHANGED bankVars
  PROVE  /\ LinksInv' /\ OwnersInv'
         /\ head[l] \in free[l]
         /\ held' = [held EXCEPT ![t] = @ \cup {head[l]}]
         /\ free' = [free EXCEPT ![l] = @ \ {head[l]}]
         /\ InUse' = InUse
         /\ head' \in [Level -> Id \cup {MP_NULL}]
         /\ elements' = [elements EXCEPT ![l] = @ - 1]
         /\ usage' = [usage EXCEPT ![l][head[l].chunk] = Dec(@)]
         /\ UNCHANGED <<tail, recent, mem>>
<1> DEFINE h == head[l]
<1>1. h # MP_NULL /\ h \in free[l] /\ h \in Id
  BY DEF TakeHead, NextHead, LinksInv, TypeOK
<1>2. h \in Queued /\ h \in InUse
  BY <1>1, InUseMembers DEF InUse
<1>3. HasNode(h)
  BY <1>1, <1>2 DEF OwnersInv, HasNode
<1>4. /\ held' = [held EXCEPT ![t] = @ \cup {h}]
      /\ head' = [head EXCEPT ![l] = mem[NodeCell(h)]]
      /\ elements' = [elements EXCEPT ![l] = @ - 1]
      /\ usage' = [usage EXCEPT ![l][h.chunk] = Dec(@)]
      /\ free' = [free EXCEPT ![l] = @ \ {h}]
      /\ UNCHANGED <<tail, recent, mem>>
  BY <1>3 DEF TakeHead, NextHead
<1>5. /\ held'[t] = held[t] \cup {h} /\ \A u \in Client : u # t => held'[u] = held[u]
      /\ free'[l] = free[l] \ {h} /\ \A m \in Level : m # l => free'[m] = free[m]
      /\ head'[l] = mem[NodeCell(h)] /\ \A m \in Level : m # l => head'[m] = head[m]
  BY <1>4 DEF TypeOK
<1>6. mem[NodeCell(h)] = MP_NULL \/ mem[NodeCell(h)] \in free[l] \ {h}
  BY <1>1 DEF LinksInv
<1>7. \A m \in Level : m # l => h \notin free[m]
  BY <1>1 DEF OwnersInv
<1>8. h \notin Taken /\ \A u \in Client : h \notin held[u]
  BY <1>2, InUseMembers DEF OwnersInv
<1>9. InUse' = InUse
  <2>1. \A i : i \in Taken' <=> i \in Taken \/ i = h
    BY <1>5, InUseMembers, InUseMembersNext
  <2>2. \A i : i \in Queued' <=> i \in Queued /\ i # h
    BY <1>5, <1>7, InUseMembers, InUseMembersNext
  <2>3. \A i : i \in InUse' <=> i \in InUse
    BY <1>2, <2>1, <2>2 DEF InUse
  <2>. QED  BY <2>3
<1>10. LinksInv'
  <2>1. ASSUME NEW m \in Level
        PROVE  head'[m] # MP_NULL =>
                 /\ head'[m] \in free'[m] /\ tail'[m] \in free'[m]
                 /\ mem'[NodeCell(tail'[m])] = MP_NULL
    <3>1. CASE m # l
      BY <1>4, <1>5, <3>1 DEF LinksInv
    <3>2. CASE m = l
      <4>1. head'[l] # MP_NULL => tail[l] # h
        BY <1>1, <1>5 DEF LinksInv
      <4>. QED  BY <1>1, <1>4, <1>5, <1>6, <3>2, <4>1 DEF LinksInv
    <3>. QED  BY <3>1, <3>2
  <2>2. ASSUME NEW m \in Level, NEW i \in free'[m]
        PROVE  \/ mem'[NodeCell(i)] = MP_NULL
               \/ mem'[NodeCell(i)] \in free'[m] \ {head'[m]}
    <3>1. i \in free[m] /\ mem' = mem
      BY <1>4, <1>5, <2>2
    <3>2. CASE m # l
      BY <1>5, <3>1, <3>2 DEF LinksInv
    <3>3. CASE m = l
      <4>1. i # h
        BY <1>5, <2>2, <3>3
      <4>2. mem[NodeCell(i)] = MP_NULL \/ mem[NodeCell(i)] \in free[l] \ {h}
        BY <3>1, <3>3 DEF LinksInv
      <4>3. mem[NodeCell(i)] = mem[NodeCell(h)] => mem[NodeCell(i)] = MP_NULL
        BY <1>1, <3>1, <3>3, <4>1 DEF LinksInv
      <4>. QED  BY <1>5, <3>1, <3>3, <4>2, <4>3
    <3>. QED  BY <3>2, <3>3
  <2>3. ASSUME NEW m \in Level, NEW i \in free'[m], NEW j \in free'[m],
               i # j, mem'[NodeCell(i)] = mem'[NodeCell(j)]
        PROVE  mem'[NodeCell(i)] = MP_NULL
    <3>1. i \in free[m] /\ j \in free[m] /\ mem' = mem
      BY <1>4, <1>5, <2>3
    <3>. QED  BY <2>3, <3>1 DEF LinksInv
  <2>. QED  BY <2>1, <2>2, <2>3 DEF LinksInv
<1>11. OwnersInv'
  <2>1. \A m \in Level : \A i \in free'[m] : i.level = m
    BY <1>5 DEF OwnersInv
  <2>2. \A u, v \in Client : u # v => held'[u] \cap held'[v] = {}
    BY <1>5, <1>8 DEF OwnersInv
  <2>3. Taken' \cap Queued' = {}
    <3>1. \A i : i \in Taken' <=> i \in Taken \/ i = h
      BY <1>5, InUseMembers, InUseMembersNext
    <3>2. \A i : i \in Queued' <=> i \in Queued /\ i # h
      BY <1>5, <1>7, InUseMembers, InUseMembersNext
    <3>. QED  BY <3>1, <3>2 DEF OwnersInv
  <2>4. live' = live
    BY DEF bankVars
  <2>. QED  BY <1>9, <2>1, <2>2, <2>3, <2>4 DEF OwnersInv
<1>12. head' \in [Level -> Id \cup {MP_NULL}]
  BY <1>1, <1>4, <1>6 DEF TypeOK
<1>. QED  BY <1>1, <1>4, <1>9, <1>10, <1>11, <1>12

-----------------------------------------------------------------------------
(* The steps of the pool preserve the invariant.                           *)

\* The 32-bit counters wrap inside their range.
LEMMA CounterSteps ==
  ASSUME NEW n \in 0 .. CounterRange - 1
  PROVE  Dec(n) \in 0 .. CounterRange - 1 /\ Inc(n) \in 0 .. CounterRange - 1
BY CounterAssumption, SizeAssumption DEF Dec, Inc

\* Counting an added element keeps the types of the statistics.
LEMMA CountElementType ==
  ASSUME TypeOK, NEW id \in Id, CountElement(id)
  PROVE  /\ tail' \in [Level -> Id \cup {MP_NULL}]
         /\ elements' \in [Level -> Int]
         /\ usage' \in [Level -> [Chunk -> 0 .. CounterRange - 1]]
         /\ recent' \in [Level -> SUBSET Chunk]
         /\ free' \in [Level -> SUBSET Id]
<1>1. id.level \in Level /\ id.chunk \in Chunk
  BY IdFields
<1>2. usage[id.level][id.chunk] \in 0 .. CounterRange - 1
  BY <1>1 DEF TypeOK
<1>3. usage' \in [Level -> [Chunk -> 0 .. CounterRange - 1]]
  BY <1>1, <1>2, CounterSteps DEF TypeOK, CountElement
<1>. QED  BY <1>1, <1>3 DEF TypeOK, CountElement

\* Taking an element keeps the types of the queue.
LEMMA TakeHeadType ==
  ASSUME TypeOK, LinksInv, OwnersInv,
         NEW t \in Client, NEW l \in Level, TakeHead(t, l), UNCHANGED bankVars
  PROVE  /\ head' \in [Level -> Id \cup {MP_NULL}]
         /\ tail' \in [Level -> Id \cup {MP_NULL}]
         /\ elements' \in [Level -> Int]
         /\ usage' \in [Level -> [Chunk -> 0 .. CounterRange - 1]]
         /\ recent' \in [Level -> SUBSET Chunk]
         /\ mem' \in [Cell -> Value]
         /\ held' \in [Client -> SUBSET Id]
         /\ free' \in [Level -> SUBSET Id]
<1>1. head[l] \in Id /\ head[l].chunk \in Chunk
  BY TakeHeadInv, IdFields DEF TypeOK
<1>2. usage[l][head[l].chunk] \in 0 .. CounterRange - 1
  BY <1>1 DEF TypeOK
<1>3. /\ held' = [held EXCEPT ![t] = @ \cup {head[l]}]
      /\ free' = [free EXCEPT ![l] = @ \ {head[l]}]
      /\ head' \in [Level -> Id \cup {MP_NULL}]
      /\ elements' = [elements EXCEPT ![l] = @ - 1]
      /\ usage' = [usage EXCEPT ![l][head[l].chunk] = Dec(@)]
      /\ UNCHANGED <<tail, recent, mem>>
  BY TakeHeadInv
<1>4. usage' \in [Level -> [Chunk -> 0 .. CounterRange - 1]]
  BY <1>1, <1>2, <1>3, CounterSteps DEF TypeOK
<1>. QED  BY <1>1, <1>3, <1>4 DEF TypeOK

\* The level that stands for "no call of alloc" is a level.
LEMMA DefaultLevelType == DefaultLevel \in Level
BY SizeAssumption DEF DefaultLevel

\* Leaving alloc keeps the invariant of the threads.
LEMMA ReturnInv ==
  ASSUME TypeOK, ThreadInv, NEW t \in Client, Return(t), InUse' = InUse, live' = live
  PROVE  /\ ThreadInv'
         /\ pc' \in [Client -> {"idle", "create", "add", "adding", "retry"}]
         /\ level' \in [Client -> Level]
         /\ chunk' \in [Client -> Chunk]
         /\ slot' \in [Client -> 0 .. ChunkSize - 1]
<1>1. 0 \in Chunk /\ 0 \in 0 .. ChunkSize - 1
  BY SizeAssumption DEF Chunk
<1>2. /\ pc' = [pc EXCEPT ![t] = "idle"] /\ level' = [level EXCEPT ![t] = DefaultLevel]
      /\ chunk' = [chunk EXCEPT ![t] = 0] /\ slot' = [slot EXCEPT ![t] = 0]
  BY DEF Return, GoTo
<1>3. \A u \in Client : u # t =>
        pc'[u] = pc[u] /\ level'[u] = level[u] /\ chunk'[u] = chunk[u] /\ slot'[u] = slot[u]
  BY <1>2 DEF TypeOK
<1>4. pc'[t] = "idle" /\ slot'[t] = 0
  BY <1>2 DEF TypeOK
<1>5. ThreadInv'
  BY <1>3, <1>4 DEF ThreadInv, Adding
<1>. QED  BY <1>1, <1>2, <1>5, DefaultLevelType DEF TypeOK

\* The first allocFromFreeQueue of alloc keeps the invariant.
LEMMA AllocFirstInv ==
  ASSUME IInv, NEW t \in Client, NEW l \in Level, AllocFirst(t, l)
  PROVE  IInv'
<1>1. UNCHANGED bankVars /\ mutex' = mutex
  BY DEF AllocFirst
<1>2. CASE TakeHead(t, l) /\ UNCHANGED threadVars
  <2>1. LinksInv' /\ OwnersInv' /\ InUse' = InUse
    BY <1>1, <1>2, TakeHeadInv DEF IInv
  <2>2. TypeOK'
    BY <1>1, <1>2, TakeHeadType DEF IInv, TypeOK, bankVars, threadVars
  <2>3. ThreadInv'
    BY <1>1, <1>2, <2>1 DEF IInv, ThreadInv, Adding, bankVars, threadVars
  <2>. QED  BY <2>1, <2>2, <2>3 DEF IInv
<1>3. CASE /\ GoTo(t, "create") /\ level' = [level EXCEPT ![t] = l]
           /\ UNCHANGED <<queueVars, chunk, slot, held>>
  <2>1. TypeOK'
    BY <1>1, <1>3 DEF IInv, TypeOK, GoTo, bankVars, queueVars
  <2>2. InUse' = InUse /\ live' = live
    BY <1>1, <1>3 DEF InUse, Taken, Queued, queueVars, bankVars
  <2>3. LinksInv'
    BY <1>3 DEF IInv, LinksInv, queueVars
  <2>4. OwnersInv'
    BY <1>3, <2>2 DEF IInv, OwnersInv, queueVars, Taken, Queued
  <2>5. pc[t] = "idle" /\ slot[t] = 0
    BY DEF AllocFirst, IInv, ThreadInv
  <2>6. pc'[t] = "create" /\ \A u \in Client : u # t => pc'[u] = pc[u] /\ level'[u] = level[u]
    BY <1>3 DEF GoTo, IInv, TypeOK
  <2>7. ThreadInv'
    BY <1>3, <2>2, <2>5, <2>6 DEF IInv, ThreadInv, Adding
  <2>. QED  BY <2>1, <2>3, <2>4, <2>7 DEF IInv
<1>. QED  BY <1>2, <1>3 DEF AllocFirst

\* The second allocFromFreeQueue of alloc keeps the invariant.
LEMMA AllocRetryInv ==
  ASSUME IInv, NEW t \in Client, AllocRetry(t)
  PROVE  IInv'
<1>1. UNCHANGED bankVars /\ mutex' = mutex /\ Return(t) /\ level[t] \in Level
  BY DEF AllocRetry, IInv, TypeOK
<1>2. CASE TakeHead(t, level[t])
  <2>1. LinksInv' /\ OwnersInv' /\ InUse' = InUse
    BY <1>1, <1>2, TakeHeadInv DEF IInv
  <2>2. ThreadInv'
    BY <1>1, <2>1, ReturnInv DEF IInv, bankVars
  <2>3. TypeOK'
    BY <1>1, <1>2, <2>1, TakeHeadType, ReturnInv DEF IInv, TypeOK, bankVars
  <2>. QED  BY <2>1, <2>2, <2>3 DEF IInv
<1>3. CASE UNCHANGED <<queueVars, held>>
  <2>1. InUse' = InUse /\ live' = live
    BY <1>1, <1>3 DEF InUse, Taken, Queued, queueVars, bankVars
  <2>2. LinksInv'
    BY <1>3 DEF IInv, LinksInv, queueVars
  <2>3. OwnersInv'
    BY <1>3, <2>1 DEF IInv, OwnersInv, queueVars, Taken, Queued
  <2>4. ThreadInv'
    BY <1>1, <2>1, ReturnInv DEF IInv
  <2>5. TypeOK'
    BY <1>1, <1>3, <2>1, ReturnInv DEF IInv, TypeOK, bankVars, queueVars
  <2>. QED  BY <2>2, <2>3, <2>4, <2>5 DEF IInv
<1>. QED  BY <1>2, <1>3 DEF AllocRetry

\* A refused createChunk keeps the invariant.
LEMMA CreateChunkRefusedInv ==
  ASSUME IInv, NEW t \in Client, CreateChunkRefused(t)
  PROVE  IInv'
<1>1. UNCHANGED <<bankVars, queueVars, mutex, held>> /\ Return(t)
  BY DEF CreateChunkRefused
<1>2. InUse' = InUse /\ live' = live
  BY <1>1 DEF InUse, Taken, Queued, queueVars, bankVars
<1>3. LinksInv'
  BY <1>1 DEF IInv, LinksInv, queueVars
<1>4. OwnersInv'
  BY <1>1, <1>2 DEF IInv, OwnersInv, queueVars, Taken, Queued
<1>5. ThreadInv'
  BY <1>1, <1>2, ReturnInv DEF IInv
<1>6. TypeOK'
  BY <1>1, <1>2, ReturnInv DEF IInv, TypeOK, bankVars, queueVars
<1>. QED  BY <1>3, <1>4, <1>5, <1>6 DEF IInv

\* A chunk index that had no memory belongs to no element and to no thread.
LEMMA CreateChunkInv ==
  ASSUME IInv, ~ MallocMayFail, NEW t \in Client, CreateChunk(t)
  PROVE  IInv'
<1>1. PICK c \in Chunk \ live :
        /\ chunk' = [chunk EXCEPT ![t] = c]
        /\ live' = live \cup {c}
  BY DEF CreateChunk, BudgetLeft, FreeIndex
<1>2. /\ UNCHANGED <<queueVars, level, slot, mutex, held>> /\ using' = using + 1
      /\ pc' = [pc EXCEPT ![t] = "add"] /\ pc[t] = "create"
  BY DEF CreateChunk, BudgetLeft, FreeIndex, GoTo
<1>3. InUse' = InUse
  BY <1>2 DEF InUse, Taken, Queued, queueVars
<1>4. \A i \in InUse : i.chunk # c
  BY <1>1 DEF IInv, OwnersInv
<1>5. /\ chunk'[t] = c /\ pc'[t] = "add" /\ slot[t] = 0 /\ slot' = slot /\ level' = level
      /\ \A u \in Client : u # t => chunk'[u] = chunk[u] /\ pc'[u] = pc[u]
  BY <1>1, <1>2 DEF IInv, TypeOK, ThreadInv
<1>6. \A u \in Client : u # t /\ Adding(u) => chunk[u] # c
  BY <1>1 DEF IInv, ThreadInv
<1>7. level[t] \in Level
  BY DEF IInv, TypeOK
<1>8. LinksInv'
  BY <1>2 DEF IInv, LinksInv, queueVars
<1>9. OwnersInv'
  BY <1>1, <1>2, <1>3 DEF IInv, OwnersInv, queueVars, Taken, Queued
<1>10. ThreadInv'
  <2>1. \A u \in Client : pc'[u] \notin {"adding", "retry"} => slot'[u] = 0
    BY <1>5 DEF IInv, ThreadInv
  <2>2. ASSUME NEW u \in Client, Adding(u)'
        PROVE  /\ chunk'[u] \in live'
               /\ slot'[u] < Capacity(level'[u])
               /\ \A i \in InUse' :
                    i.chunk = chunk'[u] => i.level = level'[u] /\ i.slot < slot'[u]
    <3>1. CASE u = t
      BY <1>1, <1>3, <1>4, <1>5, <1>7, <3>1, CapacityPositive
    <3>2. CASE u # t
      BY <1>1, <1>3, <1>5, <2>2, <3>2 DEF IInv, ThreadInv, Adding
    <3>. QED  BY <3>1, <3>2
  <2>3. \A u, v \in Client : u # v /\ Adding(u)' /\ Adding(v)' => chunk'[u] # chunk'[v]
    BY <1>5, <1>6 DEF IInv, ThreadInv, Adding
  <2>. QED  BY <2>1, <2>2, <2>3 DEF ThreadInv, Adding
<1>11. TypeOK'
  BY <1>1, <1>2 DEF IInv, TypeOK, queueVars
<1>. QED  BY <1>8, <1>9, <1>10, <1>11 DEF IInv

\* Taking the mutex in addNewChunk keeps the invariant: nobody else has it.
LEMMA AddNewChunkLockInv ==
  ASSUME IInv, NEW t \in Client, AddNewChunkLock(t)
  PROVE  IInv'
<1>1. /\ UNCHANGED <<bankVars, queueVars, level, chunk, slot, held>>
      /\ pc' = [pc EXCEPT ![t] = "adding"] /\ pc[t] = "add"
      /\ mutex' = [mutex EXCEPT ![level[t]] = t]
  BY DEF AddNewChunkLock, GoTo
<1>2. InUse' = InUse /\ live' = live
  BY <1>1 DEF InUse, Taken, Queued, queueVars, bankVars
<1>3. \A u \in Client : Adding(u)' <=> Adding(u)
  BY <1>1 DEF Adding, IInv, TypeOK
<1>4. LinksInv'
  BY <1>1 DEF IInv, LinksInv, queueVars
<1>5. OwnersInv'
  BY <1>1, <1>2 DEF IInv, OwnersInv, queueVars, Taken, Queued
<1>6. ThreadInv'
  <2>1. \A u \in Client : pc'[u] \notin {"adding", "retry"} => pc[u] \notin {"adding", "retry"}
    BY <1>1 DEF IInv, TypeOK
  <2>. QED  BY <1>1, <1>2, <1>3, <2>1 DEF IInv, ThreadInv
<1>7. TypeOK'
  BY <1>1 DEF IInv, TypeOK, bankVars, queueVars
<1>. QED  BY <1>4, <1>5, <1>6, <1>7 DEF IInv

\* The node that addNewChunk adds is new: it overlaps nothing in use.
LEMMA AddNewChunkStepInv ==
  ASSUME IInv, NEW t \in Client, AddNewChunkStep(t)
  PROVE  IInv'
<1> DEFINE id == [level |-> level[t], chunk |-> chunk[t], slot |-> slot[t]]
<1>1. /\ AddElement(id) /\ pc[t] = "adding" /\ Adding(t)
      /\ UNCHANGED <<bankVars, level, chunk, held>>
  BY DEF AddNewChunkStep, MoreNodes, Adding
<1>2. /\ level[t] \in Level /\ chunk[t] \in Chunk /\ slot[t] \in 0 .. ChunkSize - 1
      /\ chunk[t] \in live /\ slot[t] < Capacity(level[t])
      /\ \A i \in InUse : i.chunk = chunk[t] => i.level = level[t] /\ i.slot < slot[t]
  BY <1>1 DEF IInv, TypeOK, ThreadInv
<1>3. id \in Id /\ id.level = level[t] /\ id.chunk = chunk[t] /\ id.slot = slot[t]
  BY <1>2 DEF Id
<1>4. HasNode(id)
  BY <1>2, <1>3, NullAssumption DEF HasNode
<1>5. \A i \in InUse : i # id /\ (i.chunk = id.chunk => i.level = id.level)
  <2>1. slot[t] \in Int
    BY <1>2
  <2>. QED  BY <1>2, <1>3, <2>1
<1>6. \A i \in InUse : NodeCell(i) # NodeCell(id)
  <2> TAKE i \in InUse
  <2>1. i \in Id
    BY InUseIds DEF IInv
  <2>2. Cells(i) \cap Cells(id) = {}
    BY <1>3, <1>5, <2>1, ElementsDisjoint
  <2>. QED  BY <1>3, <2>1, <2>2, ElementInChunk
<1>7. /\ LinksInv'
      /\ free' = [free EXCEPT ![id.level] = @ \cup {id}]
      /\ CountElement(id)
      /\ head' \in [Level -> Id \cup {MP_NULL}]
      /\ mem' \in [Cell -> Value]
  BY <1>1, <1>3, <1>4, <1>5, <1>6, AddElementLinks DEF IInv, InUse
<1>8. /\ \A i : i \in Queued' <=> i \in Queued \/ i = id
      /\ Taken' = Taken
      /\ \A i : i \in InUse' <=> i \in InUse \/ i = id
  <2>1. \A i : i \in Queued' <=> i \in Queued \/ i = id
    BY <1>2, <1>3, <1>7, InUseMembers, InUseMembersNext DEF IInv, TypeOK
  <2>2. Taken' = Taken
    BY <1>1 DEF Taken
  <2>. QED  BY <2>1, <2>2 DEF InUse
<1>9. live' = live /\ level' = level /\ chunk' = chunk /\ held' = held
  BY <1>1 DEF bankVars
<1>10. OwnersInv'
  <2>1. \A l \in Level : \A i \in free'[l] : i.level = l
    BY <1>3, <1>7 DEF IInv, OwnersInv, TypeOK
  <2>2. Taken' \cap Queued' = {}
    BY <1>5, <1>8 DEF IInv, OwnersInv, InUse
  <2>3. \A i \in InUse' : i.chunk \in live'
    BY <1>2, <1>3, <1>8, <1>9 DEF IInv, OwnersInv
  <2>4. \A i, j \in InUse' : i.chunk = j.chunk => i.level = j.level
    BY <1>5, <1>8 DEF IInv, OwnersInv
  <2>. QED  BY <1>9, <2>1, <2>2, <2>3, <2>4 DEF IInv, OwnersInv
<1>11. \A u \in Client : u # t /\ Adding(u) => id.chunk # chunk[u]
  BY <1>1, <1>3 DEF IInv, ThreadInv
<1>12. /\ \A u \in Client : u # t => pc'[u] = pc[u] /\ slot'[u] = slot[u]
       /\ \/ pc'[t] = "adding" /\ slot'[t] = slot[t] + 1 /\ slot'[t] < Capacity(level[t])
          \/ pc'[t] = "retry" /\ slot'[t] = slot[t]
  BY DEF AddNewChunkStep, MoreNodes, GoTo, IInv, TypeOK
<1>13. ThreadInv'
  <2>1. \A u \in Client : pc'[u] \notin {"adding", "retry"} => slot'[u] = 0
    BY <1>12 DEF IInv, ThreadInv
  <2>2. ASSUME NEW u \in Client, Adding(u)'
        PROVE  /\ chunk'[u] \in live'
               /\ slot'[u] < Capacity(level'[u])
               /\ \A i \in InUse' :
                    i.chunk = chunk'[u] => i.level = level'[u] /\ i.slot < slot'[u]
    <3>1. CASE u = t
      <4>1. slot'[t] = slot[t] + 1 /\ slot'[t] < Capacity(level[t])
        BY <1>12, <2>2, <3>1 DEF Adding
      <4>2. \A i \in InUse : i.slot \in Int
        BY InUseIds, IdFields DEF IInv
      <4>3. slot[t] \in Int
        BY <1>2
      <4>4. \A i \in InUse : i.chunk = chunk[t] => i.level = level[t] /\ i.slot < slot'[t]
        BY <1>2, <4>1, <4>2, <4>3
      <4>5. id.slot < slot'[t]
        BY <1>3, <4>1, <4>3
      <4>6. \A i \in InUse' : i.chunk = chunk[t] => i.level = level[t] /\ i.slot < slot'[t]
        BY <1>3, <1>8, <4>4, <4>5
      <4>. QED  BY <1>2, <1>9, <3>1, <4>1, <4>6
    <3>2. CASE u # t
      <4>1. Adding(u)
        BY <1>12, <2>2, <3>2 DEF Adding
      <4>. QED  BY <1>8, <1>9, <1>11, <1>12, <3>2, <4>1 DEF IInv, ThreadInv
    <3>. QED  BY <3>1, <3>2
  <2>3. \A u \in Client : Adding(u)' => Adding(u)
    BY <1>1, <1>12 DEF Adding
  <2>. QED  BY <1>9, <2>1, <2>2, <2>3 DEF IInv, ThreadInv
<1>14. TypeOK'
  <2>1. slot' \in [Client -> 0 .. ChunkSize - 1]
    <3>1. Capacity(level[t]) \in Nat /\ Capacity(level[t]) <= ChunkSize /\ ChunkSize \in Nat
      BY <1>2, CapacityPositive, SizeAssumption
    <3>2. \/ slot' = slot
          \/ slot' = [slot EXCEPT ![t] = @ + 1] /\ slot[t] + 1 < Capacity(level[t])
      BY DEF AddNewChunkStep, MoreNodes
    <3>3. slot \in [Client -> 0 .. ChunkSize - 1]
      BY DEF IInv, TypeOK
    <3>. QED  BY <3>1, <3>2, <3>3
  <2>2. /\ pc' \in [Client -> {"idle", "create", "add", "adding", "retry"}]
        /\ mutex' \in [Level -> Client \cup {Collector, Nobody}]
    BY DEF AddNewChunkStep, MoreNodes, GoTo, IInv, TypeOK
  <2>3. /\ tail' \in [Level -> Id \cup {MP_NULL}]
        /\ elements' \in [Level -> Int]
        /\ usage' \in [Level -> [Chunk -> 0 .. CounterRange - 1]]
        /\ recent' \in [Level -> SUBSET Chunk]
        /\ free' \in [Level -> SUBSET Id]
    BY <1>3, <1>7, CountElementType DEF IInv
  <2>. QED  BY <1>1, <1>7, <2>1, <2>2, <2>3 DEF IInv, TypeOK, bankVars
<1>. QED  BY <1>7, <1>10, <1>13, <1>14 DEF IInv

\* The freed element goes from its owner to the queue of its store.
LEMMA FreeNodeInv ==
  ASSUME IInv, NEW t \in Client, NEW id \in held[t], FreeNode(t, id)
  PROVE  IInv'
<1>1. /\ AddElement(id) /\ id \in Id
      /\ held' = [held EXCEPT ![t] = @ \ {id}]
      /\ UNCHANGED <<bankVars, threadVars, mutex>>
  BY DEF FreeNode, IInv, TypeOK
<1>2. id \in Taken /\ id \in InUse /\ id \notin Queued
  BY InUseMembers DEF InUse, IInv, OwnersInv
<1>3. HasNode(id) /\ id.level \in Level
  BY <1>1, <1>2, NullAssumption, IdFields DEF HasNode, IInv, OwnersInv
<1>4. \A i \in Queued : NodeCell(i) # NodeCell(id)
  BY <1>2, InUseDisjoint DEF IInv, InUse
<1>5. /\ LinksInv'
      /\ free' = [free EXCEPT ![id.level] = @ \cup {id}]
      /\ CountElement(id)
      /\ head' \in [Level -> Id \cup {MP_NULL}]
      /\ mem' \in [Cell -> Value]
  BY <1>1, <1>2, <1>3, <1>4, AddElementLinks DEF IInv
<1>6. /\ held'[t] = held[t] \ {id} /\ \A u \in Client : u # t => held'[u] = held[u]
      /\ \A u \in Client : u # t => id \notin held[u]
  BY <1>1 DEF IInv, TypeOK, OwnersInv
<1>7. /\ \A i : i \in Queued' <=> i \in Queued \/ i = id
      /\ \A i : i \in Taken' <=> i \in Taken /\ i # id
  <2>1. \A i : i \in Queued' <=> i \in Queued \/ i = id
    BY <1>3, <1>5, InUseMembers, InUseMembersNext DEF IInv, TypeOK
  <2>2. \A i : i \in Taken' <=> i \in Taken /\ i # id
    BY <1>6, InUseMembers, InUseMembersNext
  <2>. QED  BY <2>1, <2>2
<1>8. InUse' = InUse
  <2>1. \A i : i \in InUse' <=> i \in InUse
    BY <1>2, <1>7 DEF InUse
  <2>. QED  BY <2>1
<1>9. OwnersInv'
  <2>1. \A l \in Level : \A i \in free'[l] : i.level = l
    BY <1>3, <1>5 DEF IInv, OwnersInv, TypeOK
  <2>2. Taken' \cap Queued' = {}
    BY <1>7 DEF IInv, OwnersInv
  <2>3. \A u, v \in Client : u # v => held'[u] \cap held'[v] = {}
    BY <1>6 DEF IInv, OwnersInv
  <2>4. live' = live
    BY <1>1 DEF bankVars
  <2>. QED  BY <1>8, <2>1, <2>2, <2>3, <2>4 DEF IInv, OwnersInv
<1>10. ThreadInv'
  BY <1>1, <1>8 DEF IInv, ThreadInv, Adding, bankVars, threadVars
<1>11. TypeOK'
  <2>1. /\ tail' \in [Level -> Id \cup {MP_NULL}]
        /\ elements' \in [Level -> Int]
        /\ usage' \in [Level -> [Chunk -> 0 .. CounterRange - 1]]
        /\ recent' \in [Level -> SUBSET Chunk]
        /\ free' \in [Level -> SUBSET Id]
    BY <1>1, <1>5, CountElementType DEF IInv
  <2>2. held' \in [Client -> SUBSET Id]
    BY <1>1 DEF IInv, TypeOK
  <2>. QED  BY <1>1, <1>5, <2>1, <2>2 DEF IInv, TypeOK, bankVars, threadVars
<1>. QED  BY <1>5, <1>9, <1>10, <1>11 DEF IInv

\* The data of a held element does not touch the links of queued nodes.
LEMMA WriteElementInv ==
  ASSUME IInv, NEW t \in Client, NEW id \in held[t], WriteElement(t, id)
  PROVE  IInv'
<1>1. /\ mem' = [x \in Cell |-> IF x \in Cells(id) THEN t ELSE mem[x]]
      /\ UNCHANGED <<bankVars, head, tail, elements, usage, recent, free,
                     threadVars, mutex, held>>
  BY DEF WriteElement
<1>2. id \in Taken /\ id \in InUse /\ id \notin Queued
  BY InUseMembers DEF InUse, IInv, OwnersInv
<1>3. InUse' = InUse /\ live' = live
  BY <1>1 DEF InUse, Taken, Queued, bankVars
<1>4. \A l \in Level : \A i \in free[l] : mem'[NodeCell(i)] = mem[NodeCell(i)]
  <2> SUFFICES ASSUME NEW l \in Level, NEW i \in free[l]
               PROVE  mem'[NodeCell(i)] = mem[NodeCell(i)]
    OBVIOUS
  <2>1. i \in Queued /\ i \in InUse /\ i # id /\ i \in Id
    BY <1>2, InUseMembers DEF InUse, IInv, TypeOK
  <2>2. Cells(i) \cap Cells(id) = {}
    BY <1>2, <2>1, InUseDisjoint DEF IInv
  <2>3. NodeCell(i) \in Cell /\ NodeCell(i) \notin Cells(id)
    BY <2>1, <2>2, ElementInChunk
  <2>. QED  BY <1>1, <2>3
<1>5. LinksInv'
  <2>1. free' = free /\ head' = head /\ tail' = tail
    BY <1>1
  <2>2. \A l \in Level : head[l] # MP_NULL => mem'[NodeCell(tail[l])] = MP_NULL
    BY <1>4 DEF IInv, LinksInv
  <2>3. \A l \in Level : \A i \in free[l] :
          \/ mem'[NodeCell(i)] = MP_NULL
          \/ mem'[NodeCell(i)] \in free[l] \ {head[l]}
    BY <1>4 DEF IInv, LinksInv
  <2>4. \A l \in Level : \A i, j \in free[l] :
          i # j /\ mem'[NodeCell(i)] = mem'[NodeCell(j)] => mem'[NodeCell(i)] = MP_NULL
    BY <1>4 DEF IInv, LinksInv
  <2>5. \A l \in Level : head[l] # MP_NULL => head[l] \in free[l] /\ tail[l] \in free[l]
    BY DEF IInv, LinksInv
  <2>. QED  BY <2>1, <2>2, <2>3, <2>4, <2>5 DEF LinksInv
<1>6. OwnersInv'
  BY <1>1, <1>3 DEF IInv, OwnersInv, Taken, Queued
<1>7. ThreadInv'
  BY <1>1, <1>3 DEF IInv, ThreadInv, Adding, threadVars
<1>8. TypeOK'
  <2>1. mem' \in [Cell -> Value]
    BY <1>1 DEF IInv, TypeOK, Value
  <2>. QED  BY <1>1, <2>1 DEF IInv, TypeOK, bankVars, threadVars
<1>. QED  BY <1>5, <1>6, <1>7, <1>8 DEF IInv

\* The constructors establish the invariant.
LEMMA InitInv == Init => IInv
<1> SUFFICES ASSUME Init PROVE IInv
  OBVIOUS
<1>1. 0 \in Chunk /\ 0 \in 0 .. ChunkSize - 1 /\ 0 \in 0 .. CounterRange - 1
  BY SizeAssumption, CounterAssumption DEF Chunk
<1>2. TypeOK
  BY <1>1, DefaultLevelType DEF Init, TypeOK, Value
<1>3. InUse = {}
  BY InUseMembers DEF Init, InUse
<1>4. LinksInv
  BY DEF Init, LinksInv
<1>5. OwnersInv
  BY <1>3 DEF Init, OwnersInv, InUse
<1>6. ThreadInv
  BY DEF Init, ThreadInv, Adding
<1>. QED  BY <1>2, <1>4, <1>5, <1>6 DEF IInv

\* Every step keeps the invariant.
LEMMA NextInv ==
  ASSUME IInv, ~ MallocMayFail, [Next]_vars
  PROVE  IInv'
<1>1. ASSUME NEW t \in Client, NEW l \in Level, AllocFirst(t, l) PROVE IInv'
  BY <1>1, AllocFirstInv
<1>2. ASSUME NEW t \in Client, AllocStep(t) PROVE IInv'
  BY <1>2, CreateChunkInv, CreateChunkRefusedInv, AddNewChunkLockInv,
     AddNewChunkStepInv, AllocRetryInv DEF AllocStep
<1>3. ASSUME NEW t \in Client, NEW id \in held[t], FreeNode(t, id) PROVE IInv'
  BY <1>3, FreeNodeInv
<1>4. ASSUME NEW t \in Client, NEW id \in held[t], WriteElement(t, id) PROVE IInv'
  BY <1>4, WriteElementInv
<1>5. CASE UNCHANGED vars
  <2>1. UNCHANGED <<bankVars, queueVars, threadVars, mutex, held>>
    BY <1>5 DEF vars
  <2>2. InUse' = InUse /\ live' = live
    BY <2>1 DEF InUse, Taken, Queued, bankVars, queueVars
  <2>3. TypeOK'
    BY <2>1 DEF IInv, TypeOK, bankVars, queueVars, threadVars
  <2>4. LinksInv'
    BY <2>1 DEF IInv, LinksInv, queueVars
  <2>5. OwnersInv'
    BY <2>1, <2>2 DEF IInv, OwnersInv, queueVars, Taken, Queued
  <2>6. ThreadInv'
    BY <2>1, <2>2 DEF IInv, ThreadInv, Adding, threadVars
  <2>. QED  BY <2>3, <2>4, <2>5, <2>6 DEF IInv
<1>. QED  BY <1>1, <1>2, <1>3, <1>4, <1>5 DEF Next

\* The invariant holds in every reachable state of a pool whose malloc does
\* not fail.
THEOREM PoolInvariant ==
  ASSUME ~ MallocMayFail
  PROVE  Spec => []IInv
<1>1. IInv /\ [Next]_vars => IInv'
  BY NextInv
<1>. QED  BY <1>1, InitInv, PTL DEF Spec

-----------------------------------------------------------------------------
(* The theorems.                                                           *)

\* Type correctness: in particular, following a link of a free queue always
\* gives another MP_ID or MP_NULL, never a client's data (allocFromFreeQueue
\* reads _next from memory that clients overwrite).
THEOREM PoolTypeCorrect ==
  ASSUME ~ MallocMayFail
  PROVE  Spec => []TypeOK
<1>1. IInv => TypeOK
  BY DEF IInv
<1>. QED  BY <1>1, PoolInvariant, PTL

\* No memory of the pool ever has two owners, for any number of threads,
\* element sizes and chunks.
THEOREM PoolExclusive ==
  ASSUME ~ MallocMayFail
  PROVE  Spec => []ExclusiveOwnership
BY InvariantIsExclusive, PoolInvariant, PTL

-----------------------------------------------------------------------------
(* What the callers of the pool can rely on: the memory of an element they *)
(* hold is theirs, and the pool implements the abstract ElementPool.       *)

\* The queue operations of a step write only the node they add and nodes
\* that are queued.
LEMMA AddElementWrites ==
  ASSUME TypeOK, LinksInv, NEW id \in Id, HasNode(id), AddElement(id),
         NEW x \in Cell, x # NodeCell(id), \A j \in Queued : x # NodeCell(j)
  PROVE  mem'[x] = mem[x]
<1>1. id.level \in Level /\ mem \in [Cell -> Value]
  BY IdFields DEF TypeOK
<1>2. CASE QueueEmpty(id.level)
  <2>1. mem' = [mem EXCEPT ![NodeCell(id)] = MP_NULL]
    BY <1>2 DEF AddElement
  <2>. QED  BY <1>1, <2>1
<1>3. CASE ~ QueueEmpty(id.level)
  <2>1. tail[id.level] \in Queued
    BY <1>1, <1>3, InUseMembers DEF QueueEmpty, LinksInv
  <2>2. \/ mem' = [mem EXCEPT ![NodeCell(id)] = MP_NULL, ![NodeCell(tail[id.level])] = id]
        \/ mem' = [mem EXCEPT ![NodeCell(id)] = MP_NULL]
    BY <1>3 DEF AddElement
  <2>. QED  BY <1>1, <2>1, <2>2
<1>. QED  BY <1>2, <1>3

\* The node that addNewChunk adds next overlaps nothing in use.
LEMMA NextNodeIsNew ==
  ASSUME IInv, NEW t \in Client, AddNewChunkStep(t),
         NEW id, id = [level |-> level[t], chunk |-> chunk[t], slot |-> slot[t]]
  PROVE  /\ id \in Id /\ HasNode(id) /\ AddElement(id)
         /\ id \notin InUse
         /\ \A i \in InUse : Cells(i) \cap Cells(id) = {}
<1>1. AddElement(id) /\ pc[t] = "adding" /\ Adding(t)
  BY DEF AddNewChunkStep, MoreNodes, Adding
<1>2. /\ level[t] \in Level /\ chunk[t] \in Chunk /\ slot[t] \in 0 .. ChunkSize - 1
      /\ chunk[t] \in live /\ slot[t] < Capacity(level[t])
      /\ \A i \in InUse : i.chunk = chunk[t] => i.level = level[t] /\ i.slot < slot[t]
  BY <1>1 DEF IInv, TypeOK, ThreadInv
<1>3. id \in Id /\ id.level = level[t] /\ id.chunk = chunk[t] /\ id.slot = slot[t]
  BY <1>2 DEF Id
<1>4. HasNode(id)
  BY <1>2, <1>3, NullAssumption DEF HasNode
<1>5. \A i \in InUse : i # id /\ (i.chunk = id.chunk => i.level = id.level)
  <2>1. slot[t] \in Int
    BY <1>2
  <2>. QED  BY <1>2, <1>3, <2>1
<1>6. \A i \in InUse : Cells(i) \cap Cells(id) = {}
  BY <1>3, <1>5, InUseIds, ElementsDisjoint DEF IInv
<1>. QED  BY <1>1, <1>3, <1>4, <1>5, <1>6

\* An element that is added for the first time, or freed by its owner, does
\* not disturb elements that stay held.
LEMMA AddElementSpares ==
  ASSUME IInv, NEW id \in Id, HasNode(id), AddElement(id),
         NEW i \in Taken, Cells(i) \cap Cells(id) = {}, NEW x \in Cells(i)
  PROVE  mem'[x] = mem[x]
<1>1. i \in InUse /\ i \in Id
  BY InUseIds DEF InUse, IInv
<1>. x \in Cell
  BY <1>1, ElementInChunk
<1>2. x # NodeCell(id)
  BY ElementInChunk
<1>3. \A j \in Queued : x # NodeCell(j)
  <2> SUFFICES ASSUME NEW j \in Queued PROVE x # NodeCell(j)
    OBVIOUS
  <2>1. j \in InUse /\ j \in Id /\ i # j
    BY <1>1, InUseIds DEF InUse, IInv, OwnersInv
  <2>2. Cells(i) \cap Cells(j) = {}
    BY <1>1, <2>1, InUseDisjoint DEF IInv
  <2>. QED  BY <2>1, <2>2, ElementInChunk
<1>. QED  BY <1>1, <1>2, <1>3, AddElementWrites DEF IInv

\* One step leaves the memory of an element that stays held to its holder.
LEMMA StepSparesHeld ==
  ASSUME IInv, [Next]_vars,
         NEW t \in Client, NEW i \in held[t] \cap held'[t], NEW x \in Cells(i)
  PROVE  mem'[x] \in {mem[x], t}
<1>1. i \in Taken /\ i \in InUse /\ i \in Id /\ x \in Cell
  <2>1. i \in Taken /\ i \in InUse
    BY InUseMembers DEF InUse
  <2>2. i \in Id
    BY <2>1, InUseIds DEF IInv
  <2>. QED  BY <2>1, <2>2, ElementInChunk
<1>2. ASSUME NEW u \in Client, NEW id \in held[u], FreeNode(u, id)
      PROVE  mem'[x] = mem[x]
  <2>1. AddElement(id) /\ held' = [held EXCEPT ![u] = @ \ {id}]
    BY <1>2 DEF FreeNode
  <2>2. id \in InUse /\ id \in Id /\ HasNode(id)
    BY InUseMembers, InUseIds, NullAssumption DEF InUse, IInv, OwnersInv, HasNode
  <2>3. i # id
    BY <2>1 DEF IInv, TypeOK, OwnersInv
  <2>4. Cells(i) \cap Cells(id) = {}
    BY <1>1, <2>2, <2>3, InUseDisjoint DEF IInv
  <2>. QED  BY <1>1, <2>1, <2>2, <2>4, AddElementSpares
<1>3. ASSUME NEW u \in Client, AddNewChunkStep(u)
      PROVE  mem'[x] = mem[x]
  BY <1>1, <1>3, NextNodeIsNew, AddElementSpares
<1>4. ASSUME NEW u \in Client, NEW id \in held[u], WriteElement(u, id)
      PROVE  mem'[x] \in {mem[x], t}
  <2>1. mem'[x] = IF x \in Cells(id) THEN u ELSE mem[x]
    BY <1>1, <1>4 DEF WriteElement
  <2>2. CASE u = t
    BY <2>1, <2>2
  <2>3. CASE u # t
    <3>1. id \in InUse /\ id # i
      BY <2>3, InUseMembers DEF InUse, IInv, OwnersInv
    <3>2. x \notin Cells(id)
      BY <1>1, <3>1, InUseDisjoint DEF IInv
    <3>. QED  BY <2>1, <3>2
  <2>. QED  BY <2>2, <2>3
<1>5. ASSUME NEW u \in Client, NEW l \in Level, TakeHead(u, l)
      PROVE  mem' = mem
  BY <1>5 DEF TakeHead, queueVars
<1>6. ASSUME NEW u \in Client,
             (\E l \in Level : AllocFirst(u, l)) \/ AllocRetry(u)
      PROVE  mem' = mem
  BY <1>5, <1>6 DEF AllocFirst, AllocRetry, IInv, TypeOK, queueVars
<1>7. ASSUME NEW u \in Client,
             CreateChunk(u) \/ CreateChunkRefused(u) \/ AddNewChunkLock(u)
      PROVE  mem' = mem
  BY <1>7 DEF CreateChunk, CreateChunkRefused, AddNewChunkLock, queueVars
<1>8. CASE UNCHANGED vars
  BY <1>8 DEF vars, queueVars
<1>. QED  BY <1>2, <1>3, <1>4, <1>6, <1>7, <1>8 DEF Next, AllocStep

\* The memory of an element that stays held is written by its holder only,
\* for any number of threads, element sizes and chunks.
THEOREM HeldStable ==
  ASSUME ~ MallocMayFail
  PROVE  Spec => HeldMemoryStable
<1>1. IInv /\ [Next]_vars =>
        [\A t \in Client : \A i \in held[t] \cap held'[t] : \A x \in Cells(i) :
           mem'[x] \in {mem[x], t}]_vars
  BY StepSparesHeld
<1>. QED  BY <1>1, PoolInvariant, PTL DEF Spec, HeldMemoryStable

-----------------------------------------------------------------------------
(* The pool implements ElementPool.                                        *)

\* An element that is added is queued, and nothing else changes its place.
LEMMA AddElementQueues ==
  ASSUME IInv, NEW id \in Id, HasNode(id), id \notin Queued, AddElement(id),
         \A i \in Queued : NodeCell(i) # NodeCell(id)
  PROVE  Queued' = Queued \cup {id}
<1>1. free' = [free EXCEPT ![id.level] = @ \cup {id}] /\ id.level \in Level
  BY AddElementLinks, IdFields DEF IInv
<1>2. \A i : i \in Queued' <=> i \in Queued \/ i = id
  BY <1>1, InUseMembers, InUseMembersNext DEF IInv, TypeOK
<1>. QED  BY <1>2

\* Taking the head of a free queue takes an element of the abstract pool.
LEMMA TakeImplements ==
  ASSUME IInv, NEW t \in Client, NEW l \in Level, TakeHead(t, l), UNCHANGED bankVars
  PROVE  \E e \in Id : Abstract!Take(t, e)
<1>1. /\ head[l] \in free[l]
      /\ held' = [held EXCEPT ![t] = @ \cup {head[l]}]
      /\ free' = [free EXCEPT ![l] = @ \ {head[l]}]
  BY TakeHeadInv DEF IInv
<1>2. head[l] \in Id /\ head[l] \in Queued
  BY <1>1, InUseMembers DEF IInv, TypeOK
<1>3. \A m \in Level : m # l => head[l] \notin free[m]
  BY <1>1 DEF IInv, OwnersInv
<1>4. \A i : i \in Queued' <=> i \in Queued /\ i # head[l]
  BY <1>1, <1>3, InUseMembers, InUseMembersNext DEF IInv, TypeOK
<1>5. Queued' = Queued \ {head[l]}
  BY <1>4
<1>6. Abstract!Take(t, head[l])
  BY <1>1, <1>2, <1>5 DEF Abstract!Take
<1>. QED  BY <1>2, <1>6

\* A node that addNewChunk adds is supplied to the abstract pool.
LEMMA AddNewChunkImplements ==
  ASSUME IInv, NEW t \in Client, AddNewChunkStep(t)
  PROVE  \E e \in Id : Abstract!Supply(e)
<1> DEFINE id == [level |-> level[t], chunk |-> chunk[t], slot |-> slot[t]]
<1>1. /\ id \in Id /\ HasNode(id) /\ AddElement(id)
      /\ id \notin InUse
      /\ \A i \in InUse : Cells(i) \cap Cells(id) = {}
  BY NextNodeIsNew
<1>. HIDE DEF id
<1>2. \A i \in Queued : i \in InUse /\ NodeCell(i) # NodeCell(id)
  BY <1>1, InUseIds, ElementInChunk DEF InUse, IInv
<1>3. Queued' = Queued \cup {id}
  BY <1>1, <1>2, AddElementQueues DEF InUse
<1>4. held' = held
  BY DEF AddNewChunkStep
<1>5. Abstract!InUse \subseteq InUse
  BY DEF Abstract!InUse, InUse, Taken
<1>6. Abstract!Supply(id)
  BY <1>1, <1>3, <1>4, <1>5 DEF Abstract!Supply
<1>. QED  BY <1>1, <1>6

\* freeNode gives the element back to the abstract pool.
LEMMA FreeNodeImplements ==
  ASSUME IInv, NEW t \in Client, NEW id \in held[t], FreeNode(t, id)
  PROVE  \E e \in Id : Abstract!Give(t, e)
<1>1. AddElement(id) /\ held' = [held EXCEPT ![t] = @ \ {id}]
  BY DEF FreeNode
<1>2. id \in InUse /\ id \in Id /\ HasNode(id) /\ id \notin Queued
  BY InUseMembers, InUseIds, NullAssumption DEF InUse, IInv, OwnersInv, HasNode
<1>3. \A i \in Queued : NodeCell(i) # NodeCell(id)
  BY <1>2, InUseDisjoint DEF IInv, InUse
<1>4. Queued' = Queued \cup {id}
  BY <1>1, <1>2, <1>3, AddElementQueues
<1>5. Abstract!Give(t, id)
  BY <1>1, <1>4 DEF Abstract!Give
<1>. QED  BY <1>2, <1>5

\* A step that moves no element changes nothing a caller can see.
LEMMA NoMoveStutters ==
  ASSUME UNCHANGED <<free, held>>
  PROVE  UNCHANGED Abstract!abstractVars
BY DEF Abstract!abstractVars, Queued

\* Every step of the pool is one of the abstract pool, or stutters.
LEMMA StepImplements ==
  ASSUME IInv, [Next]_vars
  PROVE  [Abstract!AbstractNext]_(Abstract!abstractVars)
<1>1. ASSUME NEW t \in Client, NEW l \in Level, AllocFirst(t, l)
      PROVE  Abstract!AbstractNext \/ UNCHANGED <<free, held>>
  <2>1. CASE TakeHead(t, l)
    BY <1>1, <2>1, TakeImplements DEF AllocFirst, Abstract!AbstractNext
  <2>2. CASE head[l] = MP_NULL
    BY <1>1, <2>2 DEF AllocFirst, TakeHead, queueVars
  <2>. QED  BY <1>1, <2>1, <2>2 DEF AllocFirst
<1>2. ASSUME NEW t \in Client, AllocRetry(t)
      PROVE  Abstract!AbstractNext \/ UNCHANGED <<free, held>>
  <2>1. CASE TakeHead(t, level[t])
    <3>1. level[t] \in Level
      BY DEF IInv, TypeOK
    <3>. QED  BY <1>2, <2>1, <3>1, TakeImplements DEF AllocRetry, Abstract!AbstractNext
  <2>2. CASE UNCHANGED <<queueVars, held>>
    BY <2>2 DEF queueVars
  <2>. QED  BY <1>2, <2>1, <2>2 DEF AllocRetry
<1>3. ASSUME NEW t \in Client, AddNewChunkStep(t)
      PROVE  Abstract!AbstractNext
  BY <1>3, AddNewChunkImplements DEF Abstract!AbstractNext
<1>4. ASSUME NEW t \in Client, NEW id \in held[t], FreeNode(t, id)
      PROVE  Abstract!AbstractNext
  BY <1>4, FreeNodeImplements DEF Abstract!AbstractNext
<1>5. ASSUME NEW t \in Client,
             \/ CreateChunk(t) \/ CreateChunkRefused(t) \/ AddNewChunkLock(t)
             \/ \E id \in held[t] : WriteElement(t, id)
      PROVE  UNCHANGED <<free, held>>
  BY <1>5 DEF CreateChunk, CreateChunkRefused, AddNewChunkLock, WriteElement, queueVars
<1>6. CASE UNCHANGED vars
  BY <1>6, NoMoveStutters DEF vars, queueVars
<1>. QED  BY <1>1, <1>2, <1>3, <1>4, <1>5, <1>6, NoMoveStutters DEF Next, AllocStep

\* The callers of the pool, however many they are and whatever the sizes,
\* see an ElementPool: elements appear without overlap, are taken by one
\* caller and given back once.
THEOREM PoolImplements ==
  ASSUME ~ MallocMayFail
  PROVE  Spec => ImplementsElementPool
<1>1. Init => Abstract!AbstractInit
  <2>1. Init => Queued = {}
    BY InUseMembers DEF Init
  <2>. QED  BY <2>1 DEF Init, Abstract!AbstractInit
<1>2. IInv /\ [Next]_vars => [Abstract!AbstractNext]_(Abstract!abstractVars)
  BY StepImplements
<1>. QED  BY <1>1, <1>2, PoolInvariant, PTL DEF Spec, ImplementsElementPool, Abstract!AbstractSpec

-----------------------------------------------------------------------------
(* What the steps do to the free queues and to the chunks.                 *)

\* The queue of id grows by id, which was on no queue.
Adds(id) ==
  /\ id \in Id /\ id \notin Queued
  /\ free' = [free EXCEPT ![id.level] = @ \cup {id}]
  /\ CountElement(id)

\* The queue of l loses its head.
Removes(l) ==
  /\ head[l] \in free[l]
  /\ free' = [free EXCEPT ![l] = @ \ {head[l]}]
  /\ elements' = [elements EXCEPT ![l] = @ - 1]
  /\ usage' = [usage EXCEPT ![l][head[l].chunk] = Dec(@)]

LEMMA AddNewChunkAdds ==
  ASSUME IInv, NEW t \in Client, AddNewChunkStep(t),
         NEW id, id = [level |-> level[t], chunk |-> chunk[t], slot |-> slot[t]]
  PROVE  Adds(id) /\ id \notin Taken /\ held' = held /\ UNCHANGED bankVars
<1>1. id \in Id /\ HasNode(id) /\ AddElement(id) /\ id \notin InUse
  BY NextNodeIsNew
<1>2. \A i \in Queued : NodeCell(i) # NodeCell(id)
  <2> SUFFICES ASSUME NEW i \in Queued PROVE NodeCell(i) # NodeCell(id)
    OBVIOUS
  <2>1. i \in InUse /\ i \in Id
    BY InUseIds DEF InUse, IInv
  <2>2. Cells(i) \cap Cells(id) = {}
    BY <2>1, NextNodeIsNew
  <2>. QED  BY <1>1, <2>1, <2>2, ElementInChunk
<1>3. free' = [free EXCEPT ![id.level] = @ \cup {id}] /\ CountElement(id)
  BY <1>1, <1>2, AddElementLinks DEF IInv, InUse
<1>4. held' = held /\ UNCHANGED bankVars
  BY DEF AddNewChunkStep
<1>. QED  BY <1>1, <1>3, <1>4 DEF Adds, InUse

LEMMA FreeNodeAdds ==
  ASSUME IInv, NEW t \in Client, NEW id \in held[t], FreeNode(t, id)
  PROVE  Adds(id) /\ held' = [held EXCEPT ![t] = @ \ {id}] /\ UNCHANGED bankVars
<1>1. AddElement(id) /\ held' = [held EXCEPT ![t] = @ \ {id}] /\ UNCHANGED bankVars
  BY DEF FreeNode
<1>2. id \in InUse /\ id \in Id /\ HasNode(id) /\ id \notin Queued
  BY InUseMembers, InUseIds, NullAssumption DEF InUse, IInv, OwnersInv, HasNode
<1>3. \A i \in Queued : NodeCell(i) # NodeCell(id)
  BY <1>2, InUseDisjoint DEF IInv, InUse
<1>4. free' = [free EXCEPT ![id.level] = @ \cup {id}] /\ CountElement(id)
  BY <1>1, <1>2, <1>3, AddElementLinks DEF IInv
<1>. QED  BY <1>1, <1>2, <1>4 DEF Adds

\* A call of alloc that finds an element.
LEMMA TakeHeadRemoves ==
  ASSUME IInv, NEW t \in Client, NEW l \in Level, TakeHead(t, l), UNCHANGED bankVars
  PROVE  Removes(l) /\ InUse' = InUse
BY TakeHeadInv DEF IInv, Removes

\* createChunk gives the thread an index that had no memory.
NewChunk(t, c) ==
  /\ c \in Chunk \ live /\ live' = live \cup {c}
  /\ BudgetLeft /\ using' = using + 1
  /\ pc[t] = "create" /\ pc' = [pc EXCEPT ![t] = "add"]
  /\ chunk' = [chunk EXCEPT ![t] = c]
  /\ UNCHANGED <<queueVars, level, slot, held>>

LEMMA CreateChunkAdds ==
  ASSUME ~ MallocMayFail, NEW t \in Client, CreateChunk(t)
  PROVE  \E c \in Chunk : NewChunk(t, c)
BY DEF CreateChunk, FreeIndex, GoTo, NewChunk

-----------------------------------------------------------------------------
(* No element leaks.                                                       *)

\* The elements that are in use or about to be added.
Known == InUse \cup UNION {Pending(t) : t \in Client}

\* A thread that is not adding a chunk has nothing to add.
LEMMA PendingStays ==
  ASSUME NEW t \in Client, NEW i \in Pending(t),
         pc'[t] \in {"add", "adding"}, level'[t] = level[t], chunk'[t] = chunk[t], slot'[t] = slot[t]
  PROVE  i \in Pending(t)'
BY DEF Pending

\* An element that is known stays known.
LEMMA KnownStays ==
  ASSUME IInv, ~ MallocMayFail, [Next]_vars, NEW i \in Known
  PROVE  i \in Known'
<1>1. ASSUME UNCHANGED <<pc, level, chunk, slot>>, InUse \subseteq InUse' PROVE i \in Known'
  BY <1>1 DEF Known, Pending
<1>2. ASSUME NEW t \in Client, ~ Adding(t), InUse' = InUse,
             \A u \in Client \ {t} : /\ pc'[u] = pc[u] /\ level'[u] = level[u]
                                     /\ chunk'[u] = chunk[u] /\ slot'[u] = slot[u]
      PROVE  i \in Known'
  <2>1. Pending(t) = {}
    BY <1>2 DEF Pending, Adding
  <2>2. \A u \in Client \ {t} : Pending(u)' = Pending(u)
    BY <1>2 DEF Pending
  <2>. QED  BY <1>2, <2>1, <2>2 DEF Known
<1>3. ASSUME NEW t \in Client, NEW l \in Level, AllocFirst(t, l) PROVE i \in Known'
  <2>1. CASE TakeHead(t, l)
    <3>1. UNCHANGED <<pc, level, chunk, slot>> /\ InUse' = InUse
      BY <1>3, <2>1, TakeHeadRemoves DEF AllocFirst, TakeHead, GoTo, threadVars
    <3>. QED  BY <1>1, <3>1
  <2>2. CASE head[l] = MP_NULL
    <3>1. /\ pc[t] = "idle" /\ pc' = [pc EXCEPT ![t] = "create"]
          /\ level' = [level EXCEPT ![t] = l] /\ UNCHANGED <<chunk, slot, held, free>>
      BY <1>3, <2>2 DEF AllocFirst, TakeHead, GoTo, queueVars
    <3>2. InUse' = InUse /\ ~ Adding(t)
      BY <3>1 DEF InUse, Taken, Queued, Adding
    <3>. QED  BY <1>2, <3>1, <3>2 DEF IInv, TypeOK
  <2>. QED  BY <1>3, <2>1, <2>2 DEF AllocFirst
<1>4. ASSUME NEW t \in Client, CreateChunk(t) \/ CreateChunkRefused(t) PROVE i \in Known'
  <2>1. /\ pc[t] = "create" /\ UNCHANGED <<held, free>>
        /\ \A u \in Client \ {t} : /\ pc'[u] = pc[u] /\ level'[u] = level[u]
                                   /\ chunk'[u] = chunk[u] /\ slot'[u] = slot[u]
    BY <1>4 DEF CreateChunk, CreateChunkRefused, Return, GoTo, queueVars, IInv, TypeOK
  <2>2. InUse' = InUse /\ ~ Adding(t)
    BY <2>1 DEF InUse, Taken, Queued, Adding
  <2>. QED  BY <1>2, <2>1, <2>2
<1>5. ASSUME NEW t \in Client, AddNewChunkLock(t) PROVE i \in Known'
  <2>1. /\ pc[t] = "add" /\ pc' = [pc EXCEPT ![t] = "adding"]
        /\ UNCHANGED <<level, chunk, slot, held, free>>
    BY <1>5 DEF AddNewChunkLock, GoTo, queueVars
  <2>2. InUse' = InUse
    BY <2>1 DEF InUse, Taken, Queued
  <2>3. \A u \in Client : Pending(u)' = Pending(u)
    BY <2>1 DEF Pending, IInv, TypeOK
  <2>. QED  BY <2>2, <2>3 DEF Known
<1>6. ASSUME NEW t \in Client, AddNewChunkStep(t) PROVE i \in Known'
  <2> DEFINE id == [level |-> level[t], chunk |-> chunk[t], slot |-> slot[t]]
  <2>1. Adds(id) /\ held' = held
    BY <1>6, AddNewChunkAdds
  <2>. HIDE DEF id
  <2>2. InUse \cup {id} \subseteq InUse'
    <3>1. \A j \in Queued \cup {id} : j \in Queued'
      BY <2>1, InUseMembers, InUseMembersNext, IdFields DEF Adds, IInv, TypeOK
    <3>2. Taken' = Taken
      BY <2>1 DEF Taken
    <3>. QED  BY <3>1, <3>2 DEF InUse
  <2>3. /\ pc[t] = "adding" /\ UNCHANGED <<level, chunk>>
        /\ \/ MoreNodes(t) /\ slot' = [slot EXCEPT ![t] = @ + 1] /\ pc' = pc
           \/ ~ MoreNodes(t) /\ pc' = [pc EXCEPT ![t] = "retry"] /\ slot' = slot
    BY <1>6 DEF AddNewChunkStep, GoTo
  <2>4. ASSUME NEW u \in Client \ {t}, i \in Pending(u) PROVE i \in Pending(u)'
    BY <2>3, <2>4 DEF Pending, IInv, TypeOK
  <2>5. ASSUME i \in Pending(t) PROVE i = id \/ i \in Pending(t)'
    <3>1. /\ i \in Id /\ i.level = level[t] /\ i.chunk = chunk[t] /\ i.slot >= slot[t]
      BY <2>5 DEF Pending
    <3>2. slot[t] \in Nat /\ i.slot \in Nat /\ i.slot < Capacity(level[t])
      BY <3>1, IdFields DEF IInv, TypeOK
    <3>3. CASE i.slot = slot[t]
      BY <3>1, <3>3 DEF Id, id
    <3>4. CASE i.slot # slot[t]
      <4>1. slot[t] + 1 <= i.slot
        BY <3>1, <3>2, <3>4
      <4>2. level[t] \in Level /\ Capacity(level[t]) \in Nat
        BY CapacityPositive DEF IInv, TypeOK
      <4>3. MoreNodes(t)
        BY <3>2, <4>1, <4>2 DEF MoreNodes
      <4>4. slot'[t] = slot[t] + 1 /\ pc' = pc
        BY <2>3, <4>3 DEF IInv, TypeOK
      <4>. QED  BY <2>3, <3>1, <4>1, <4>4 DEF Pending
    <3>. QED  BY <3>3, <3>4
  <2>. QED  BY <2>2, <2>4, <2>5 DEF Known
<1>7. ASSUME NEW t \in Client, AllocRetry(t) PROVE i \in Known'
  <2>1. /\ pc[t] = "retry" /\ UNCHANGED bankVars
        /\ \A u \in Client \ {t} : /\ pc'[u] = pc[u] /\ level'[u] = level[u]
                                   /\ chunk'[u] = chunk[u] /\ slot'[u] = slot[u]
    BY <1>7 DEF AllocRetry, Return, GoTo, IInv, TypeOK
  <2>2. CASE TakeHead(t, level[t])
    <3>1. level[t] \in Level
      BY DEF IInv, TypeOK
    <3>. QED  BY <1>2, <2>1, <2>2, <3>1, TakeHeadRemoves DEF Adding
  <2>3. CASE UNCHANGED <<queueVars, held>>
    <3>1. InUse' = InUse
      BY <2>3 DEF InUse, Taken, Queued, queueVars
    <3>. QED  BY <1>2, <2>1, <3>1 DEF Adding
  <2>. QED  BY <1>7, <2>2, <2>3 DEF AllocRetry
<1>8. ASSUME NEW t \in Client, NEW id \in held[t], FreeNode(t, id) PROVE i \in Known'
  <2>1. Adds(id) /\ held' = [held EXCEPT ![t] = @ \ {id}]
    BY <1>8, FreeNodeAdds
  <2>2. \A j \in Queued \cup {id} : j \in Queued'
    BY <2>1, InUseMembers, InUseMembersNext, IdFields DEF Adds, IInv, TypeOK
  <2>3. \A j \in Taken : j = id \/ j \in Taken'
    BY <2>1, InUseMembers, InUseMembersNext DEF IInv, TypeOK
  <2>4. UNCHANGED <<pc, level, chunk, slot>>
    BY <1>8 DEF FreeNode, threadVars
  <2>. QED  BY <1>1, <2>2, <2>3, <2>4 DEF InUse
<1>9. CASE UNCHANGED vars \/ \E t \in Client : \E id \in held[t] : WriteElement(t, id)
  <2>1. UNCHANGED <<pc, level, chunk, slot, held, free>>
    BY <1>9 DEF WriteElement, vars, threadVars, queueVars
  <2>. QED  BY <1>1, <2>1 DEF InUse, Taken, Queued
<1>. QED
  BY <1>3, <1>4, <1>5, <1>6, <1>7, <1>8, <1>9 DEF Next, AllocStep

LEMMA LeaksNext ==
  ASSUME IInv, ~ MallocMayFail, NoElementLeaks, [Next]_vars
  PROVE  NoElementLeaks'
<1>1. ASSUME NEW c \in live
      PROVE  \E l \in Level : \A k \in 0 .. Capacity(l) - 1 :
               [level |-> l, chunk |-> c, slot |-> k] \in Known'
  BY KnownStays DEF NoElementLeaks, Known, InUse
<1>2. ASSUME NEW t \in Client, NEW c \in Chunk, NewChunk(t, c)
      PROVE  \A k \in 0 .. Capacity(level[t]) - 1 :
               [level |-> level[t], chunk |-> c, slot |-> k] \in Known'
  <2> TAKE k \in 0 .. Capacity(level[t]) - 1
  <2> DEFINE i == [level |-> level[t], chunk |-> c, slot |-> k]
  <2>1. level[t] \in Level /\ slot[t] = 0
    BY <1>2 DEF NewChunk, IInv, TypeOK, ThreadInv
  <2>2. k \in 0 .. ChunkSize - 1 /\ k < Capacity(level[t]) /\ k >= 0
    BY <2>1, CapacityPositive, SizeAssumption
  <2>3. i \in Id
    BY <2>1, <2>2 DEF Id
  <2>4. pc'[t] = "add" /\ level'[t] = level[t] /\ chunk'[t] = c /\ slot'[t] = 0
    BY <1>2, <2>1 DEF NewChunk, IInv, TypeOK
  <2>5. i \in Pending(t)'
    BY <2>2, <2>3, <2>4 DEF Pending
  <2>. QED  BY <2>5 DEF Known
<1>3. live' = live \/ \E t \in Client, c \in Chunk : NewChunk(t, c)
  <2>1. ASSUME NEW t \in Client, ~ CreateChunk(t),
               (\E l \in Level : AllocFirst(t, l)) \/ AllocStep(t)
                 \/ \E id \in held[t] : FreeNode(t, id) \/ WriteElement(t, id)
        PROVE  live' = live
    BY <2>1 DEF AllocStep, AllocFirst, CreateChunkRefused, AddNewChunkLock, AddNewChunkStep,
                AllocRetry, FreeNode, WriteElement, bankVars
  <2>2. CASE UNCHANGED vars
    BY <2>2 DEF vars, bankVars
  <2>. QED  BY <2>1, <2>2, CreateChunkAdds DEF Next
<1>4. ASSUME NEW c \in live'
      PROVE  \E l \in Level : \A k \in 0 .. Capacity(l) - 1 :
               [level |-> l, chunk |-> c, slot |-> k] \in Known'
  <2>1. CASE c \in live
    BY <1>1, <2>1
  <2>2. CASE c \notin live
    <3>1. PICK t \in Client, d \in Chunk : NewChunk(t, d)
      BY <1>3, <2>2
    <3>2. d = c /\ level[t] \in Level
      BY <2>2, <3>1 DEF NewChunk, IInv, TypeOK
    <3>. QED  BY <1>2, <3>1, <3>2
  <2>. QED  BY <2>1, <2>2
<1>. QED  BY <1>4 DEF NoElementLeaks, Known, InUse

\* Every node of a chunk is queued, held, or about to be queued by the thread
\* that made the chunk, for any sizes, threads and limits.
THEOREM NothingLeaks ==
  ASSUME ~ MallocMayFail
  PROVE  Spec => []NoElementLeaks
<1>1. Init => NoElementLeaks
  BY DEF Init, NoElementLeaks
<1>2. IInv /\ NoElementLeaks /\ [Next]_vars => NoElementLeaks'
  BY LeaksNext
<1>. QED  BY <1>1, <1>2, PoolInvariant, PTL DEF Spec

-----------------------------------------------------------------------------
(* The counters.                                                           *)

\* The queued elements of store l that lie in chunk c.
QueuedOf(l, c) == {i \in free[l] : i.chunk = c}

\* No queue holds more elements of a chunk than 32 bits count, because they
\* lie apart in the chunk.
LEMMA ChunkFits ==
  ASSUME NEW l \in Level, NEW c \in Chunk,
         NEW S \in SUBSET Id, \A i \in S : i.level = l /\ i.chunk = c
  PROVE  IsFiniteSet(S) /\ Cardinality(S) \in Nat /\ Cardinality(S) <= ChunkSize
<1> DEFINE f == [i \in S |-> i.slot]
           T == 0 .. ChunkSize - 1
<1>1. \A i, j \in S : i.slot = j.slot => i = j
  BY DEF Id
<1>2. f \in [S -> T]
  BY IdFields
<1>3. f \in Injection(S, T)
  BY <1>1, <1>2 DEF Injection, IsInjective
<1>4. ChunkSize \in Nat /\ ChunkSize > 0
  BY SizeAssumption
<1>5. IsFiniteSet(T) /\ Cardinality(T) = ChunkSize
  BY <1>4, FS_Interval
<1>6. IsFiniteSet(S) /\ Cardinality(S) <= Cardinality(T)
  BY <1>3, <1>5, FS_Injection
<1>. QED  BY <1>5, <1>6, FS_CardinalityType

\* The queues are finite, since a chunk is.
CountInv ==
  /\ \A l \in Level :
       /\ IsFiniteSet(free[l])
       /\ elements[l] = Cardinality(free[l])
       /\ \A c \in Chunk : usage[l][c] = Cardinality(QueuedOf(l, c))
  /\ IsFiniteSet(live) /\ using = Cardinality(live) /\ using <= Limit

LEMMA AddsCounted ==
  ASSUME IInv, IInv', CountInv, NEW id, Adds(id), UNCHANGED bankVars
  PROVE  CountInv'
<1> DEFINE q == id.level
           d == id.chunk
<1>1. /\ id \in Id /\ q \in Level /\ d \in Chunk /\ id \notin free[q]
      /\ free' = [free EXCEPT ![q] = @ \cup {id}]
      /\ elements' = [elements EXCEPT ![q] = @ + 1]
      /\ usage' = [usage EXCEPT ![q][d] = Inc(@)]
  BY IdFields, InUseMembers DEF Adds, CountElement
<1>2. /\ free \in [Level -> SUBSET Id] /\ elements \in [Level -> Int]
      /\ usage \in [Level -> [Chunk -> 0 .. CounterRange - 1]]
  BY DEF IInv, TypeOK
<1>. HIDE DEF q, d
<1>3. ASSUME NEW l \in Level
      PROVE  IsFiniteSet(free'[l]) /\ elements'[l] = Cardinality(free'[l])
  <2>1. IsFiniteSet(free[l]) /\ elements[l] = Cardinality(free[l])
    BY DEF CountInv
  <2>2. CASE l = q
    <3>1. free'[l] = free[l] \cup {id} /\ id \notin free[l] /\ elements'[l] = elements[l] + 1
      BY <1>1, <1>2, <2>2
    <3>. QED  BY <2>1, <3>1, FS_AddElement
  <2>3. CASE l # q
    BY <1>1, <1>2, <2>1, <2>3
  <2>. QED  BY <2>2, <2>3
<1>4. ASSUME NEW l \in Level, NEW c \in Chunk
      PROVE  usage'[l][c] = Cardinality(QueuedOf(l, c)')
  <2>1. usage[l][c] = Cardinality(QueuedOf(l, c))
    BY DEF CountInv
  <2>2. CASE l = q /\ c = d
    <3>1. /\ QueuedOf(l, c)' = QueuedOf(l, c) \cup {id} /\ id \notin QueuedOf(l, c)
          /\ usage'[l][c] = Inc(usage[l][c])
      BY <1>1, <1>2, <2>2 DEF QueuedOf, d
    <3>2. /\ QueuedOf(l, c) \in SUBSET Id /\ QueuedOf(l, c)' \in SUBSET Id
          /\ \A i \in QueuedOf(l, c) : i.level = l /\ i.chunk = c
          /\ \A i \in QueuedOf(l, c)' : i.level = l /\ i.chunk = c
      BY DEF QueuedOf, IInv, TypeOK, OwnersInv
    <3>3. IsFiniteSet(QueuedOf(l, c)) /\ Cardinality(QueuedOf(l, c)) \in Nat
      BY <3>2, ChunkFits
    <3>4. Cardinality(QueuedOf(l, c)') <= ChunkSize
      BY <3>2, ChunkFits
    <3>5. Cardinality(QueuedOf(l, c)') = Cardinality(QueuedOf(l, c)) + 1
      BY <3>1, <3>3, FS_AddElement
    <3>6. Inc(usage[l][c]) = usage[l][c] + 1
      BY <2>1, <3>3, <3>4, <3>5, CounterAssumption, SizeAssumption DEF Inc
    <3>. QED  BY <2>1, <3>1, <3>5, <3>6
  <2>3. CASE ~ (l = q /\ c = d)
    <3>1. QueuedOf(l, c)' = QueuedOf(l, c) /\ usage'[l][c] = usage[l][c]
      BY <1>1, <1>2, <2>3 DEF QueuedOf, d
    <3>. QED  BY <2>1, <3>1
  <2>. QED  BY <2>2, <2>3
<1>5. live' = live /\ using' = using
  BY DEF bankVars
<1>. QED  BY <1>3, <1>4, <1>5 DEF CountInv

LEMMA RemovesCounted ==
  ASSUME IInv, CountInv, NEW q \in Level, Removes(q), UNCHANGED bankVars
  PROVE  CountInv'
<1> DEFINE h == head[q]
           d == h.chunk
<1>1. /\ h \in free[q] /\ free' = [free EXCEPT ![q] = @ \ {h}]
      /\ elements' = [elements EXCEPT ![q] = @ - 1]
      /\ usage' = [usage EXCEPT ![q][d] = Dec(@)]
  BY DEF Removes
<1>2. /\ free \in [Level -> SUBSET Id] /\ elements \in [Level -> Int]
      /\ usage \in [Level -> [Chunk -> 0 .. CounterRange - 1]]
  BY DEF IInv, TypeOK
<1>3. h \in Id /\ d \in Chunk
  BY <1>1, <1>2, IdFields
<1>. HIDE DEF h, d
<1>4. ASSUME NEW l \in Level
      PROVE  IsFiniteSet(free'[l]) /\ elements'[l] = Cardinality(free'[l])
  <2>1. IsFiniteSet(free[l]) /\ elements[l] = Cardinality(free[l])
    BY DEF CountInv
  <2>2. CASE l = q
    <3>1. free'[l] = free[l] \ {h} /\ h \in free[l] /\ elements'[l] = elements[l] - 1
      BY <1>1, <1>2, <2>2
    <3>. QED  BY <2>1, <3>1, FS_RemoveElement
  <2>3. CASE l # q
    BY <1>1, <1>2, <2>1, <2>3
  <2>. QED  BY <2>2, <2>3
<1>5. ASSUME NEW l \in Level, NEW c \in Chunk
      PROVE  usage'[l][c] = Cardinality(QueuedOf(l, c)')
  <2>1. usage[l][c] = Cardinality(QueuedOf(l, c))
    BY DEF CountInv
  <2>2. CASE l = q /\ c = d
    <3>1. /\ QueuedOf(l, c)' = QueuedOf(l, c) \ {h} /\ h \in QueuedOf(l, c)
          /\ usage'[l][c] = Dec(usage[l][c])
      BY <1>1, <1>2, <2>2 DEF QueuedOf, d
    <3>2. /\ QueuedOf(l, c) \in SUBSET Id
          /\ \A i \in QueuedOf(l, c) : i.level = l /\ i.chunk = c
      BY DEF QueuedOf, IInv, TypeOK, OwnersInv
    <3>3. IsFiniteSet(QueuedOf(l, c)) /\ Cardinality(QueuedOf(l, c)) \in Nat
      BY <3>2, ChunkFits
    <3>4. Cardinality(QueuedOf(l, c)') = Cardinality(QueuedOf(l, c)) - 1
      BY <3>1, <3>3, FS_RemoveElement
    <3>5. Cardinality(QueuedOf(l, c)) # 0
      BY <3>1, <3>3, FS_EmptySet
    <3>. QED  BY <2>1, <3>1, <3>4, <3>5 DEF Dec
  <2>3. CASE ~ (l = q /\ c = d)
    <3>1. QueuedOf(l, c)' = QueuedOf(l, c) /\ usage'[l][c] = usage[l][c]
      BY <1>1, <1>2, <2>3 DEF QueuedOf, d
    <3>. QED  BY <2>1, <3>1
  <2>. QED  BY <2>2, <2>3
<1>6. live' = live /\ using' = using
  BY DEF bankVars
<1>. QED  BY <1>4, <1>5, <1>6 DEF CountInv

LEMMA NewChunkCounted ==
  ASSUME CountInv, NEW t \in Client, NEW c \in Chunk, NewChunk(t, c)
  PROVE  CountInv'
<1>1. /\ c \notin live /\ live' = live \cup {c} /\ using' = using + 1 /\ using < Limit
      /\ UNCHANGED <<free, elements, usage>>
  BY DEF NewChunk, BudgetLeft, queueVars
<1>2. IsFiniteSet(live') /\ using' = Cardinality(live')
  BY <1>1, FS_AddElement DEF CountInv
<1>3. Cardinality(live) \in Nat /\ Limit \in Nat
  BY FS_CardinalityType, SizeAssumption DEF CountInv, Limit
<1>4. using' <= Limit
  BY <1>1, <1>3 DEF CountInv
<1>. QED  BY <1>1, <1>2, <1>4 DEF CountInv, QueuedOf

LEMMA CountNext ==
  ASSUME IInv, CountInv, ~ MallocMayFail, [Next]_vars
  PROVE  CountInv'
<1>1. ASSUME UNCHANGED <<free, elements, usage, live, using>> PROVE CountInv'
  BY <1>1 DEF CountInv, QueuedOf
<1>2. ASSUME NEW t \in Client, NEW l \in Level, AllocFirst(t, l) PROVE CountInv'
  <2>1. UNCHANGED bankVars
    BY <1>2 DEF AllocFirst
  <2>2. CASE TakeHead(t, l)
    BY <2>1, <2>2, TakeHeadRemoves, RemovesCounted
  <2>3. CASE ~ TakeHead(t, l)
    BY <1>1, <1>2, <2>1, <2>3 DEF AllocFirst, queueVars, bankVars
  <2>. QED  BY <2>2, <2>3
<1>3. ASSUME NEW t \in Client, AllocRetry(t) PROVE CountInv'
  <2>1. UNCHANGED bankVars /\ level[t] \in Level
    BY <1>3 DEF AllocRetry, IInv, TypeOK
  <2>2. CASE TakeHead(t, level[t])
    BY <2>1, <2>2, TakeHeadRemoves, RemovesCounted
  <2>3. CASE ~ TakeHead(t, level[t])
    BY <1>1, <1>3, <2>1, <2>3 DEF AllocRetry, queueVars, bankVars
  <2>. QED  BY <2>2, <2>3
<1>4. ASSUME NEW t \in Client, CreateChunk(t) PROVE CountInv'
  BY <1>4, CreateChunkAdds, NewChunkCounted
<1>5. ASSUME NEW t \in Client, AddNewChunkStep(t) PROVE CountInv'
  <2> DEFINE id == [level |-> level[t], chunk |-> chunk[t], slot |-> slot[t]]
  <2>1. Adds(id) /\ UNCHANGED bankVars
    BY <1>5, AddNewChunkAdds
  <2>2. IInv'
    BY NextInv
  <2>. HIDE DEF id
  <2>. QED  BY <2>1, <2>2, AddsCounted
<1>6. ASSUME NEW t \in Client, NEW id \in held[t], FreeNode(t, id) PROVE CountInv'
  BY <1>6, FreeNodeAdds, AddsCounted, NextInv
<1>7. ASSUME NEW t \in Client,
             \/ CreateChunkRefused(t) \/ AddNewChunkLock(t)
             \/ \E id \in held[t] : WriteElement(t, id)
      PROVE  CountInv'
  BY <1>1, <1>7 DEF CreateChunkRefused, AddNewChunkLock, WriteElement, queueVars, bankVars
<1>8. CASE UNCHANGED vars
  BY <1>1, <1>8 DEF vars, queueVars, bankVars
<1>. QED  BY <1>2, <1>3, <1>4, <1>5, <1>6, <1>7, <1>8 DEF Next, AllocStep

LEMMA CountInit == Init => CountInv
<1>1. Limit \in Nat
  BY SizeAssumption DEF Limit
<1>. QED  BY <1>1, FS_EmptySet DEF Init, CountInv, QueuedOf

\* The counters of stores and bank are exact, for any sizes and threads, and
\* the bank never has more chunks than the limit it was made with.
THEOREM CountersAreExact ==
  ASSUME ~ MallocMayFail
  PROVE  Spec => []CountersExact
<1>1. Init => CountInv
  BY CountInit
<1>2. IInv /\ CountInv /\ [Next]_vars => CountInv'
  BY CountNext
<1>3. CountInv => CountersExact
  <2>1. Limit <= Limitation
    BY SizeAssumption DEF Limit
  <2>2. CountInv => using \in Nat
    BY FS_CardinalityType DEF CountInv
  <2>3. Limit \in Nat /\ Limitation \in Nat
    BY SizeAssumption DEF Limit
  <2>. QED  BY <2>1, <2>2, <2>3 DEF CountInv, CountersExact, QueuedOf
<1>. QED  BY <1>1, <1>2, <1>3, PoolInvariant, PTL DEF Spec

-----------------------------------------------------------------------------
(* The links of a free queue reach all of its elements.                    *)

\* f numbers the elements of the queue of l from the head to the tail.
Ranks(l, f) ==
  /\ f[head[l]] = 0 /\ f[tail[l]] = elements[l] - 1
  /\ \A i \in free[l] :
       /\ f[i] \in 0 .. elements[l] - 1
       /\ f[i] = 0 => i = head[l]
       /\ f[i] > 0 => \E j \in free[l] : f[j] = f[i] - 1 /\ mem[NodeCell(j)] = i
       /\ mem[NodeCell(i)] = MP_NULL => i = tail[l]

\* LinksInv allows for a ring of links beside the queue; ranks do not.
Ordered(l) ==
  /\ head[l] = MP_NULL => free[l] = {} /\ elements[l] = 0
  /\ head[l] # MP_NULL => \E f : Ranks(l, f)

OrderInv == \A l \in Level : Ordered(l)

LEMMA OrderStays ==
  ASSUME NEW l \in Level, Ordered(l), head'[l] = head[l], tail'[l] = tail[l], free'[l] = free[l],
         elements'[l] = elements[l], \A i \in free[l] : mem'[NodeCell(i)] = mem[NodeCell(i)]
  PROVE  Ordered(l)'
<1>1. ASSUME head[l] # MP_NULL PROVE \E f : Ranks(l, f)'
  <2>1. PICK f : Ranks(l, f)
    BY <1>1 DEF Ordered
  <2>2. Ranks(l, f)'
    BY <2>1 DEF Ranks
  <2>. QED  BY <2>2
<1>. QED  BY <1>1 DEF Ordered

\* Without its head the queue is numbered from the next element on.
LEMMA TakeKeepsOrder ==
  ASSUME IInv, OrderInv, NEW t \in Client, NEW l \in Level, TakeHead(t, l), UNCHANGED bankVars
  PROVE  OrderInv'
<1> DEFINE h == head[l]
           n == mem[NodeCell(h)]
<1>1. /\ h # MP_NULL /\ h \in free[l] /\ HasNode(h)
      /\ \A m \in Level : free[m] \subseteq Id
  BY InUseMembers DEF TakeHead, IInv, LinksInv, OwnersInv, InUse, HasNode, TypeOK
<1>2. /\ head' = [head EXCEPT ![l] = n] /\ elements' = [elements EXCEPT ![l] = @ - 1]
      /\ free' = [free EXCEPT ![l] = @ \ {h}] /\ UNCHANGED <<tail, mem>>
  BY <1>1 DEF TakeHead, NextHead
<1>3. ASSUME NEW m \in Level, m # l PROVE Ordered(m)'
  BY <1>2, <1>3, OrderStays DEF IInv, TypeOK, OrderInv
<1>4. /\ head'[l] = n /\ elements'[l] = elements[l] - 1 /\ free'[l] = free[l] \ {h}
      /\ elements[l] \in Int
  BY <1>2 DEF IInv, TypeOK
<1>5. PICK f : Ranks(l, f)
  BY <1>1 DEF OrderInv, Ordered
<1>. HIDE DEF h, n
<1>6. f[h] = 0 /\ \A i \in free[l] : f[i] \in 0 .. elements[l] - 1 /\ (f[i] = 0 => i = h)
  BY <1>5 DEF Ranks, h
<1>7. CASE n = MP_NULL
  <2>1. h = tail[l]
    BY <1>1, <1>5, <1>7 DEF Ranks, n
  <2>2. elements[l] = 1
    BY <1>4, <1>5, <1>6, <2>1 DEF Ranks
  <2>3. \A i \in free[l] : f[i] = 0
    BY <1>6, <2>2
  <2>4. free'[l] = {} /\ elements'[l] = 0
    BY <1>4, <1>6, <2>2, <2>3
  <2>5. Ordered(l)'
    BY <1>4, <1>7, <2>4 DEF Ordered
  <2>. QED  BY <1>3, <2>5 DEF OrderInv
<1>8. CASE n # MP_NULL
  <2> DEFINE g == [i \in Id |-> f[i] - 1]
  <2>1. n \in free[l] \ {h}
    BY <1>1, <1>8 DEF IInv, LinksInv, h, n
  <2>2. ASSUME NEW i \in free[l] \ {h} PROVE g[i] = f[i] - 1 /\ f[i] \in Nat /\ f[i] > 0
    BY <1>1, <1>6
  <2>3. ASSUME NEW i \in free[l] \ {h}
        PROVE  \E j \in free[l] : f[j] = f[i] - 1 /\ mem[NodeCell(j)] = i
    BY <1>5, <2>2 DEF Ranks
  <2>4. ASSUME NEW i \in free[l] \ {h}, f[i] = 1 PROVE i = n
    <3>1. PICK j \in free[l] : f[j] = 0 /\ mem[NodeCell(j)] = i
      BY <2>3, <2>4
    <3>. QED  BY <1>6, <3>1 DEF n
  <2>5. f[n] = 1
    <3>1. PICK j \in free[l] : f[j] = f[n] - 1 /\ mem[NodeCell(j)] = n
      BY <2>1, <2>3
    <3>2. j = h
      BY <1>1, <1>8, <3>1 DEF IInv, LinksInv, n
    <3>3. f[n] \in Nat
      BY <2>1, <2>2
    <3>. QED  BY <1>6, <3>1, <3>2, <3>3
  <2>6. tail[l] \in free[l] \ {h}
    <3>1. tail[l] \in free[l] /\ mem[NodeCell(tail[l])] = MP_NULL
      BY <1>1 DEF IInv, LinksInv, h
    <3>. QED  BY <1>8, <3>1 DEF n
  <2>. HIDE DEF g
  <2>7. g[n] = 0
    BY <2>1, <2>2, <2>5
  <2>8. ASSUME NEW i \in free[l] \ {h}
        PROVE  /\ g[i] \in 0 .. elements[l] - 2
               /\ g[i] = 0 => i = n
               /\ g[i] > 0 => \E j \in free[l] \ {h} : g[j] = g[i] - 1 /\ mem[NodeCell(j)] = i
               /\ mem[NodeCell(i)] = MP_NULL => i = tail[l]
    <3>1. f[i] \in 0 .. elements[l] - 1 /\ f[i] > 0 /\ g[i] = f[i] - 1
      BY <1>6, <2>2
    <3>2. g[i] \in 0 .. elements[l] - 2
      BY <1>4, <3>1
    <3>3. g[i] = 0 => i = n
      BY <2>4, <3>1
    <3>4. ASSUME g[i] > 0
          PROVE  \E j \in free[l] \ {h} : g[j] = g[i] - 1 /\ mem[NodeCell(j)] = i
      <4>1. PICK j \in free[l] : f[j] = f[i] - 1 /\ mem[NodeCell(j)] = i
        BY <2>3
      <4>2. j # h
        BY <1>6, <3>1, <3>4, <4>1
      <4>3. g[j] = f[j] - 1
        BY <2>2, <4>2
      <4>4. g[j] = g[i] - 1
        BY <3>1, <4>1, <4>3
      <4>. QED  BY <4>1, <4>2, <4>4
    <3>5. mem[NodeCell(i)] = MP_NULL => i = tail[l]
      BY <1>5 DEF Ranks
    <3>. QED  BY <3>2, <3>3, <3>4, <3>5
  <2>9. elements'[l] - 1 = elements[l] - 2
    BY <1>4
  <2>10. g[tail[l]] = elements[l] - 2
    <3>1. f[tail[l]] = elements[l] - 1
      BY <1>5 DEF Ranks
    <3>. QED  BY <1>4, <2>2, <2>6, <3>1
  <2>11. Ranks(l, g)'
    BY <1>2, <1>4, <2>7, <2>8, <2>9, <2>10 DEF Ranks
  <2>12. Ordered(l)'
    BY <1>4, <1>8, <2>11 DEF Ordered
  <2>. QED  BY <1>3, <2>12 DEF OrderInv
<1>. QED  BY <1>7, <1>8

\* An added element is numbered after the tail.
LEMMA AddKeepsOrder ==
  ASSUME IInv, OrderInv, NEW id \in Id, HasNode(id), id \notin Queued, AddElement(id),
         \A i \in Queued : NodeCell(i) # NodeCell(id)
  PROVE  OrderInv'
<1> DEFINE q == id.level
<1>1. q \in Level /\ CountElement(id) /\ elements[q] \in Int
  BY IdFields, AddElementLinks DEF IInv, TypeOK
<1>2. /\ free' = [free EXCEPT ![q] = @ \cup {id}] /\ tail' = [tail EXCEPT ![q] = id]
      /\ elements' = [elements EXCEPT ![q] = @ + 1]
  BY <1>1 DEF CountElement
<1>3. \A l \in Level : \A i \in free[l] :
        /\ i \in Id /\ i \in InUse /\ i # id /\ NodeCell(i) # NodeCell(id) /\ NodeCell(i) \in Cell
        /\ i # MP_NULL /\ HasNode(i)
  BY InUseMembers, ElementInChunk, NullAssumption DEF IInv, TypeOK, OwnersInv, InUse, HasNode
<1>4. NodeCell(id) \in Cell /\ mem \in [Cell -> Value] /\ head \in [Level -> Id \cup {MP_NULL}]
      /\ id # MP_NULL
  BY ElementInChunk, NullAssumption DEF IInv, TypeOK
<1>5. /\ free'[q] = free[q] \cup {id} /\ tail'[q] = id /\ elements'[q] = elements[q] + 1
      /\ \A l \in Level \ {q} :
           free'[l] = free[l] /\ tail'[l] = tail[l] /\ elements'[l] = elements[l]
  BY <1>1, <1>2 DEF IInv, TypeOK
<1>6. CASE head[q] = MP_NULL
  <2>1. mem' = [mem EXCEPT ![NodeCell(id)] = MP_NULL] /\ head' = [head EXCEPT ![q] = id]
    BY <1>6 DEF AddElement, QueueEmpty
  <2>2. ASSUME NEW l \in Level \ {q} PROVE Ordered(l)'
    <3>1. head'[l] = head[l] /\ \A i \in free[l] : mem'[NodeCell(i)] = mem[NodeCell(i)]
      BY <1>3, <1>4, <2>1
    <3>. QED  BY <1>5, <3>1, OrderStays DEF OrderInv
  <2>3. Ordered(q)'
    <3> DEFINE g == [i \in Id |-> 0]
    <3>1. free'[q] = {id} /\ head'[q] = id
      BY <1>1, <1>4, <1>5, <1>6, <2>1 DEF OrderInv, Ordered
    <3>2. elements'[q] = 1
      BY <1>1, <1>5, <1>6 DEF OrderInv, Ordered
    <3>3. 0 \in 0 .. elements'[q] - 1
      BY <3>2
    <3>4. Ranks(q, g)'
      BY <1>5, <3>1, <3>2, <3>3 DEF Ranks
    <3>. QED  BY <1>4, <3>1, <3>4 DEF Ordered
  <2>. QED  BY <2>2, <2>3 DEF OrderInv
<1>7. CASE head[q] # MP_NULL
  <2> DEFINE z == tail[q]
  <2>1. z \in free[q] /\ mem[NodeCell(z)] = MP_NULL
    BY <1>1, <1>7 DEF IInv, LinksInv
  <2>2. /\ mem' = [mem EXCEPT ![NodeCell(id)] = MP_NULL, ![NodeCell(z)] = id] /\ head' = head
    <3>1. HasNode(z)
      BY <1>1, <1>3, <2>1
    <3>. QED  BY <1>7, <3>1 DEF AddElement, QueueEmpty
  <2>3. \A l \in Level : \A i \in free[l] : i # z => NodeCell(i) # NodeCell(z)
    BY <1>1, <1>3, <2>1, InUseDisjoint DEF IInv
  <2>. HIDE DEF z
  <2>4. \A l \in Level : \A i \in free[l] : i # z => mem'[NodeCell(i)] = mem[NodeCell(i)]
    BY <1>3, <1>4, <2>2, <2>3
  <2>5. mem'[NodeCell(z)] = id /\ mem'[NodeCell(id)] = MP_NULL
    BY <1>1, <1>3, <1>4, <2>1, <2>2
  <2>6. ASSUME NEW l \in Level \ {q} PROVE Ordered(l)'
    <3>1. z \notin free[l]
      BY <1>1, <2>1, <2>6 DEF IInv, OwnersInv
    <3>. QED  BY <1>5, <2>2, <2>4, <3>1, OrderStays DEF OrderInv
  <2>7. Ordered(q)'
    <3>1. PICK f : Ranks(q, f)
      BY <1>1, <1>7 DEF OrderInv, Ordered
    <3>2. PICK g : g[id] = elements[q] /\ \A i \in free[q] : g[i] = f[i]
      <4> DEFINE g == [i \in Id |-> IF i = id THEN elements[q] ELSE f[i]]
      <4>1. g[id] = elements[q] /\ \A i \in free[q] : g[i] = f[i]
        BY <1>1, <1>3
      <4>. QED  BY <4>1
    <3>3. head[q] \in free[q]
      BY <1>1, <1>7 DEF IInv, LinksInv
    <3>4. elements[q] \in Nat \ {0}
      BY <1>1, <3>1, <3>3 DEF Ranks
    <3>5. ASSUME NEW i \in free[q]
          PROVE  /\ g[i] \in 0 .. elements[q]
                 /\ g[i] = 0 => i = head[q]
                 /\ g[i] > 0 => \E j \in free[q] : g[j] = g[i] - 1 /\ mem'[NodeCell(j)] = i
                 /\ mem'[NodeCell(i)] # MP_NULL
      <4>1. f[i] \in 0 .. elements[q] /\ f[i] = 0 => i = head[q]
        BY <3>1, <3>4 DEF Ranks
      <4>2. ASSUME f[i] > 0
            PROVE  \E j \in free[q] : f[j] = f[i] - 1 /\ mem'[NodeCell(j)] = i
        <5>1. PICK j \in free[q] : f[j] = f[i] - 1 /\ mem[NodeCell(j)] = i
          BY <3>1, <4>2 DEF Ranks
        <5>2. j # z
          BY <1>1, <1>3, <2>1, <5>1
        <5>. QED  BY <1>1, <2>4, <5>1, <5>2
      <4>3. mem'[NodeCell(i)] # MP_NULL
        BY <1>1, <1>4, <2>4, <2>5, <3>1 DEF Ranks, z
      <4>4. f[i] \in 0 .. elements[q]
        BY <3>1, <3>4 DEF Ranks
      <4>. QED  BY <3>2, <4>1, <4>2, <4>3, <4>4
    <3>6. g[z] = elements[q] - 1
      BY <2>1, <3>1, <3>2 DEF Ranks, z
    <3>7. g[head[q]] = 0
      BY <3>1, <3>2, <3>3 DEF Ranks
    <3>8. elements'[q] - 1 = elements[q]
      BY <1>5, <3>4
    <3>9. ASSUME NEW i \in free'[q]
          PROVE  /\ g[i] \in 0 .. elements[q]
                 /\ g[i] = 0 => i = head[q]
                 /\ g[i] > 0 => \E j \in free'[q] : g[j] = g[i] - 1 /\ mem'[NodeCell(j)] = i
                 /\ mem'[NodeCell(i)] = MP_NULL => i = id
      <4>1. CASE i = id
        BY <1>5, <2>1, <2>5, <3>2, <3>4, <3>6, <4>1
      <4>2. CASE i \in free[q]
        BY <1>5, <3>5, <4>2
      <4>. QED  BY <1>5, <4>1, <4>2
    <3>10. Ranks(q, g)'
      <4>1. /\ g[head'[q]] = 0 /\ g[tail'[q]] = elements'[q] - 1
            /\ \A i \in free'[q] : g[i] \in 0 .. elements'[q] - 1
        BY <1>5, <2>2, <3>2, <3>7, <3>8, <3>9
      <4>2. \A i \in free'[q] : g[i] = 0 => i = head'[q]
        BY <2>2, <3>9
      <4>3. \A i \in free'[q] : mem'[NodeCell(i)] = MP_NULL => i = tail'[q]
        BY <1>5, <3>9
      <4>4. \A i \in free'[q] :
              g[i] > 0 => \E j \in free'[q] : g[j] = g[i] - 1 /\ mem'[NodeCell(j)] = i
        BY <3>9
      <4>. QED  BY <4>1, <4>2, <4>3, <4>4 DEF Ranks
    <3>. QED  BY <1>7, <2>2, <3>10 DEF Ordered
  <2>. QED  BY <2>6, <2>7 DEF OrderInv
<1>. QED  BY <1>6, <1>7

LEMMA OrderNext ==
  ASSUME IInv, OrderInv, ~ MallocMayFail, [Next]_vars
  PROVE  OrderInv'
<1>1. ASSUME UNCHANGED <<head, tail, elements, free, mem>> PROVE OrderInv'
  BY <1>1, OrderStays DEF OrderInv
<1>2. ASSUME NEW t \in Client, NEW l \in Level, AllocFirst(t, l) PROVE OrderInv'
  BY <1>1, <1>2, TakeKeepsOrder DEF AllocFirst, queueVars
<1>3. ASSUME NEW t \in Client, AllocRetry(t) PROVE OrderInv'
  <2>1. level[t] \in Level /\ UNCHANGED bankVars
    BY <1>3 DEF AllocRetry, IInv, TypeOK
  <2>. QED  BY <1>1, <1>3, <2>1, TakeKeepsOrder DEF AllocRetry, queueVars
<1>4. ASSUME NEW t \in Client, AddNewChunkStep(t) PROVE OrderInv'
  <2> DEFINE id == [level |-> level[t], chunk |-> chunk[t], slot |-> slot[t]]
  <2>1. id \in Id /\ HasNode(id) /\ AddElement(id) /\ id \notin Queued
    BY <1>4, NextNodeIsNew DEF InUse
  <2>2. \A i \in Queued : NodeCell(i) # NodeCell(id)
    <3> SUFFICES ASSUME NEW i \in Queued PROVE NodeCell(i) # NodeCell(id)
      OBVIOUS
    <3>1. i \in InUse /\ i \in Id
      BY InUseIds DEF InUse, IInv
    <3>2. Cells(i) \cap Cells(id) = {}
      BY <1>4, <3>1, NextNodeIsNew
    <3>. QED  BY <2>1, <3>1, <3>2, ElementInChunk
  <2>3. PICK new : new = id
    OBVIOUS
  <2>. HIDE DEF id
  <2>. QED  BY <2>1, <2>2, <2>3, AddKeepsOrder
<1>5. ASSUME NEW t \in Client, NEW id \in held[t], FreeNode(t, id) PROVE OrderInv'
  <2>1. id \in InUse /\ id \in Id /\ HasNode(id) /\ id \notin Queued /\ AddElement(id)
    BY <1>5, InUseMembers, InUseIds, NullAssumption
       DEF InUse, IInv, OwnersInv, HasNode, FreeNode
  <2>2. \A i \in Queued : NodeCell(i) # NodeCell(id)
    BY <2>1, InUseDisjoint DEF IInv, InUse
  <2>. QED  BY <2>1, <2>2, AddKeepsOrder
<1>6. ASSUME NEW t \in Client, NEW id \in held[t], WriteElement(t, id) PROVE OrderInv'
  <2>1. /\ mem' = [x \in Cell |-> IF x \in Cells(id) THEN t ELSE mem[x]]
        /\ UNCHANGED <<head, tail, elements, free>>
    BY <1>6 DEF WriteElement
  <2>2. ASSUME NEW l \in Level, NEW i \in free[l] PROVE mem'[NodeCell(i)] = mem[NodeCell(i)]
    <3>1. i \in InUse /\ id \in InUse /\ i # id /\ i \in Id
      <4>1. i \in Queued /\ id \in Taken /\ i \in Id
        BY InUseMembers DEF IInv, TypeOK
      <4>. QED  BY <4>1 DEF IInv, OwnersInv, InUse
    <3>2. NodeCell(i) \in Cell /\ NodeCell(i) \notin Cells(id)
      BY <3>1, InUseDisjoint, ElementInChunk DEF IInv
    <3>. QED  BY <2>1, <3>2
  <2>. QED  BY <2>1, <2>2, OrderStays DEF OrderInv
<1>7. ASSUME NEW t \in Client, CreateChunk(t) \/ CreateChunkRefused(t) \/ AddNewChunkLock(t)
      PROVE  OrderInv'
  BY <1>1, <1>7 DEF CreateChunk, CreateChunkRefused, AddNewChunkLock, queueVars
<1>8. CASE UNCHANGED vars
  BY <1>1, <1>8 DEF vars, queueVars
<1>. QED  BY <1>2, <1>3, <1>4, <1>5, <1>6, <1>7, <1>8 DEF Next, AllocStep

\* A solution of the equation of Reached is a solution; the ranks give one.
LEMMA ReachedEquation ==
  ASSUME NEW l \in Level,
         NEW g, g = [n \in Nat |-> IF n = 0 THEN {head[l]} \ {MP_NULL}
                                   ELSE g[n - 1] \cup ({mem[NodeCell(i)] : i \in g[n - 1]} \ {MP_NULL})]
  PROVE  /\ Reached(0, l) = {head[l]} \ {MP_NULL}
         /\ \A n \in Nat : Reached(n + 1, l) =
              Reached(n, l) \cup ({mem[NodeCell(i)] : i \in Reached(n, l)} \ {MP_NULL})
<1> DEFINE Eqn(f) ==
             f = [k \in Nat |-> IF k = 0 THEN {head[l]} \ {MP_NULL}
                                ELSE f[k - 1] \cup ({mem[NodeCell(i)] : i \in f[k - 1]} \ {MP_NULL})]
           h == CHOOSE f : Eqn(f)
<1>1. \A n : Reached(n, l) = h[n]
  BY DEF Reached
<1>2. Eqn(h)
  OBVIOUS
<1>. HIDE DEF h
<1>3. \A n \in Nat : h[n] =
        IF n = 0 THEN {head[l]} \ {MP_NULL}
        ELSE h[n - 1] \cup ({mem[NodeCell(i)] : i \in h[n - 1]} \ {MP_NULL})
  BY <1>2
<1>4. ASSUME NEW n \in Nat
      PROVE  h[n + 1] = h[n] \cup ({mem[NodeCell(i)] : i \in h[n]} \ {MP_NULL})
  <2>1. n + 1 \in Nat /\ n + 1 # 0 /\ (n + 1) - 1 = n
    OBVIOUS
  <2>. QED  BY <1>3, <2>1
<1>5. h[0] = {head[l]} \ {MP_NULL}
  BY <1>3
<1>. QED  BY <1>1, <1>4, <1>5

\* After n links one has met the elements that are numbered up to n.
LEMMA RanksReach ==
  ASSUME IInv, NEW l \in Level, head[l] # MP_NULL, NEW f, Ranks(l, f), NEW n \in Nat
  PROVE  Reached(n, l) = {i \in free[l] : f[i] <= n}
<1> DEFINE g == [k \in Nat |-> {i \in free[l] : f[i] <= k}]
<1>1. head[l] \in free[l] /\ f[head[l]] = 0
  BY DEF IInv, LinksInv, Ranks
<1>2. \A i \in free[l] : f[i] \in Nat /\ (f[i] = 0 => i = head[l]) /\ i # MP_NULL
  <2>1. \A i \in free[l] : i # MP_NULL
    BY NullAssumption DEF IInv, TypeOK
  <2>. QED  BY <2>1 DEF Ranks
<1>3. ASSUME NEW i \in free[l], f[i] > 0
      PROVE  \E j \in free[l] : f[j] = f[i] - 1 /\ mem[NodeCell(j)] = i
  BY <1>3 DEF Ranks
<1>4. ASSUME NEW j \in free[l], mem[NodeCell(j)] # MP_NULL
      PROVE  mem[NodeCell(j)] \in free[l] /\ f[mem[NodeCell(j)]] = f[j] + 1
  <2>1. mem[NodeCell(j)] \in free[l] \ {head[l]}
    BY <1>4 DEF IInv, LinksInv
  <2>2. PICK k \in free[l] : f[k] = f[mem[NodeCell(j)]] - 1 /\ mem[NodeCell(k)] = mem[NodeCell(j)]
    BY <1>2, <1>3, <2>1
  <2>3. k = j
    BY <1>4, <2>2 DEF IInv, LinksInv
  <2>. QED  BY <1>2, <2>1, <2>2, <2>3
<1>5. g[0] = {head[l]} \ {MP_NULL}
  BY <1>1, <1>2
<1>6. ASSUME NEW k \in Nat, k # 0
      PROVE  g[k] = g[k - 1] \cup ({mem[NodeCell(i)] : i \in g[k - 1]} \ {MP_NULL})
  <2>1. k - 1 \in Nat
    BY <1>6
  <2>2. ASSUME NEW i \in g[k]
        PROVE  i \in g[k - 1] \/ \E j \in g[k - 1] : mem[NodeCell(j)] = i
    <3>1. i \in free[l] /\ f[i] <= k /\ f[i] \in Nat
      BY <1>2
    <3>2. CASE f[i] = k
      <4>1. PICK j \in free[l] : f[j] = f[i] - 1 /\ mem[NodeCell(j)] = i
        BY <1>3, <1>6, <3>1, <3>2
      <4>2. j \in g[k - 1]
        BY <2>1, <3>2, <4>1
      <4>. QED  BY <4>1, <4>2
    <3>3. CASE f[i] # k
      BY <2>1, <3>1, <3>3
    <3>. QED  BY <3>2, <3>3
  <2>3. ASSUME NEW j \in g[k - 1], mem[NodeCell(j)] # MP_NULL
        PROVE  mem[NodeCell(j)] \in g[k]
    <3>1. j \in free[l] /\ f[j] <= k - 1 /\ f[j] \in Nat
      BY <1>2, <2>1
    <3>2. mem[NodeCell(j)] \in free[l] /\ f[mem[NodeCell(j)]] = f[j] + 1
      BY <1>4, <2>3, <3>1
    <3>. QED  BY <3>1, <3>2
  <2>4. g[k - 1] \subseteq g[k] /\ \A i \in g[k] : i # MP_NULL
    BY <1>2, <2>1
  <2>. HIDE DEF g
  <2>. QED  BY <2>2, <2>3, <2>4
<1>. HIDE DEF g
<1>7. g = [k \in Nat |-> IF k = 0 THEN {head[l]} \ {MP_NULL}
                         ELSE g[k - 1] \cup ({mem[NodeCell(i)] : i \in g[k - 1]} \ {MP_NULL})]
  <2>1. g = [k \in Nat |-> g[k]]
    BY DEF g
  <2>. QED  BY <1>5, <1>6, <2>1
<1>8. /\ Reached(0, l) = {head[l]} \ {MP_NULL}
      /\ \A k \in Nat : Reached(k + 1, l) =
           Reached(k, l) \cup ({mem[NodeCell(i)] : i \in Reached(k, l)} \ {MP_NULL})
  BY <1>7, ReachedEquation
<1> DEFINE S == {k \in Nat : Reached(k, l) = g[k]}
<1>9. 0 \in S
  BY <1>5, <1>8
<1>10. ASSUME NEW k \in 0 .. n - 1, k \in S PROVE k + 1 \in S
  <2>1. k \in Nat /\ k + 1 \in Nat /\ k + 1 # 0 /\ (k + 1) - 1 = k
    OBVIOUS
  <2>2. g[k + 1] = g[k] \cup ({mem[NodeCell(i)] : i \in g[k]} \ {MP_NULL})
    BY <1>6, <2>1
  <2>. QED  BY <1>8, <1>10, <2>1, <2>2
<1>. HIDE DEF S
<1>11. 0 .. n \subseteq S
  BY <1>9, <1>10, InductionFromZero
<1>12. n \in S
  BY <1>11
<1>13. Reached(n, l) = g[n]
  BY <1>12 DEF S
<1>. QED  BY <1>13 DEF g

\* No element is lost behind the queue, for any number of elements: as many
\* links as there are elements reach them all, and the tail is the last.
THEOREM QueueIsComplete ==
  ASSUME ~ MallocMayFail
  PROVE  Spec => []FreeQueueComplete
<1>1. ASSUME IInv, CountInv, OrderInv, NEW l \in Level
      PROVE  /\ Reached(Cardinality(free[l]), l) = free[l]
             /\ free[l] # {} => tail[l] \in free[l] /\ mem[NodeCell(tail[l])] = MP_NULL
  <2>1. Cardinality(free[l]) = elements[l] /\ Cardinality(free[l]) \in Nat
    BY <1>1, FS_CardinalityType DEF CountInv
  <2>2. CASE head[l] = MP_NULL
    <3>1. free[l] = {} /\ elements[l] = 0
      BY <1>1, <2>2 DEF OrderInv, Ordered
    <3> DEFINE g == [n \in Nat |-> {}]
    <3>2. g = [n \in Nat |-> IF n = 0 THEN {head[l]} \ {MP_NULL}
                             ELSE g[n - 1] \cup ({mem[NodeCell(i)] : i \in g[n - 1]} \ {MP_NULL})]
      BY <2>2
    <3>. HIDE DEF g
    <3>3. Reached(0, l) = {}
      BY <2>2, <3>2, ReachedEquation
    <3>. QED  BY <2>1, <3>1, <3>3
  <2>3. CASE head[l] # MP_NULL
    <3>1. PICK f : Ranks(l, f)
      BY <1>1, <2>3 DEF OrderInv, Ordered
    <3>2. Reached(Cardinality(free[l]), l) = {i \in free[l] : f[i] <= Cardinality(free[l])}
      BY <1>1, <2>1, <2>3, <3>1, RanksReach
    <3>3. \A i \in free[l] : f[i] <= Cardinality(free[l])
      BY <2>1, <3>1 DEF Ranks
    <3>4. tail[l] \in free[l] /\ mem[NodeCell(tail[l])] = MP_NULL
      BY <1>1, <2>3 DEF IInv, LinksInv
    <3>. QED  BY <3>2, <3>3, <3>4
  <2>. QED  BY <2>2, <2>3
<1>2. IInv /\ CountInv /\ OrderInv => FreeQueueComplete
  BY <1>1 DEF FreeQueueComplete
<1>3. IInv /\ OrderInv /\ [Next]_vars => OrderInv'
  BY OrderNext
<1>4. IInv /\ CountInv /\ [Next]_vars => CountInv'
  BY CountNext
<1>5. Init => CountInv /\ OrderInv
  BY CountInit DEF Init, OrderInv, Ordered
<1>. QED  BY <1>2, <1>3, <1>4, <1>5, PoolInvariant, PTL DEF Spec
=============================================================================
