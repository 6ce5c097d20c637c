------------------------- MODULE MemoryPoolGC_proofs -------------------------
(***************************************************************************)
(* Proofs about the memory pool with its collector, for one store and any  *)
(* number of threads, chunks and elements, when malloc does not fail.      *)
(* (With two stores ElementsAreNew is false: see MemoryPoolGC.)            *)
(*                                                                         *)
(* The collector leaves more in the links than the queue: the tail may be  *)
(* a node it unlinked, and freeNode may then write behind the queue or     *)
(* drop an element.  So the invariant does not say that the links reach    *)
(* every free element, only that they lead nowhere else.                   *)
(***************************************************************************)
EXTENDS MemoryPoolGC, MemoryPool_proofs

-----------------------------------------------------------------------------
(* Chains of nodes in a memory m.                                          *)

\* A chain that starts at e and ends with MP_NULL runs through nodes of R:
\* links stay in R, never lead to e, and never meet.
Segment(m, R, e) ==
  /\ e = MP_NULL \/ e \in R
  /\ \A i \in R : m[NodeCell(i)] = MP_NULL \/ m[NodeCell(i)] \in R \ {e}
  /\ \A i, j \in R : i # j /\ m[NodeCell(i)] = m[NodeCell(j)] => m[NodeCell(i)] = MP_NULL

\* The last node has no successor, if it is on the chain.
Ends(m, R, z) == z \in R => m[NodeCell(z)] = MP_NULL

\* Following the links from e meets nodes of G only.
Leads(m, G, e, z) == \E R \in SUBSET G : Segment(m, R, e) /\ Ends(m, R, z)

\* The part of a queue that the collector has kept so far runs from h to p
\* through nodes of D; p's own link is not yet written.
Kept(m, D, h, p) ==
  /\ {h, p} \subseteq D
  /\ \A i \in D \ {p} : m[NodeCell(i)] \in D \ {h}
  /\ \A i, j \in D \ {p} : m[NodeCell(i)] = m[NodeCell(j)] => i = j

\* A kept part in F from h to p, and the rest of the chain, in G, from e.
Splits(m, F, G, h, p, e, z) ==
  \E D \in SUBSET F, R \in SUBSET G :
    D \cap R = {} /\ Kept(m, D, h, p) /\ Segment(m, R, e) /\ Ends(m, D \cup R, z)

\* Chains are the same in a memory that agrees on their nodes.
LEMMA LeadsStays ==
  ASSUME NEW m, NEW n, NEW G, NEW e, NEW z, Leads(m, G, e, z),
         \A i \in G : n[NodeCell(i)] = m[NodeCell(i)]
  PROVE  Leads(n, G, e, z)
<1>1. PICK R \in SUBSET G : Segment(m, R, e) /\ Ends(m, R, z)
  BY DEF Leads
<1>2. Segment(n, R, e) /\ Ends(n, R, z)
  BY <1>1 DEF Segment, Ends
<1>. QED  BY <1>2 DEF Leads

LEMMA SplitsStays ==
  ASSUME NEW m, NEW n, NEW F, NEW G, F \subseteq G, NEW h, NEW p, NEW e, NEW z,
         Splits(m, F, G, h, p, e, z), \A i \in G : n[NodeCell(i)] = m[NodeCell(i)]
  PROVE  Splits(n, F, G, h, p, e, z)
<1>1. PICK D \in SUBSET F, R \in SUBSET G :
        D \cap R = {} /\ Kept(m, D, h, p) /\ Segment(m, R, e) /\ Ends(m, D \cup R, z)
  BY DEF Splits
<1>2. Kept(n, D, h, p)
  BY <1>1 DEF Kept
<1>3. Segment(n, R, e) /\ Ends(n, D \cup R, z)
  BY <1>1 DEF Segment, Ends
<1>. QED  BY <1>1, <1>2, <1>3 DEF Splits

\* A chain may be looked for in a larger set.
LEMMA LeadsGrows ==
  ASSUME NEW m, NEW G, NEW H, G \subseteq H, NEW e, NEW z, Leads(m, G, e, z)
  PROVE  Leads(m, H, e, z)
BY DEF Leads

\* The empty chain.
LEMMA LeadsNowhere ==
  ASSUME NEW m, NEW G, NEW z
  PROVE  Leads(m, G, MP_NULL, z)
<1>1. Segment(m, {}, MP_NULL) /\ Ends(m, {}, z) /\ {} \in SUBSET G
  BY DEF Segment, Ends
<1>. QED  BY <1>1 DEF Leads

\* What follows the first node of a chain is a chain without that node.
LEMMA SegmentAdvances ==
  ASSUME NEW m, NEW R, NEW e \in R, Segment(m, R, e)
  PROVE  Segment(m, R \ {e}, m[NodeCell(e)])
BY DEF Segment

LEMMA LeadsAdvances ==
  ASSUME NEW m, NEW G, NEW e, NEW z, Leads(m, G, e, z), e # MP_NULL
  PROVE  e \in G /\ Leads(m, G \ {e}, m[NodeCell(e)], z)
<1>1. PICK R \in SUBSET G : Segment(m, R, e) /\ Ends(m, R, z)
  BY DEF Leads
<1>2. e \in R
  BY <1>1 DEF Segment
<1>3. Segment(m, R \ {e}, m[NodeCell(e)]) /\ Ends(m, R \ {e}, z)
  BY <1>1, <1>2, SegmentAdvances DEF Ends
<1>. QED  BY <1>2, <1>3 DEF Leads

\* The first node of a chain is a kept part.
LEMMA LeadsSplits ==
  ASSUME NEW m, NEW F, NEW G, NEW e \in F, NEW z, Leads(m, G, e, z), e # MP_NULL
  PROVE  Splits(m, F, G, e, e, m[NodeCell(e)], z)
<1>1. PICK R \in SUBSET G : Segment(m, R, e) /\ Ends(m, R, z)
  BY DEF Leads
<1>2. e \in R
  BY <1>1 DEF Segment
<1>3. Segment(m, R \ {e}, m[NodeCell(e)]) /\ Ends(m, {e} \cup (R \ {e}), z)
  BY <1>1, <1>2, SegmentAdvances DEF Ends
<1>4. Kept(m, {e}, e, e)
  BY DEF Kept
<1>5. {e} \in SUBSET F /\ R \ {e} \in SUBSET G /\ {e} \cap (R \ {e}) = {}
  OBVIOUS
<1>. QED  BY <1>3, <1>4, <1>5 DEF Splits

\* The collector passes one node of the rest.
LEMMA SplitsAdvances ==
  ASSUME NEW m, NEW F, NEW G, NEW h, NEW p, NEW e, NEW z,
         Splits(m, F, G, h, p, e, z), e # MP_NULL
  PROVE  e \in G /\ Splits(m, F, G, h, p, m[NodeCell(e)], z)
<1>1. PICK D \in SUBSET F, R \in SUBSET G :
        D \cap R = {} /\ Kept(m, D, h, p) /\ Segment(m, R, e) /\ Ends(m, D \cup R, z)
  BY DEF Splits
<1>2. e \in R
  BY <1>1 DEF Segment
<1>3. Segment(m, R \ {e}, m[NodeCell(e)]) /\ Ends(m, D \cup (R \ {e}), z)
  BY <1>1, <1>2, SegmentAdvances DEF Ends
<1>. QED  BY <1>1, <1>2, <1>3 DEF Splits

\* The collector links the next node it keeps behind the last one.
LEMMA SplitsJoins ==
  ASSUME NEW m \in [Cell -> Value], NEW F, NEW G, F \subseteq G, G \subseteq Id,
         \A i, j \in G : i # j => NodeCell(i) # NodeCell(j),
         NEW h, NEW p, NEW e \in F, NEW z,
         Splits(m, F, G, h, p, e, z), m[NodeCell(p)] # MP_NULL,
         NEW n, n = [m EXCEPT ![NodeCell(p)] = e]
  PROVE  Splits(n, F, G, h, e, n[NodeCell(e)], z)
<1>1. PICK D \in SUBSET F, R \in SUBSET G :
        D \cap R = {} /\ Kept(m, D, h, p) /\ Segment(m, R, e) /\ Ends(m, D \cup R, z)
  BY DEF Splits
<1>2. e \in R /\ e \notin D /\ h \in D /\ p \in D
  BY <1>1, NullAssumption DEF Segment, Kept
<1>3. n[NodeCell(p)] = e /\ \A i \in G \ {p} : n[NodeCell(i)] = m[NodeCell(i)]
  <2>1. \A i \in G : NodeCell(i) \in Cell
    BY ElementInChunk
  <2>. QED  BY <1>2, <2>1
<1>4. Kept(n, D \cup {e}, h, e)
  BY <1>1, <1>2, <1>3 DEF Kept
<1>5. Segment(n, R \ {e}, n[NodeCell(e)])
  <2>1. Segment(m, R \ {e}, m[NodeCell(e)])
    BY <1>1, <1>2, SegmentAdvances
  <2>2. \A i \in R : n[NodeCell(i)] = m[NodeCell(i)]
    BY <1>1, <1>2, <1>3
  <2>. QED  BY <1>2, <2>1, <2>2 DEF Segment
<1>6. Ends(n, (D \cup {e}) \cup (R \ {e}), z)
  BY <1>1, <1>2, <1>3 DEF Ends
<1>7. D \cup {e} \in SUBSET F /\ R \ {e} \in SUBSET G /\ (D \cup {e}) \cap (R \ {e}) = {}
  BY <1>1
<1>. QED  BY <1>4, <1>5, <1>6, <1>7 DEF Splits

\* The last node the collector keeps ends the queue.
LEMMA SplitsEnds ==
  ASSUME NEW m \in [Cell -> Value], NEW F, NEW G, F \subseteq G, G \subseteq Id,
         \A i, j \in G : i # j => NodeCell(i) # NodeCell(j),
         NEW h, NEW p, NEW e, NEW z, Splits(m, F, G, h, p, e, z),
         NEW n, n = [m EXCEPT ![NodeCell(p)] = MP_NULL]
  PROVE  Leads(n, F, h, z)
<1>1. PICK D \in SUBSET F, R \in SUBSET G :
        D \cap R = {} /\ Kept(m, D, h, p) /\ Segment(m, R, e) /\ Ends(m, D \cup R, z)
  BY DEF Splits
<1>2. h \in D /\ p \in D
  BY <1>1 DEF Kept
<1>3. n[NodeCell(p)] = MP_NULL /\ \A i \in G \ {p} : n[NodeCell(i)] = m[NodeCell(i)]
  <2>1. \A i \in G : NodeCell(i) \in Cell
    BY ElementInChunk
  <2>. QED  BY <1>2, <2>1
<1>4. Segment(n, D, h)
  BY <1>1, <1>2, <1>3 DEF Segment, Kept
<1>5. Ends(n, D, z)
  BY <1>1, <1>3 DEF Ends
<1>. QED  BY <1>4, <1>5 DEF Leads

-----------------------------------------------------------------------------
(* The inductive invariant.                                                *)

\* The nodes of the chunk under collection.
Doomed == {i \in Id : i.chunk = target}

Scanning == gcpc \in {"skip", "follow", "unlink"}
Collecting == Scanning \/ gcpc = "destroy"

\* The counters that decide what is collected and whether the bank may grow.
UsageInv ==
  /\ \A l \in Level, c \in Chunk : usage[l][c] = Cardinality(QueuedOf(l, c))
  /\ IsFiniteSet(live) /\ using = Cardinality(live)

\* The collector has the store for itself while it follows the links.
MutexInv ==
  /\ \A t \in Client : pc[t] = "adding" => mutex[level[t]] = t
  /\ \A l \in Level : mutex[l] = Collector <=> Scanning

\* Nothing of the chunk under collection is in use or about to be.
TargetInv ==
  /\ todo = IF gcpc = "sleep" THEN {} ELSE Level
  /\ Collecting =>
       /\ target \in live
       /\ \A i \in InUse : i.chunk # target
       /\ \A t \in Client : Adding(t) => chunk[t] # target

\* What the collector has passed is unlinked or kept, and what it has still to
\* see leads through queued and doomed nodes.
Scanned(l) ==
  LET G == free[l] \cup Doomed
  IN  \/ gcpc = "skip" /\ Leads(mem, G, cur, tail[l])
      \/ gcpc = "follow" /\ prev = MP_NULL /\ Leads(mem, free[l], head[l], tail[l])
      \/ /\ gcpc = "follow" /\ prev # MP_NULL
         /\ Splits(mem, free[l], G, head[l], prev, mem[NodeCell(prev)], tail[l])
      \/ /\ gcpc = "unlink" /\ (mem[NodeCell(prev)] = MP_NULL => cur = MP_NULL)
         /\ Splits(mem, free[l], G, head[l], prev, cur, tail[l])

ChainInv ==
  \A l \in Level :
    IF mutex[l] = Collector THEN Scanned(l) ELSE Leads(mem, free[l], head[l], tail[l])

\* Types and owners are those of the pool without the collector.
GCInv ==
  /\ TypeOK /\ GCTypeOK /\ OwnersInv /\ ThreadInv
  /\ UsageInv /\ MutexInv /\ TargetInv /\ ChainInv

-----------------------------------------------------------------------------
(* One store.                                                              *)

\* With one store different elements share no memory, whatever their state.
LEMMA OneStore ==
  ASSUME NEW q, Level = {q}
  PROVE  /\ q \in Level
         /\ \A i \in Id : i.level = q
         /\ \A i, j \in Id : i # j => Cells(i) \cap Cells(j) = {} /\ NodeCell(i) # NodeCell(j)
<1>1. \A i \in Id : i.level = q
  BY IdFields
<1>2. ASSUME NEW i \in Id, NEW j \in Id, i # j
      PROVE  Cells(i) \cap Cells(j) = {} /\ NodeCell(i) # NodeCell(j)
  <2>1. Cells(i) \cap Cells(j) = {}
    BY <1>1, <1>2, ElementsDisjoint
  <2>2. NodeCell(i) \in Cells(i) /\ NodeCell(j) \in Cells(j)
    BY ElementInChunk
  <2>. QED  BY <2>1, <2>2
<1>. QED  BY <1>1, <1>2

\* Queued elements are elements, in memory that the bank has.
LEMMA QueuedHaveMemory ==
  ASSUME TypeOK, OwnersInv, NEW q \in Level
  PROVE  /\ free[q] \subseteq Id
         /\ \A i \in free[q] : HasNode(i) /\ i # MP_NULL /\ i \in InUse /\ i \in Queued
<1>1. \A i \in free[q] : i \in Id /\ i \in Queued /\ i \in InUse /\ i # MP_NULL
  BY InUseMembers, NullAssumption DEF TypeOK, InUse
<1>. QED  BY <1>1 DEF OwnersInv, HasNode

\* Taking the head of the only queue.
LEMMA TakeInQueue ==
  ASSUME TypeOK, OwnersInv, NEW q, Level = {q}, Leads(mem, free[q], head[q], tail[q]),
         NEW t \in Client, TakeHead(t, q), UNCHANGED bankVars
  PROVE  /\ head[q] \in free[q] /\ head[q] \in Id
         /\ free' = [free EXCEPT ![q] = @ \ {head[q]}]
         /\ usage' = [usage EXCEPT ![q][head[q].chunk] = Dec(@)]
         /\ held' = [held EXCEPT ![t] = @ \cup {head[q]}]
         /\ UNCHANGED <<tail, recent, mem>>
         /\ elements' \in [Level -> Int]
         /\ head' \in [Level -> Id \cup {MP_NULL}]
         /\ Leads(mem', free'[q], head'[q], tail'[q])
<1> DEFINE h == head[q]
<1>1. h # MP_NULL /\ q \in Level /\ free[q] \subseteq Id
  BY DEF TakeHead, TypeOK
<1>2. h \in free[q] /\ Leads(mem, free[q] \ {h}, mem[NodeCell(h)], tail[q])
  BY <1>1, LeadsAdvances
<1>3. HasNode(h)
  BY <1>1, <1>2, QueuedHaveMemory
<1>4. /\ free' = [free EXCEPT ![q] = @ \ {h}]
      /\ usage' = [usage EXCEPT ![q][h.chunk] = Dec(@)]
      /\ held' = [held EXCEPT ![t] = @ \cup {h}]
      /\ UNCHANGED <<tail, recent, mem>>
      /\ elements' = [elements EXCEPT ![q] = @ - 1]
      /\ head' = [head EXCEPT ![q] = mem[NodeCell(h)]]
  BY <1>3 DEF TakeHead, NextHead
<1>5. mem[NodeCell(h)] \in Id \cup {MP_NULL}
  BY <1>1, <1>2 DEF Leads, Segment
<1>6. free'[q] = free[q] \ {h} /\ head'[q] = mem[NodeCell(h)]
  BY <1>1, <1>4 DEF TypeOK
<1>7. Leads(mem', free'[q], head'[q], tail'[q])
  BY <1>2, <1>4, <1>6
<1>. QED  BY <1>1, <1>2, <1>4, <1>5, <1>7 DEF TypeOK

\* Adding an element to the only queue.  If the tail is a node that the
\* collector unlinked, the element comes to lie behind that node, out of the
\* queue's reach, or is dropped when the bank has the node's memory no more.
LEMMA AddInQueue ==
  ASSUME TypeOK, OwnersInv, NEW q, Level = {q}, Leads(mem, free[q], head[q], tail[q]),
         NEW id \in Id, HasNode(id), id \notin Queued, AddElement(id)
  PROVE  /\ \/ /\ free' = [free EXCEPT ![q] = @ \cup {id}]
               /\ usage' = [usage EXCEPT ![q][id.chunk] = Inc(@)]
            \/ UNCHANGED <<free, usage>>
         /\ head' \in [Level -> Id \cup {MP_NULL}]
         /\ tail' \in [Level -> Id \cup {MP_NULL}]
         /\ elements' \in [Level -> Int]
         /\ usage' \in [Level -> [Chunk -> 0 .. CounterRange - 1]]
         /\ recent' \in [Level -> SUBSET Chunk]
         /\ mem' \in [Cell -> Value]
         /\ free' \in [Level -> SUBSET Id]
         /\ Leads(mem', free'[q], head'[q], tail'[q])
<1> DEFINE z == tail[q]
<1>1. /\ q \in Level /\ id.level = q /\ id # MP_NULL /\ NodeCell(id) \in Cell
      /\ \A i \in Id : NodeCell(i) \in Cell
      /\ \A i, j \in Id : i # j => NodeCell(i) # NodeCell(j)
  BY OneStore, NullAssumption, ElementInChunk
<1>2. /\ free[q] \subseteq Id /\ id \notin free[q]
      /\ \A i \in free[q] : HasNode(i) /\ i # MP_NULL
  BY <1>1, QueuedHaveMemory, InUseMembers
<1>3. PICK S \in SUBSET free[q] : Segment(mem, S, head[q]) /\ Ends(mem, S, z)
  BY DEF Leads
<1>4. CASE head[q] = MP_NULL
  <2>1. /\ mem' = [mem EXCEPT ![NodeCell(id)] = MP_NULL]
        /\ head' = [head EXCEPT ![q] = id] /\ CountElement(id)
    BY <1>1, <1>4 DEF AddElement, QueueEmpty
  <2>2. /\ free' = [free EXCEPT ![q] = @ \cup {id}]
        /\ usage' = [usage EXCEPT ![q][id.chunk] = Inc(@)]
    BY <1>1, <2>1 DEF CountElement
  <2>3. free'[q] = free[q] \cup {id} /\ head'[q] = id /\ mem'[NodeCell(id)] = MP_NULL
    BY <1>1, <2>1, <2>2 DEF TypeOK
  <2>4. Segment(mem', {id}, head'[q]) /\ Ends(mem', {id}, tail'[q])
    BY <2>3 DEF Segment, Ends
  <2>5. {id} \in SUBSET free'[q]
    BY <2>3
  <2>6. Leads(mem', free'[q], head'[q], tail'[q])
    BY <2>4, <2>5 DEF Leads
  <2>7. head' \in [Level -> Id \cup {MP_NULL}] /\ mem' \in [Cell -> Value]
    BY <2>1 DEF TypeOK, Value
  <2>. QED  BY <2>1, <2>2, <2>6, <2>7, CountElementType
<1>5. CASE head[q] # MP_NULL /\ HasNode(z)
  <2>1. /\ mem' = [mem EXCEPT ![NodeCell(id)] = MP_NULL, ![NodeCell(z)] = id]
        /\ head' = head /\ CountElement(id)
    BY <1>1, <1>5 DEF AddElement, QueueEmpty
  <2>2. /\ free' = [free EXCEPT ![q] = @ \cup {id}]
        /\ usage' = [usage EXCEPT ![q][id.chunk] = Inc(@)]
        /\ tail' = [tail EXCEPT ![q] = id]
    BY <1>1, <2>1 DEF CountElement
  <2>3. free'[q] = free[q] \cup {id} /\ tail'[q] = id
    BY <1>1, <2>2 DEF TypeOK
  <2>4. z \in Id
    BY <1>1, <1>5 DEF HasNode, TypeOK
  <2>. HIDE DEF z
  <2>5. /\ mem'[NodeCell(z)] = id
        /\ z # id => mem'[NodeCell(id)] = MP_NULL
        /\ \A i \in Id \ {z, id} : mem'[NodeCell(i)] = mem[NodeCell(i)]
    BY <1>1, <2>1, <2>4 DEF TypeOK
  <2>6. ASSUME z \in S PROVE Leads(mem', free'[q], head'[q], tail'[q])
    <3>1. mem[NodeCell(z)] = MP_NULL /\ z # id /\ mem'[NodeCell(id)] = MP_NULL
      BY <1>2, <1>3, <2>5, <2>6 DEF Ends
    <3>2. \A i \in S \ {z} : mem'[NodeCell(i)] = mem[NodeCell(i)] /\ i # id
      BY <1>2, <2>5
    <3>3. head[q] \in S /\ head[q] # id
      BY <1>2, <1>3, <1>5 DEF Segment
    <3>4. \A i \in S \cup {id} : \/ mem'[NodeCell(i)] = MP_NULL
                                 \/ mem'[NodeCell(i)] \in (S \cup {id}) \ {head[q]}
      BY <1>3, <2>5, <3>1, <3>2, <3>3 DEF Segment
    <3>5. \A i \in S \ {z} : mem'[NodeCell(i)] # id
      BY <1>1, <1>2, <1>3, <3>2 DEF Segment
    <3>6. \A i, j \in S \cup {id} :
            i # j /\ mem'[NodeCell(i)] = mem'[NodeCell(j)] => mem'[NodeCell(i)] = MP_NULL
      BY <1>3, <2>5, <3>1, <3>2, <3>5 DEF Segment
    <3>7. Segment(mem', S \cup {id}, head'[q])
      BY <2>1, <3>3, <3>4, <3>6 DEF Segment
    <3>8. Ends(mem', S \cup {id}, tail'[q]) /\ S \cup {id} \in SUBSET free'[q]
      BY <2>3, <3>1 DEF Ends
    <3>. QED  BY <3>7, <3>8 DEF Leads
  <2>7. ASSUME z \notin S PROVE Leads(mem', free'[q], head'[q], tail'[q])
    <3>1. \A i \in S : mem'[NodeCell(i)] = mem[NodeCell(i)]
      BY <1>2, <2>5, <2>7
    <3>2. Segment(mem', S, head'[q])
      BY <1>3, <2>1, <3>1 DEF Segment
    <3>3. Ends(mem', S, tail'[q]) /\ S \in SUBSET free'[q]
      BY <1>2, <2>3 DEF Ends
    <3>. QED  BY <3>2, <3>3 DEF Leads
  <2>8. Leads(mem', free'[q], head'[q], tail'[q])
    BY <2>6, <2>7
  <2>9. head' \in [Level -> Id \cup {MP_NULL}] /\ mem' \in [Cell -> Value]
    BY <2>1 DEF TypeOK, Value
  <2>. QED  BY <2>1, <2>2, <2>8, <2>9, CountElementType
<1>6. CASE head[q] # MP_NULL /\ ~ HasNode(z)
  <2>1. /\ mem' = [mem EXCEPT ![NodeCell(id)] = MP_NULL]
        /\ UNCHANGED <<head, tail, elements, usage, recent, free>>
    BY <1>1, <1>6 DEF AddElement, QueueEmpty
  <2>2. \A i \in free[q] : mem'[NodeCell(i)] = mem[NodeCell(i)]
    BY <1>1, <1>2, <2>1 DEF TypeOK
  <2>3. Leads(mem', free'[q], head'[q], tail'[q])
    BY <2>1, <2>2, LeadsStays
  <2>4. mem' \in [Cell -> Value]
    BY <2>1 DEF TypeOK, Value
  <2>. QED  BY <2>1, <2>3, <2>4 DEF TypeOK
<1>. QED  BY <1>4, <1>5, <1>6

-----------------------------------------------------------------------------
(* What the parts of the invariant say of a step of the pool.              *)

\* The counters follow an element that is taken, or added once.
LEMMA UsageTaken ==
  ASSUME TypeOK, OwnersInv, UsageInv, NEW q \in Level, NEW h \in free[q],
         free' = [free EXCEPT ![q] = @ \ {h}],
         usage' = [usage EXCEPT ![q][h.chunk] = Dec(@)], UNCHANGED bankVars
  PROVE  UsageInv'
<1> DEFINE d == h.chunk
<1>1. /\ free \in [Level -> SUBSET Id] /\ usage \in [Level -> [Chunk -> 0 .. CounterRange - 1]]
      /\ d \in Chunk
  BY IdFields DEF TypeOK
<1>2. ASSUME NEW l \in Level, NEW c \in Chunk
      PROVE  usage'[l][c] = Cardinality(QueuedOf(l, c)')
  <2>1. usage[l][c] = Cardinality(QueuedOf(l, c))
    BY DEF UsageInv
  <2>2. CASE l = q /\ c = d
    <3>1. /\ QueuedOf(l, c)' = QueuedOf(l, c) \ {h} /\ h \in QueuedOf(l, c)
          /\ usage'[l][c] = Dec(usage[l][c])
      BY <1>1, <2>2 DEF QueuedOf
    <3>2. QueuedOf(l, c) \in SUBSET Id /\ \A i \in QueuedOf(l, c) : i.level = l /\ i.chunk = c
      BY <1>1 DEF QueuedOf, OwnersInv
    <3>3. IsFiniteSet(QueuedOf(l, c)) /\ Cardinality(QueuedOf(l, c)) \in Nat
      BY <3>2, ChunkFits
    <3>4. Cardinality(QueuedOf(l, c)') = Cardinality(QueuedOf(l, c)) - 1
      BY <3>1, <3>3, FS_RemoveElement
    <3>5. Cardinality(QueuedOf(l, c)) # 0
      BY <3>1, <3>3, FS_EmptySet
    <3>. QED  BY <2>1, <3>1, <3>4, <3>5 DEF Dec
  <2>3. CASE ~ (l = q /\ c = d)
    <3>1. QueuedOf(l, c)' = QueuedOf(l, c) /\ usage'[l][c] = usage[l][c]
      BY <1>1, <2>3 DEF QueuedOf
    <3>. QED  BY <2>1, <3>1
  <2>. QED  BY <2>2, <2>3
<1>. QED  BY <1>2 DEF UsageInv, bankVars

LEMMA UsageAdded ==
  ASSUME TypeOK, OwnersInv, UsageInv, NEW q, Level = {q}, NEW id \in Id, id \notin free[q],
         free' = [free EXCEPT ![q] = @ \cup {id}],
         usage' = [usage EXCEPT ![q][id.chunk] = Inc(@)], UNCHANGED bankVars
  PROVE  UsageInv'
<1> DEFINE d == id.chunk
<1>1. /\ free \in [Level -> SUBSET Id] /\ usage \in [Level -> [Chunk -> 0 .. CounterRange - 1]]
      /\ d \in Chunk /\ q \in Level
  BY IdFields DEF TypeOK
<1>2. ASSUME NEW l \in Level, NEW c \in Chunk
      PROVE  usage'[l][c] = Cardinality(QueuedOf(l, c)')
  <2>1. usage[l][c] = Cardinality(QueuedOf(l, c))
    BY DEF UsageInv
  <2>2. CASE l = q /\ c = d
    <3>1. /\ QueuedOf(l, c)' = QueuedOf(l, c) \cup {id} /\ id \notin QueuedOf(l, c)
          /\ usage'[l][c] = Inc(usage[l][c])
      BY <1>1, <2>2 DEF QueuedOf
    <3>2. QueuedOf(l, c) \in SUBSET Id /\ \A i \in QueuedOf(l, c) : i.level = l /\ i.chunk = c
      BY <1>1 DEF QueuedOf, OwnersInv
    <3>3. PICK T : T = QueuedOf(l, c) \cup {id}
      OBVIOUS
    <3>4. T \in SUBSET Id /\ \A i \in T : i.level = l /\ i.chunk = c
      BY <1>1, <2>2, <3>2, <3>3, OneStore
    <3>5. IsFiniteSet(QueuedOf(l, c)) /\ Cardinality(QueuedOf(l, c)) \in Nat
      BY <3>2, ChunkFits
    <3>6. Cardinality(T) <= ChunkSize
      BY <3>4, ChunkFits
    <3>7. Cardinality(T) = Cardinality(QueuedOf(l, c)) + 1
      BY <3>1, <3>3, <3>5, FS_AddElement
    <3>8. Inc(usage[l][c]) = usage[l][c] + 1
      BY <2>1, <3>5, <3>6, <3>7, CounterAssumption, SizeAssumption DEF Inc
    <3>. QED  BY <2>1, <3>1, <3>3, <3>7, <3>8
  <2>3. CASE ~ (l = q /\ c = d)
    <3>1. QueuedOf(l, c)' = QueuedOf(l, c) /\ usage'[l][c] = usage[l][c]
      BY <1>1, <2>3 DEF QueuedOf
    <3>. QED  BY <2>1, <3>1
  <2>. QED  BY <2>2, <2>3
<1>. QED  BY <1>2 DEF UsageInv, bankVars

\* Threads that are not adding nodes, and elements that are not in use, do
\* not matter to the threads that are.
LEMMA ThreadsStay ==
  ASSUME ThreadInv,
         \A i \in InUse' : i \in InUse,
         \A u \in Client :
           /\ pc'[u] \notin {"adding", "retry"} => slot'[u] = 0
           /\ Adding(u)' => /\ Adding(u) /\ chunk[u] \in live'
                            /\ chunk'[u] = chunk[u] /\ level'[u] = level[u] /\ slot'[u] = slot[u]
  PROVE  ThreadInv'
BY DEF ThreadInv

\* The links stay where they are when nobody changes the queue.
LEMMA ChainStays ==
  ASSUME TypeOK, ChainInv, NEW q, Level = {q}, UNCHANGED <<gcVars, head, tail, free>>,
         mutex'[q] = Collector <=> mutex[q] = Collector,
         \A i \in free[q] : mem'[NodeCell(i)] = mem[NodeCell(i)],
         mutex[q] = Collector => \A i \in Doomed : mem'[NodeCell(i)] = mem[NodeCell(i)]
  PROVE  ChainInv'
<1> DEFINE G == free[q] \cup Doomed
<1>1. Doomed' = Doomed
  BY DEF Doomed, gcVars
<1>2. CASE mutex[q] # Collector
  <2>1. Leads(mem, free[q], head[q], tail[q])
    BY <1>2 DEF ChainInv
  <2>2. Leads(mem', free[q], head[q], tail[q])
    BY <2>1, LeadsStays
  <2>. QED  BY <1>2, <2>2 DEF ChainInv
<1>3. CASE mutex[q] = Collector
  <2>0. \A i \in G : mem'[NodeCell(i)] = mem[NodeCell(i)]
    BY <1>3
  <2>1. Scanned(q)
    BY <1>3 DEF ChainInv
  <2>2. ASSUME gcpc = "skip", Leads(mem, G, cur, tail[q]) PROVE Scanned(q)'
    <3>1. Leads(mem', G, cur, tail[q])
      BY <2>0, <2>2, LeadsStays
    <3>. QED  BY <1>1, <2>2, <3>1 DEF Scanned, gcVars
  <2>3. ASSUME gcpc = "follow", prev = MP_NULL, Leads(mem, free[q], head[q], tail[q])
        PROVE  Scanned(q)'
    <3>1. Leads(mem', free[q], head[q], tail[q])
      BY <2>3, LeadsStays
    <3>. QED  BY <1>1, <2>3, <3>1 DEF Scanned, gcVars
  <2>4. ASSUME NEW e, Splits(mem, free[q], G, head[q], prev, e, tail[q])
        PROVE  /\ Splits(mem', free[q], G, head[q], prev, e, tail[q])
               /\ mem'[NodeCell(prev)] = mem[NodeCell(prev)]
    <3>1. prev \in free[q]
      BY <2>4 DEF Splits, Kept
    <3>2. free[q] \subseteq G
      OBVIOUS
    <3>. HIDE DEF G
    <3>3. Splits(mem', free[q], G, head[q], prev, e, tail[q])
      BY <2>0, <2>4, <3>2, SplitsStays
    <3>. QED  BY <3>1, <3>3
  <2>5. ASSUME gcpc = "follow", prev # MP_NULL,
               Splits(mem, free[q], G, head[q], prev, mem[NodeCell(prev)], tail[q])
        PROVE  Scanned(q)'
    <3>1. /\ Splits(mem', free[q], G, head[q], prev, mem[NodeCell(prev)], tail[q])
          /\ mem'[NodeCell(prev)] = mem[NodeCell(prev)]
      BY <2>4, <2>5
    <3>. QED  BY <1>1, <2>5, <3>1 DEF Scanned, gcVars
  <2>6. ASSUME gcpc = "unlink", mem[NodeCell(prev)] = MP_NULL => cur = MP_NULL,
               Splits(mem, free[q], G, head[q], prev, cur, tail[q])
        PROVE  Scanned(q)'
    <3>1. /\ Splits(mem', free[q], G, head[q], prev, cur, tail[q])
          /\ mem'[NodeCell(prev)] = mem[NodeCell(prev)]
      BY <2>4, <2>6
    <3>. QED  BY <1>1, <2>6, <3>1 DEF Scanned, gcVars
  <2>7. Scanned(q)'
    BY <2>1, <2>2, <2>3, <2>5, <2>6 DEF Scanned
  <2>. QED  BY <1>3, <2>7 DEF ChainInv
<1>. QED  BY <1>2, <1>3

-----------------------------------------------------------------------------
(* The steps of the pool.                                                  *)

\* A taken head goes from the queue to its taker.
LEMMA TakeKeeps ==
  ASSUME GCInv, NEW q, Level = {q}, NEW t \in Client, TakeHead(t, q), mutex[q] = Nobody,
         UNCHANGED <<bankVars, mutex, gcVars>>
  PROVE  /\ OwnersInv' /\ UsageInv' /\ ChainInv' /\ InUse' = InUse
         /\ head' \in [Level -> Id \cup {MP_NULL}]
         /\ tail' \in [Level -> Id \cup {MP_NULL}]
         /\ elements' \in [Level -> Int]
         /\ usage' \in [Level -> [Chunk -> 0 .. CounterRange - 1]]
         /\ recent' \in [Level -> SUBSET Chunk]
         /\ mem' \in [Cell -> Value]
         /\ held' \in [Client -> SUBSET Id]
         /\ free' \in [Level -> SUBSET Id]
<1> DEFINE h == head[q]
<1>1. TypeOK /\ OwnersInv /\ UsageInv /\ Leads(mem, free[q], head[q], tail[q]) /\ q \in Level
  BY ValueAssumption DEF GCInv, ChainInv
<1>2. /\ h \in free[q] /\ h \in Id
      /\ free' = [free EXCEPT ![q] = @ \ {h}]
      /\ usage' = [usage EXCEPT ![q][h.chunk] = Dec(@)]
      /\ held' = [held EXCEPT ![t] = @ \cup {h}]
      /\ UNCHANGED <<tail, recent, mem>>
      /\ elements' \in [Level -> Int]
      /\ head' \in [Level -> Id \cup {MP_NULL}]
      /\ Leads(mem', free'[q], head'[q], tail'[q])
  BY <1>1, TakeInQueue
<1>. HIDE DEF h
<1>3. UsageInv'
  BY <1>1, <1>2, UsageTaken
<1>4. ChainInv'
  BY <1>2, ValueAssumption DEF ChainInv
<1>5. h \in Queued /\ h \in InUse /\ h \notin Taken
  BY <1>1, <1>2, InUseMembers DEF InUse, OwnersInv
<1>6. /\ \A i : i \in Queued' <=> i \in Queued /\ i # h
      /\ \A i : i \in Taken' <=> i \in Taken \/ i = h
  <2>1. free'[q] = free[q] \ {h}
    BY <1>1, <1>2 DEF TypeOK
  <2>2. held'[t] = held[t] \cup {h} /\ \A u \in Client : u # t => held'[u] = held[u]
    BY <1>1, <1>2 DEF TypeOK
  <2>. QED  BY <1>1, <2>1, <2>2, InUseMembers, InUseMembersNext
<1>7. InUse' = InUse
  <2>1. \A i : i \in InUse' <=> i \in InUse
    BY <1>5, <1>6 DEF InUse
  <2>. QED  BY <2>1
<1>8. OwnersInv'
  <2>1. \A l \in Level : \A i \in free'[l] : i.level = l
    BY <1>1, <1>2 DEF OwnersInv, TypeOK
  <2>2. Taken' \cap Queued' = {}
    BY <1>1, <1>6 DEF OwnersInv
  <2>3. \A u, v \in Client : u # v => held'[u] \cap held'[v] = {}
    <3>1. \A u \in Client : h \notin held[u]
      BY <1>5, InUseMembers
    <3>. QED  BY <1>1, <1>2, <3>1 DEF OwnersInv, TypeOK
  <2>4. live' = live
    BY DEF bankVars
  <2>. QED  BY <1>1, <1>7, <2>1, <2>2, <2>3, <2>4 DEF OwnersInv
<1>9. h.chunk \in Chunk /\ usage[q][h.chunk] \in 0 .. CounterRange - 1
  BY <1>1, <1>2, IdFields DEF TypeOK
<1>10. usage' \in [Level -> [Chunk -> 0 .. CounterRange - 1]]
  BY <1>1, <1>2, <1>9, CounterSteps DEF TypeOK
<1>. QED  BY <1>1, <1>2, <1>3, <1>4, <1>7, <1>8, <1>10 DEF TypeOK

\* An added element becomes queued, if it is not dropped.
LEMMA AddKeeps ==
  ASSUME GCInv, NEW q, Level = {q}, NEW id \in Id, HasNode(id), id \notin Queued, AddElement(id),
         mutex[q] # Collector, mutex'[q] # Collector, UNCHANGED bankVars
  PROVE  /\ UsageInv' /\ ChainInv'
         /\ \A l \in Level : \A i \in free'[l] : i.level = l
         /\ \A i \in Queued' : i \in Queued \/ i = id
         /\ head' \in [Level -> Id \cup {MP_NULL}]
         /\ tail' \in [Level -> Id \cup {MP_NULL}]
         /\ elements' \in [Level -> Int]
         /\ usage' \in [Level -> [Chunk -> 0 .. CounterRange - 1]]
         /\ recent' \in [Level -> SUBSET Chunk]
         /\ mem' \in [Cell -> Value]
         /\ free' \in [Level -> SUBSET Id]
<1>1. TypeOK /\ OwnersInv /\ UsageInv /\ Leads(mem, free[q], head[q], tail[q]) /\ q \in Level
  BY DEF GCInv, ChainInv
<1>2. /\ \/ /\ free' = [free EXCEPT ![q] = @ \cup {id}]
            /\ usage' = [usage EXCEPT ![q][id.chunk] = Inc(@)]
         \/ UNCHANGED <<free, usage>>
      /\ head' \in [Level -> Id \cup {MP_NULL}]
      /\ tail' \in [Level -> Id \cup {MP_NULL}]
      /\ elements' \in [Level -> Int]
      /\ usage' \in [Level -> [Chunk -> 0 .. CounterRange - 1]]
      /\ recent' \in [Level -> SUBSET Chunk]
      /\ mem' \in [Cell -> Value]
      /\ free' \in [Level -> SUBSET Id]
      /\ Leads(mem', free'[q], head'[q], tail'[q])
  BY <1>1, AddInQueue
<1>3. UsageInv'
  <2>1. id \notin free[q]
    BY <1>1, InUseMembers
  <2>2. CASE UNCHANGED <<free, usage>>
    BY <1>1, <2>2 DEF UsageInv, QueuedOf, bankVars
  <2>. QED  BY <1>1, <1>2, <2>1, <2>2, UsageAdded
<1>4. ChainInv'
  BY <1>2 DEF ChainInv
<1>5. \A l \in Level : \A i \in free'[l] : i.level = l
  BY <1>2, OneStore DEF TypeOK
<1>6. \A i \in Queued' : i \in Queued \/ i = id
  <2>1. \A i \in free'[q] : i \in free[q] \/ i = id
    BY <1>1, <1>2 DEF TypeOK
  <2>. QED  BY <1>1, <2>1, InUseMembers, InUseMembersNext
<1>. QED  BY <1>2, <1>3, <1>4, <1>5, <1>6

\* A step of the pool does not concern the collector if no element or thread
\* comes to the chunk under collection.
LEMMA TargetStays ==
  ASSUME TargetInv, UNCHANGED gcVars,
         \A i \in InUse' : i \in InUse,
         \A c \in live : c \in live',
         \A u \in Client : Adding(u)' => Adding(u) /\ chunk'[u] = chunk[u]
  PROVE  TargetInv'
<1>1. Collecting' <=> Collecting
  BY DEF Collecting, Scanning, gcVars
<1>. QED  BY <1>1 DEF TargetInv, gcVars

LEMMA GCAllocFirst ==
  ASSUME GCInv, NEW q, Level = {q}, NEW t \in Client, AllocFirst(t, q), UNCHANGED gcVars
  PROVE  GCInv'
<1>1. /\ TypeOK /\ OwnersInv /\ ThreadInv /\ UsageInv /\ MutexInv /\ TargetInv /\ ChainInv
      /\ GCTypeOK
  BY DEF GCInv
<1>2. UNCHANGED <<live, using, mutex>> /\ mutex[q] = Nobody /\ pc[t] = "idle" /\ slot[t] = 0
      /\ UNCHANGED bankVars /\ q \in Level
  BY <1>1 DEF AllocFirst, ThreadInv, bankVars
<1>3. GCTypeOK'
  BY <1>1, <1>2 DEF GCTypeOK, gcVars
<1>4. CASE TakeHead(t, q) /\ UNCHANGED threadVars
  <2>1. /\ OwnersInv' /\ UsageInv' /\ ChainInv' /\ InUse' = InUse
        /\ head' \in [Level -> Id \cup {MP_NULL}]
        /\ tail' \in [Level -> Id \cup {MP_NULL}]
        /\ elements' \in [Level -> Int]
        /\ usage' \in [Level -> [Chunk -> 0 .. CounterRange - 1]]
        /\ recent' \in [Level -> SUBSET Chunk]
        /\ mem' \in [Cell -> Value]
        /\ held' \in [Client -> SUBSET Id]
        /\ free' \in [Level -> SUBSET Id]
    BY <1>2, <1>4, TakeKeeps
  <2>2. TypeOK'
    BY <1>1, <1>2, <1>4, <2>1 DEF TypeOK, threadVars
  <2>3. ThreadInv'
    BY <1>1, <1>2, <1>4, <2>1 DEF ThreadInv, Adding, threadVars
  <2>4. TargetInv'
    BY <1>1, <1>2, <1>4, <2>1, TargetStays DEF Adding, threadVars
  <2>5. MutexInv'
    BY <1>1, <1>2, <1>4 DEF MutexInv, Scanning, gcVars, threadVars
  <2>. QED  BY <1>3, <2>1, <2>2, <2>3, <2>4, <2>5 DEF GCInv
<1>5. CASE /\ GoTo(t, "create") /\ level' = [level EXCEPT ![t] = q]
           /\ UNCHANGED <<queueVars, chunk, slot, held>>
  <2>1. TypeOK'
    BY <1>1, <1>2, <1>5 DEF TypeOK, GoTo, queueVars
  <2>2. InUse' = InUse /\ Taken' = Taken /\ Queued' = Queued
    BY <1>5 DEF InUse, Taken, Queued, queueVars
  <2>3. OwnersInv'
    BY <1>1, <1>2, <1>5, <2>2 DEF OwnersInv, queueVars
  <2>4. pc'[t] = "create" /\ \A u \in Client : u # t => pc'[u] = pc[u] /\ level'[u] = level[u]
    BY <1>1, <1>5 DEF GoTo, TypeOK
  <2>5. \A u \in Client :
          /\ pc'[u] \notin {"adding", "retry"} => slot'[u] = 0
          /\ Adding(u)' => /\ Adding(u) /\ chunk[u] \in live'
                           /\ chunk'[u] = chunk[u] /\ level'[u] = level[u] /\ slot'[u] = slot[u]
    BY <1>1, <1>2, <1>5, <2>4 DEF Adding, ThreadInv
  <2>6. ThreadInv'
    BY <1>1, <2>2, <2>5, ThreadsStay
  <2>7. TargetInv'
    BY <1>1, <1>2, <2>2, <2>5, TargetStays
  <2>8. MutexInv'
    BY <1>1, <1>2, <2>4 DEF MutexInv, Scanning, gcVars
  <2>9. UsageInv'
    BY <1>1, <1>2, <1>5 DEF UsageInv, QueuedOf, queueVars
  <2>10. ChainInv'
    BY <1>1, <1>2, <1>5, ChainStays DEF queueVars
  <2>. QED  BY <1>3, <2>1, <2>3, <2>6, <2>7, <2>8, <2>9, <2>10 DEF GCInv
<1>. QED  BY <1>4, <1>5 DEF AllocFirst

\* alloc returns, with the head or with MP_NULL.
LEMMA GCAllocRetry ==
  ASSUME GCInv, NEW q, Level = {q}, NEW t \in Client, AllocRetry(t), UNCHANGED gcVars
  PROVE  GCInv'
<1>1. /\ TypeOK /\ OwnersInv /\ ThreadInv /\ UsageInv /\ MutexInv /\ TargetInv /\ ChainInv
      /\ GCTypeOK
  BY DEF GCInv
<1>2. level[t] = q
  BY <1>1 DEF TypeOK
<1>3. /\ UNCHANGED <<live, using, mutex>> /\ mutex[q] = Nobody /\ Return(t)
      /\ UNCHANGED bankVars /\ q \in Level
  BY <1>2 DEF AllocRetry, bankVars
<1>4. GCTypeOK'
  BY <1>1, <1>3 DEF GCTypeOK, gcVars
<1>5. /\ OwnersInv' /\ UsageInv' /\ ChainInv' /\ InUse' = InUse
      /\ head' \in [Level -> Id \cup {MP_NULL}]
      /\ tail' \in [Level -> Id \cup {MP_NULL}]
      /\ elements' \in [Level -> Int]
      /\ usage' \in [Level -> [Chunk -> 0 .. CounterRange - 1]]
      /\ recent' \in [Level -> SUBSET Chunk]
      /\ mem' \in [Cell -> Value]
      /\ held' \in [Client -> SUBSET Id]
      /\ free' \in [Level -> SUBSET Id]
  <2>1. CASE TakeHead(t, q)
    BY <1>3, <2>1, TakeKeeps
  <2>2. CASE UNCHANGED <<queueVars, held>>
    <3>1. InUse' = InUse /\ Taken' = Taken /\ Queued' = Queued
      BY <2>2 DEF InUse, Taken, Queued, queueVars
    <3>2. OwnersInv'
      BY <1>1, <1>3, <2>2, <3>1 DEF OwnersInv, queueVars
    <3>3. UsageInv'
      BY <1>1, <1>3, <2>2 DEF UsageInv, QueuedOf, queueVars
    <3>4. ChainInv'
      BY <1>1, <1>3, <2>2, ChainStays DEF queueVars
    <3>. QED  BY <1>1, <2>2, <3>1, <3>2, <3>3, <3>4 DEF TypeOK, queueVars
  <2>. QED  BY <1>2, <2>1, <2>2 DEF AllocRetry
<1>6. /\ ThreadInv'
      /\ pc' \in [Client -> {"idle", "create", "add", "adding", "retry"}]
      /\ level' \in [Client -> Level]
      /\ chunk' \in [Client -> Chunk]
      /\ slot' \in [Client -> 0 .. ChunkSize - 1]
  BY <1>1, <1>3, <1>5, ReturnInv
<1>7. TypeOK'
  BY <1>1, <1>3, <1>5, <1>6 DEF TypeOK
<1>8. /\ pc'[t] = "idle"
      /\ \A u \in Client : u # t => pc'[u] = pc[u] /\ chunk'[u] = chunk[u] /\ level'[u] = level[u]
  BY <1>1, <1>3 DEF Return, GoTo, TypeOK
<1>9. TargetInv'
  BY <1>1, <1>3, <1>5, <1>8, TargetStays DEF Adding
<1>10. MutexInv'
  BY <1>1, <1>3, <1>8 DEF MutexInv, Scanning, gcVars
<1>. QED  BY <1>4, <1>5, <1>6, <1>7, <1>9, <1>10 DEF GCInv

\* The new chunk has no element in use and is not the one under collection,
\* which still has its memory.
LEMMA GCCreateChunk ==
  ASSUME GCInv, ~ MallocMayFail, NEW q, Level = {q}, NEW t \in Client, CreateChunk(t),
         UNCHANGED gcVars
  PROVE  GCInv'
<1>1. /\ TypeOK /\ OwnersInv /\ ThreadInv /\ UsageInv /\ MutexInv /\ TargetInv /\ ChainInv
      /\ GCTypeOK
  BY DEF GCInv
<1>2. PICK c \in Chunk \ live :
        /\ chunk' = [chunk EXCEPT ![t] = c]
        /\ live' = live \cup {c}
  BY DEF CreateChunk, BudgetLeft, FreeIndex
<1>3. /\ UNCHANGED <<queueVars, level, slot, mutex, held>> /\ using' = using + 1
      /\ pc' = [pc EXCEPT ![t] = "add"] /\ pc[t] = "create"
  BY DEF CreateChunk, BudgetLeft, FreeIndex, GoTo
<1>4. InUse' = InUse /\ Taken' = Taken /\ Queued' = Queued
  BY <1>3 DEF InUse, Taken, Queued, queueVars
<1>5. \A i \in InUse : i.chunk # c
  BY <1>1, <1>2 DEF OwnersInv
<1>6. /\ chunk'[t] = c /\ pc'[t] = "add" /\ slot[t] = 0 /\ slot' = slot /\ level' = level
      /\ \A u \in Client : u # t => chunk'[u] = chunk[u] /\ pc'[u] = pc[u]
  BY <1>1, <1>2, <1>3 DEF TypeOK, ThreadInv
<1>7. \A u \in Client : u # t /\ Adding(u) => chunk[u] # c
  BY <1>1, <1>2 DEF ThreadInv
<1>8. TypeOK'
  BY <1>1, <1>2, <1>3 DEF TypeOK, queueVars
<1>9. GCTypeOK'
  BY <1>1, <1>8 DEF GCTypeOK, TypeOK, gcVars
<1>10. OwnersInv'
  BY <1>1, <1>2, <1>3, <1>4 DEF OwnersInv, queueVars
<1>11. ThreadInv'
  <2>1. \A u \in Client : pc'[u] \notin {"adding", "retry"} => slot'[u] = 0
    BY <1>1, <1>6 DEF ThreadInv
  <2>2. ASSUME NEW u \in Client, Adding(u)'
        PROVE  /\ chunk'[u] \in live'
               /\ slot'[u] < Capacity(level'[u])
               /\ \A i \in InUse' :
                    i.chunk = chunk'[u] => i.level = level'[u] /\ i.slot < slot'[u]
    <3>1. CASE u = t
      <4>1. level[t] \in Level
        BY <1>1 DEF TypeOK
      <4>. QED  BY <1>2, <1>4, <1>5, <1>6, <3>1, <4>1, CapacityPositive
    <3>2. CASE u # t
      BY <1>1, <1>2, <1>4, <1>6, <2>2, <3>2 DEF ThreadInv, Adding
    <3>. QED  BY <3>1, <3>2
  <2>3. \A u, v \in Client : u # v /\ Adding(u)' /\ Adding(v)' => chunk'[u] # chunk'[v]
    BY <1>1, <1>6, <1>7 DEF ThreadInv, Adding
  <2>. QED  BY <2>1, <2>2, <2>3 DEF ThreadInv
<1>12. UsageInv'
  <2>1. IsFiniteSet(live') /\ using' = Cardinality(live')
    BY <1>1, <1>2, <1>3, FS_AddElement DEF UsageInv
  <2>. QED  BY <1>1, <1>3, <2>1 DEF UsageInv, QueuedOf, queueVars
<1>13. MutexInv'
  BY <1>1, <1>3, <1>6 DEF MutexInv, Scanning, gcVars
<1>14. TargetInv'
  <2>1. Collecting' <=> Collecting
    BY DEF Collecting, Scanning, gcVars
  <2>2. Collecting => c # target
    BY <1>1, <1>2 DEF TargetInv
  <2>3. Collecting => \A u \in Client : Adding(u)' => chunk'[u] # target
    BY <1>1, <1>6, <2>2 DEF TargetInv, Adding
  <2>. QED  BY <1>1, <1>2, <1>4, <2>1, <2>3 DEF TargetInv, gcVars
<1>15. ChainInv'
  BY <1>1, <1>3, ChainStays DEF queueVars
<1>. QED  BY <1>8, <1>9, <1>10, <1>11, <1>12, <1>13, <1>14, <1>15 DEF GCInv

\* alloc gives up, or takes the mutex to add the nodes of its chunk.
LEMMA GCQuietSteps ==
  ASSUME GCInv, NEW q, Level = {q}, NEW t \in Client, UNCHANGED gcVars,
         CreateChunkRefused(t) \/ AddNewChunkLock(t)
  PROVE  GCInv'
<1>1. /\ TypeOK /\ OwnersInv /\ ThreadInv /\ UsageInv /\ MutexInv /\ TargetInv /\ ChainInv
      /\ GCTypeOK
  BY DEF GCInv
<1>2. UNCHANGED <<bankVars, queueVars, held, live, using>>
  BY DEF CreateChunkRefused, AddNewChunkLock, bankVars
<1>3. InUse' = InUse /\ Taken' = Taken /\ Queued' = Queued
  BY <1>2 DEF InUse, Taken, Queued, queueVars
<1>4. OwnersInv' /\ UsageInv' /\ GCTypeOK'
  BY <1>1, <1>2, <1>3 DEF OwnersInv, UsageInv, QueuedOf, GCTypeOK, queueVars, gcVars
<1>5. /\ \A u \in Client :
           Adding(u)' => /\ Adding(u) /\ chunk[u] \in live'
                         /\ chunk'[u] = chunk[u] /\ level'[u] = level[u] /\ slot'[u] = slot[u]
      /\ \A u \in Client : pc'[u] \notin {"adding", "retry"} => slot'[u] = 0
      /\ TypeOK' /\ MutexInv' /\ (mutex'[q] = Collector <=> mutex[q] = Collector)
  <2>1. CASE CreateChunkRefused(t)
    <3>1. Return(t) /\ mutex' = mutex
      BY <2>1 DEF CreateChunkRefused
    <3>2. /\ pc' \in [Client -> {"idle", "create", "add", "adding", "retry"}]
          /\ level' \in [Client -> Level]
          /\ chunk' \in [Client -> Chunk]
          /\ slot' \in [Client -> 0 .. ChunkSize - 1]
      BY <1>1, <1>2, <1>3, <3>1, ReturnInv
    <3>3. /\ pc'[t] = "idle" /\ slot'[t] = 0
          /\ \A u \in Client : u # t => /\ pc'[u] = pc[u] /\ chunk'[u] = chunk[u]
                                        /\ level'[u] = level[u] /\ slot'[u] = slot[u]
      BY <1>1, <3>1 DEF Return, GoTo, TypeOK
    <3>4. TypeOK'
      BY <1>1, <1>2, <3>1, <3>2 DEF TypeOK, queueVars
    <3>5. MutexInv'
      BY <1>1, <3>1, <3>3 DEF MutexInv, Scanning, gcVars
    <3>. QED  BY <1>1, <1>2, <3>1, <3>3, <3>4, <3>5 DEF Adding, ThreadInv
  <2>2. CASE AddNewChunkLock(t)
    <3>1. /\ UNCHANGED <<level, chunk, slot>>
          /\ pc' = [pc EXCEPT ![t] = "adding"] /\ pc[t] = "add"
          /\ mutex' = [mutex EXCEPT ![level[t]] = t] /\ mutex[level[t]] = Nobody
      BY <2>2 DEF AddNewChunkLock, GoTo
    <3>2. level[t] = q /\ \A u \in Client : level[u] = q
      BY <1>1 DEF TypeOK
    <3>3. /\ pc'[t] = "adding" /\ \A u \in Client : u # t => pc'[u] = pc[u]
          /\ mutex'[q] = t /\ mutex[q] = Nobody
      BY <1>1, <3>1, <3>2 DEF TypeOK
    <3>4. TypeOK'
      BY <1>1, <1>2, <3>1 DEF TypeOK, queueVars
    <3>5. \A u \in Client : pc[u] # "adding"
      BY <1>1, <3>2, <3>3, ValueAssumption DEF MutexInv
    <3>6. MutexInv'
      BY <1>1, <3>1, <3>2, <3>3, <3>5, ValueAssumption DEF MutexInv, Scanning, gcVars
    <3>. QED  BY <1>1, <1>2, <3>1, <3>3, <3>4, <3>6, ValueAssumption DEF Adding, ThreadInv
  <2>. QED  BY <2>1, <2>2
<1>6. ThreadInv'
  BY <1>1, <1>3, <1>5, ThreadsStay
<1>7. TargetInv'
  BY <1>1, <1>2, <1>3, <1>5, TargetStays
<1>8. ChainInv'
  BY <1>1, <1>2, <1>5, ChainStays DEF queueVars
<1>. QED  BY <1>4, <1>5, <1>6, <1>7, <1>8 DEF GCInv

\* The next node of a new chunk is not in use.
LEMMA GCAddNewChunkStep ==
  ASSUME GCInv, NEW q, Level = {q}, NEW t \in Client, AddNewChunkStep(t), UNCHANGED gcVars
  PROVE  GCInv'
<1>1. /\ TypeOK /\ OwnersInv /\ ThreadInv /\ UsageInv /\ MutexInv /\ TargetInv /\ ChainInv
      /\ GCTypeOK
  BY DEF GCInv
<1>2. PICK id : id = [level |-> level[t], chunk |-> chunk[t], slot |-> slot[t]]
  OBVIOUS
<1>3. /\ AddElement(id) /\ pc[t] = "adding" /\ Adding(t)
      /\ UNCHANGED <<bankVars, live, using, level, chunk, held>>
  BY <1>2 DEF AddNewChunkStep, Adding, bankVars
<1>4. /\ level[t] = q /\ chunk[t] \in Chunk /\ slot[t] \in 0 .. ChunkSize - 1
      /\ chunk[t] \in live /\ slot[t] < Capacity(q)
      /\ \A i \in InUse : i.chunk = chunk[t] => i.slot < slot[t]
      /\ \A u \in Client : level[u] = q
  BY <1>1, <1>3 DEF TypeOK, ThreadInv
<1>5. id \in Id /\ id.level = q /\ id.chunk = chunk[t] /\ id.slot = slot[t]
  BY <1>2, <1>4 DEF Id
<1>6. HasNode(id)
  BY <1>4, <1>5, NullAssumption DEF HasNode
<1>7. id \notin InUse /\ id \notin Queued
  <2>1. slot[t] \in Int
    BY <1>4
  <2>. QED  BY <1>4, <1>5, <2>1 DEF InUse
<1>8. /\ \A u \in Client : u # t => pc'[u] = pc[u] /\ slot'[u] = slot[u]
      /\ \/ /\ pc'[t] = "adding" /\ slot'[t] = slot[t] + 1 /\ slot'[t] < Capacity(q)
            /\ mutex' = mutex /\ slot' = [slot EXCEPT ![t] = @ + 1]
         \/ /\ pc'[t] = "retry" /\ slot' = slot
            /\ mutex' = [mutex EXCEPT ![q] = Nobody]
      /\ pc' \in [Client -> {"idle", "create", "add", "adding", "retry"}]
  BY <1>1, <1>3, <1>4 DEF AddNewChunkStep, MoreNodes, GoTo, TypeOK
<1>9. mutex[q] = t /\ mutex[q] # Collector /\ mutex'[q] # Collector
  BY <1>1, <1>3, <1>4, <1>8, ValueAssumption DEF MutexInv, TypeOK
<1>10. /\ UsageInv' /\ ChainInv'
       /\ \A l \in Level : \A i \in free'[l] : i.level = l
       /\ \A i \in Queued' : i \in Queued \/ i = id
       /\ head' \in [Level -> Id \cup {MP_NULL}]
       /\ tail' \in [Level -> Id \cup {MP_NULL}]
       /\ elements' \in [Level -> Int]
       /\ usage' \in [Level -> [Chunk -> 0 .. CounterRange - 1]]
       /\ recent' \in [Level -> SUBSET Chunk]
       /\ mem' \in [Cell -> Value]
       /\ free' \in [Level -> SUBSET Id]
  BY <1>3, <1>5, <1>6, <1>7, <1>9, AddKeeps
<1>11. Taken' = Taken /\ \A i \in InUse' : i \in InUse \/ i = id
  <2>1. Taken' = Taken
    BY <1>3 DEF Taken
  <2>. QED  BY <1>10, <2>1 DEF InUse
<1>12. OwnersInv'
  <2>1. Taken' \cap Queued' = {}
    BY <1>1, <1>7, <1>10, <1>11 DEF OwnersInv, InUse
  <2>2. \A i \in InUse' : i.chunk \in live' /\ i.level = q
    <3>1. \A i \in InUse : i.chunk \in live /\ i.level = q
      BY <1>1, InUseIds, OneStore DEF OwnersInv
    <3>. QED  BY <1>3, <1>4, <1>5, <1>11, <3>1
  <2>. QED  BY <1>1, <1>3, <1>10, <2>1, <2>2 DEF OwnersInv
<1>13. \A u \in Client : Adding(u)' => Adding(u) /\ (u # t => chunk[u] # chunk[t])
  BY <1>1, <1>3, <1>8 DEF Adding, ThreadInv
<1>14. ThreadInv'
  <2>1. \A u \in Client : pc'[u] \notin {"adding", "retry"} => slot'[u] = 0
    BY <1>1, <1>8 DEF ThreadInv
  <2>2. ASSUME NEW u \in Client, Adding(u)'
        PROVE  /\ chunk'[u] \in live'
               /\ slot'[u] < Capacity(level'[u])
               /\ \A i \in InUse' :
                    i.chunk = chunk'[u] => i.level = level'[u] /\ i.slot < slot'[u]
    <3>0. \A i \in InUse : i.slot \in Int /\ i.level = q
      BY <1>1, InUseIds, IdFields, OneStore
    <3>1. CASE u = t
      <4>1. slot'[t] = slot[t] + 1 /\ slot'[t] < Capacity(q) /\ slot[t] \in Int
        BY <1>4, <1>8, <2>2, <3>1 DEF Adding
      <4>2. \A i \in InUse : i.chunk = chunk[t] => i.slot < slot'[t]
        BY <1>4, <3>0, <4>1
      <4>3. id.slot < slot'[t]
        BY <1>5, <4>1
      <4>. QED  BY <1>3, <1>4, <1>5, <1>11, <3>0, <3>1, <4>1, <4>2, <4>3
    <3>2. CASE u # t
      <4>1. Adding(u) /\ chunk[u] # id.chunk
        BY <1>5, <1>13, <2>2, <3>2
      <4>. QED  BY <1>1, <1>3, <1>8, <1>11, <3>2, <4>1 DEF ThreadInv
    <3>. QED  BY <3>1, <3>2
  <2>. QED  BY <1>1, <1>3, <1>13, <2>1, <2>2 DEF ThreadInv
<1>15. TypeOK'
  <2>1. slot' \in [Client -> 0 .. ChunkSize - 1]
    <3>1. Capacity(q) \in Nat /\ Capacity(q) <= ChunkSize /\ ChunkSize \in Nat
      BY CapacityPositive, SizeAssumption
    <3>2. slot \in [Client -> 0 .. ChunkSize - 1]
      BY <1>1 DEF TypeOK
    <3>3. slot' = slot \/ (slot' = [slot EXCEPT ![t] = @ + 1] /\ slot[t] + 1 < Capacity(q))
      BY <1>8
    <3>. QED  BY <3>1, <3>2, <3>3
  <2>2. mutex' \in [Level -> Client \cup {Collector, Nobody}]
    BY <1>1, <1>8 DEF TypeOK
  <2>. QED  BY <1>1, <1>3, <1>8, <1>10, <2>1, <2>2 DEF TypeOK
<1>16. GCTypeOK'
  BY <1>1, <1>3 DEF GCTypeOK, gcVars
<1>17. MutexInv'
  <2>1. \A u \in Client : u # t => pc[u] # "adding"
    BY <1>1, <1>4, <1>9 DEF MutexInv
  <2>2. ~ Scanning /\ ~ Scanning'
    BY <1>1, <1>9 DEF MutexInv, Scanning, gcVars
  <2>3. \A u \in Client : pc'[u] = "adding" => mutex'[level'[u]] = u
    BY <1>3, <1>4, <1>8, <1>9, <2>1
  <2>. QED  BY <1>9, <2>2, <2>3 DEF MutexInv
<1>18. TargetInv'
  <2>1. Collecting' <=> Collecting
    BY DEF Collecting, Scanning, gcVars
  <2>2. Collecting => id.chunk # target
    BY <1>1, <1>3, <1>5 DEF TargetInv
  <2>3. Collecting => \A u \in Client : Adding(u)' => chunk'[u] # target
    BY <1>1, <1>3, <1>13 DEF TargetInv
  <2>. QED  BY <1>1, <1>3, <1>11, <2>1, <2>2, <2>3 DEF TargetInv, gcVars
<1>. QED  BY <1>10, <1>12, <1>14, <1>15, <1>16, <1>17, <1>18 DEF GCInv

\* The freed element leaves its holder for the queue, or is dropped.
LEMMA GCFreeNode ==
  ASSUME GCInv, NEW q, Level = {q}, NEW t \in Client, NEW id \in held[t], FreeNode(t, id),
         UNCHANGED gcVars
  PROVE  GCInv'
<1>1. /\ TypeOK /\ OwnersInv /\ ThreadInv /\ UsageInv /\ MutexInv /\ TargetInv /\ ChainInv
      /\ GCTypeOK
  BY DEF GCInv
<1>2. /\ AddElement(id) /\ id \in Id /\ id.level = q /\ mutex[q] = Nobody
      /\ held' = [held EXCEPT ![t] = @ \ {id}]
      /\ UNCHANGED <<bankVars, live, using, threadVars, mutex>>
  BY <1>1, OneStore DEF FreeNode, TypeOK, bankVars
<1>3. id \in Taken /\ id \in InUse /\ id \notin Queued
  BY <1>1, InUseMembers DEF InUse, OwnersInv
<1>4. HasNode(id)
  BY <1>1, <1>2, <1>3, NullAssumption DEF HasNode, OwnersInv
<1>5. /\ UsageInv' /\ ChainInv'
      /\ \A l \in Level : \A i \in free'[l] : i.level = l
      /\ \A i \in Queued' : i \in Queued \/ i = id
      /\ head' \in [Level -> Id \cup {MP_NULL}]
      /\ tail' \in [Level -> Id \cup {MP_NULL}]
      /\ elements' \in [Level -> Int]
      /\ usage' \in [Level -> [Chunk -> 0 .. CounterRange - 1]]
      /\ recent' \in [Level -> SUBSET Chunk]
      /\ mem' \in [Cell -> Value]
      /\ free' \in [Level -> SUBSET Id]
  BY <1>2, <1>3, <1>4, AddKeeps, ValueAssumption
<1>6. /\ held'[t] = held[t] \ {id} /\ \A u \in Client : u # t => held'[u] = held[u]
      /\ \A u \in Client : u # t => id \notin held[u]
  BY <1>1, <1>2 DEF TypeOK, OwnersInv
<1>7. /\ \A i \in Taken' : i \in Taken /\ i # id
      /\ \A i \in InUse' : i \in InUse
  <2>1. \A i \in Taken' : i \in Taken /\ i # id
    BY <1>6, InUseMembers, InUseMembersNext
  <2>. QED  BY <1>3, <1>5, <2>1 DEF InUse
<1>8. OwnersInv'
  <2>1. Taken' \cap Queued' = {}
    BY <1>1, <1>5, <1>7 DEF OwnersInv
  <2>2. \A u, v \in Client : u # v => held'[u] \cap held'[v] = {}
    BY <1>1, <1>6 DEF OwnersInv
  <2>. QED  BY <1>1, <1>2, <1>5, <1>7, <2>1, <2>2 DEF OwnersInv
<1>9. \A u \in Client :
        /\ pc'[u] \notin {"adding", "retry"} => slot'[u] = 0
        /\ Adding(u)' => /\ Adding(u) /\ chunk[u] \in live'
                         /\ chunk'[u] = chunk[u] /\ level'[u] = level[u] /\ slot'[u] = slot[u]
  BY <1>1, <1>2 DEF ThreadInv, Adding, threadVars
<1>10. ThreadInv'
  BY <1>1, <1>7, <1>9, ThreadsStay
<1>11. TargetInv'
  BY <1>1, <1>2, <1>7, <1>9, TargetStays
<1>12. TypeOK'
  <2>1. held' \in [Client -> SUBSET Id]
    BY <1>1, <1>2 DEF TypeOK
  <2>. QED  BY <1>1, <1>2, <1>5, <2>1 DEF TypeOK, threadVars
<1>13. MutexInv' /\ GCTypeOK'
  BY <1>1, <1>2 DEF MutexInv, Scanning, GCTypeOK, gcVars, threadVars
<1>. QED  BY <1>5, <1>8, <1>10, <1>11, <1>12, <1>13 DEF GCInv

\* A holder's data touches neither queued nor doomed nodes.
LEMMA GCWriteElement ==
  ASSUME GCInv, NEW q, Level = {q}, NEW t \in Client, NEW id \in held[t], WriteElement(t, id),
         UNCHANGED gcVars
  PROVE  GCInv'
<1>1. /\ TypeOK /\ OwnersInv /\ ThreadInv /\ UsageInv /\ MutexInv /\ TargetInv /\ ChainInv
      /\ GCTypeOK
  BY DEF GCInv
<1>2. /\ mem' = [x \in Cell |-> IF x \in Cells(id) THEN t ELSE mem[x]]
      /\ UNCHANGED <<bankVars, live, using, head, tail, elements, usage, recent, free,
                     threadVars, mutex, held>>
  BY DEF WriteElement, bankVars
<1>3. InUse' = InUse /\ Taken' = Taken /\ Queued' = Queued
  BY <1>2 DEF InUse, Taken, Queued
<1>4. id \in Id /\ id \in InUse /\ id \in Taken
  BY <1>1, InUseMembers DEF InUse, TypeOK
<1>5. ASSUME NEW i \in Id, i # id PROVE mem'[NodeCell(i)] = mem[NodeCell(i)]
  <2>1. NodeCell(i) \in Cells(i) /\ NodeCell(i) \in Cell /\ Cells(i) \cap Cells(id) = {}
    BY <1>4, <1>5, ElementInChunk, OneStore
  <2>. QED  BY <1>2, <2>1
<1>6. ChainInv'
  <2>1. \A i \in free[q] : i \in Id /\ i # id
    BY <1>1, <1>4, InUseMembers DEF TypeOK, OwnersInv
  <2>2. mutex[q] = Collector => \A i \in Doomed : i \in Id /\ i # id
    BY <1>1, <1>4 DEF MutexInv, Collecting, Doomed, TargetInv
  <2>. QED  BY <1>1, <1>2, <1>5, <2>1, <2>2, ChainStays
<1>7. OwnersInv' /\ UsageInv'
  BY <1>1, <1>2, <1>3 DEF OwnersInv, UsageInv, QueuedOf
<1>8. ThreadInv'
  BY <1>1, <1>2, <1>3 DEF ThreadInv, Adding, threadVars
<1>9. TargetInv'
  BY <1>1, <1>2, <1>3, TargetStays DEF Adding, threadVars
<1>10. TypeOK'
  <2>1. mem' \in [Cell -> Value]
    BY <1>1, <1>2 DEF TypeOK, Value
  <2>. QED  BY <1>1, <1>2, <2>1 DEF TypeOK, threadVars
<1>11. MutexInv' /\ GCTypeOK'
  BY <1>1, <1>2 DEF MutexInv, Scanning, GCTypeOK, gcVars, threadVars
<1>. QED  BY <1>6, <1>7, <1>8, <1>9, <1>10, <1>11 DEF GCInv

\* All steps of the pool.
LEMMA GCPoolStep ==
  ASSUME GCInv, ~ MallocMayFail, NEW q, Level = {q}, Next, UNCHANGED gcVars
  PROVE  GCInv'
<1>1. PICK t \in Client :
        \/ \E l \in Level : AllocFirst(t, l)
        \/ AllocStep(t)
        \/ \E id \in held[t] : FreeNode(t, id) \/ WriteElement(t, id)
  BY DEF Next
<1>2. CASE \E l \in Level : AllocFirst(t, l)
  BY <1>2, GCAllocFirst
<1>3. CASE AllocStep(t)
  BY <1>3, GCCreateChunk, GCQuietSteps, GCAddNewChunkStep, GCAllocRetry DEF AllocStep
<1>4. CASE \E id \in held[t] : FreeNode(t, id) \/ WriteElement(t, id)
  BY <1>4, GCFreeNode, GCWriteElement
<1>. QED  BY <1>1, <1>2, <1>3, <1>4

-----------------------------------------------------------------------------
(* The steps of the collector.                                             *)

\* The collector visits the only store.
LEMMA VisitedStore ==
  ASSUME TargetInv, gcpc # "sleep", NEW q, Level = {q}
  PROVE  todo = {q} /\ Visited = q
<1>1. todo = {q} /\ q \in Nat
  BY LevelOrder DEF TargetInv
<1>2. \A n \in {q} : n <= q
  BY <1>1
<1>. QED  BY <1>1, <1>2 DEF Visited, Least

\* The least of some chunks is one of them.
LEMMA LeastChunk ==
  ASSUME NEW S, S \subseteq Chunk, S # {}
  PROVE  Least(S) \in S
<1>1. S \subseteq Nat
  BY SizeAssumption DEF Chunk
<1>2. \E m \in S : \A k \in S : m <= k
  BY <1>1, LeastNatural
<1>. QED  BY <1>2 DEF Least

\* Moving links and head does not change what is in use or counted.
LEMMA UseStays ==
  ASSUME OwnersInv, ThreadInv, UsageInv,
         UNCHANGED <<held, free, live, using, usage, threadVars>>
  PROVE  OwnersInv' /\ ThreadInv' /\ UsageInv' /\ InUse' = InUse
<1>1. InUse' = InUse /\ Taken' = Taken /\ Queued' = Queued
  BY DEF InUse, Taken, Queued
<1>2. OwnersInv' /\ UsageInv'
  BY <1>1 DEF OwnersInv, UsageInv, QueuedOf
<1>3. ThreadInv'
  BY <1>1 DEF ThreadInv, Adding, threadVars
<1>. QED  BY <1>1, <1>2, <1>3

\* The collector starts, finds nothing in the store, or time passes.
LEMMA GCIdleSteps ==
  ASSUME GCInv, NEW q, Level = {q}, StartCollection \/ PickNone \/ IdleTimePasses
  PROVE  GCInv'
<1>1. /\ TypeOK /\ OwnersInv /\ ThreadInv /\ UsageInv /\ MutexInv /\ TargetInv /\ ChainInv
      /\ GCTypeOK
  BY DEF GCInv
<1>2. /\ UNCHANGED <<head, tail, elements, usage, mem, free, mutex, held, live, using,
                     threadVars, target, cur, prev>>
      /\ recent' \in [Level -> SUBSET Chunk]
  BY <1>1 DEF StartCollection, PickNone, IdleTimePasses, TypeOK, vars, bankVars, queueVars, gcVars
<1>3. OwnersInv' /\ ThreadInv' /\ UsageInv' /\ InUse' = InUse
  BY <1>1, <1>2, UseStays
<1>4. TypeOK'
  BY <1>1, <1>2 DEF TypeOK, threadVars
<1>5. /\ Scanning' <=> Scanning
      /\ Collecting' <=> Collecting
      /\ todo' = IF gcpc' = "sleep" THEN {} ELSE Level
      /\ GCTypeOK'
  <2>1. CASE StartCollection
    BY <1>1, <1>2, <2>1, RoundsAssumption
       DEF StartCollection, Scanning, Collecting, GCTypeOK
  <2>2. CASE PickNone
    <3>1. gcpc = "scan" /\ todo' = todo \ {Visited} /\ gcpc' = (IF todo' = {} THEN "sleep" ELSE "scan")
          /\ rounds' = rounds
      BY <2>2 DEF PickNone, NextStore
    <3>2. todo' = {} /\ gcpc' = "sleep"
      BY <1>1, <3>1, VisitedStore
    <3>. QED  BY <1>1, <1>2, <3>1, <3>2 DEF Scanning, Collecting, GCTypeOK
  <2>3. CASE IdleTimePasses
    BY <1>1, <1>2, <2>3 DEF IdleTimePasses, gcVars, Scanning, Collecting, GCTypeOK, TargetInv
  <2>. QED  BY <2>1, <2>2, <2>3
<1>6. MutexInv'
  BY <1>1, <1>2, <1>5 DEF MutexInv, threadVars
<1>7. TargetInv'
  BY <1>1, <1>2, <1>3, <1>5 DEF TargetInv, Adding, threadVars
<1>8. ChainInv'
  <2>1. CASE Scanning
    <3>1. gcpc' = gcpc
      BY <2>1 DEF StartCollection, PickNone, IdleTimePasses, Scanning, gcVars
    <3>2. Doomed' = Doomed
      BY <1>2 DEF Doomed
    <3>. QED  BY <1>1, <1>2, <3>1, <3>2 DEF ChainInv, Scanned
  <2>2. CASE ~ Scanning
    BY <1>1, <1>2, <2>2 DEF ChainInv, MutexInv
  <2>. QED  BY <2>1, <2>2
<1>. QED  BY <1>3, <1>4, <1>5, <1>6, <1>7, <1>8 DEF GCInv

\* A chunk whose counter has reached the capacity has all its nodes queued, so
\* nobody holds or adds one.
LEMMA RecyclableIsUnused ==
  ASSUME TypeOK, OwnersInv, ThreadInv, UsageInv, NEW q, Level = {q}, NEW c \in Recyclable(q)
  PROVE  /\ c \in live
         /\ \A i \in Taken : i.chunk # c
         /\ \A t \in Client : Adding(t) => chunk[t] # c
<1> DEFINE All == {i \in Id : i.chunk = c}
<1>1. c \in Chunk /\ usage[q][c] >= Capacity(q) /\ usage[q][c] = Cardinality(QueuedOf(q, c))
  BY DEF Recyclable, UsageInv
<1>2. Capacity(q) \in Nat /\ Capacity(q) >= 1 /\ Capacity(q) <= ChunkSize
  BY CapacityPositive
<1>3. /\ All \in SUBSET Id /\ QueuedOf(q, c) \subseteq All
      /\ \A i \in All : i.level = q /\ i.chunk = c
  BY OneStore DEF QueuedOf, TypeOK
<1>4. IsFiniteSet(All) /\ Cardinality(All) \in Nat
  BY <1>1, <1>3, ChunkFits
<1>5. Cardinality(All) <= Capacity(q)
  <2> DEFINE g == [i \in All |-> i.slot]
             T == 0 .. Capacity(q) - 1
  <2>1. \A i \in All : i.slot \in T
    BY <1>2, <1>3, IdFields
  <2>2. \A i, j \in All : i.slot = j.slot => i = j
    BY <1>3 DEF Id
  <2>3. g \in Injection(All, T)
    BY <2>1, <2>2 DEF Injection, IsInjective
  <2>4. IsFiniteSet(T) /\ Cardinality(T) = Capacity(q)
    BY <1>2, FS_Interval
  <2>. HIDE DEF g, T, All
  <2>. QED  BY <2>3, <2>4, FS_Injection
<1>. HIDE DEF All
<1>6. QueuedOf(q, c) = All
  <2>1. Cardinality(QueuedOf(q, c)) <= Cardinality(All) /\ Cardinality(QueuedOf(q, c)) \in Nat
    BY <1>3, <1>4, FS_Subset, FS_CardinalityType
  <2>2. Cardinality(QueuedOf(q, c)) = Cardinality(All)
    BY <1>1, <1>2, <1>4, <1>5, <2>1
  <2>. QED  BY <1>3, <1>4, <2>2, FS_Subset
<1>7. \A i \in All : i \in Queued /\ i \in InUse
  BY <1>6, InUseMembers DEF QueuedOf, InUse
<1>8. \A k \in 0 .. Capacity(q) - 1 : [level |-> q, chunk |-> c, slot |-> k] \in All
  <2> SUFFICES ASSUME NEW k \in 0 .. Capacity(q) - 1
               PROVE  [level |-> q, chunk |-> c, slot |-> k] \in All
    OBVIOUS
  <2>1. k \in 0 .. ChunkSize - 1 /\ k < Capacity(q)
    BY <1>2, SizeAssumption
  <2>. QED  BY <1>1, <2>1 DEF Id, All
<1>9. c \in live
  <2>1. [level |-> q, chunk |-> c, slot |-> 0] \in All
    BY <1>2, <1>8
  <2>. QED  BY <1>7, <2>1 DEF OwnersInv
<1>10. \A i \in Taken : i.chunk # c
  <2>1. \A i \in Taken : i \in Id /\ i \notin Queued
    BY InUseMembers DEF TypeOK, OwnersInv
  <2>. QED  BY <1>7, <2>1 DEF All
<1>11. ASSUME NEW t \in Client, Adding(t), chunk[t] = c PROVE FALSE
  <2>1. /\ slot[t] \in Nat /\ slot[t] < Capacity(q)
        /\ \A i \in InUse : i.chunk = c => i.slot < slot[t]
    BY <1>11 DEF ThreadInv, TypeOK
  <2>2. slot[t] \in 0 .. Capacity(q) - 1
    BY <1>2, <2>1
  <2>3. [level |-> q, chunk |-> c, slot |-> slot[t]] \in InUse
    BY <1>7, <1>8, <2>2
  <2>. QED  BY <2>1, <2>3
<1>. QED  BY <1>9, <1>10, <1>11

\* The collector takes a chunk out of the queue: the links still lead to its
\* nodes, but nobody can follow them while it has the mutex.
LEMMA GCPickChunk ==
  ASSUME GCInv, NEW q, Level = {q}, PickChunk
  PROVE  GCInv'
<1>1. /\ TypeOK /\ OwnersInv /\ ThreadInv /\ UsageInv /\ MutexInv /\ TargetInv /\ ChainInv
      /\ GCTypeOK /\ q \in Level
  BY DEF GCInv
<1>2. Visited = q /\ todo = {q} /\ gcpc = "scan"
  BY <1>1, VisitedStore DEF PickChunk
<1>3. /\ target' = Least(Recyclable(q)) /\ Recyclable(q) # {}
      /\ mutex' = [mutex EXCEPT ![q] = Collector] /\ mutex[q] = Nobody
      /\ usage' = [usage EXCEPT ![q][target'] = 0]
      /\ recent' = [recent EXCEPT ![q] = @ \ {target'}]
      /\ free' = [free EXCEPT ![q] = {i \in @ : i.chunk # target'}]
      /\ cur' = head[q] /\ gcpc' = "skip"
      /\ UNCHANGED <<live, using, head, tail, elements, mem, pc, level, chunk, slot, held,
                     rounds, todo, prev>>
  BY <1>2 DEF PickChunk, bankVars, threadVars
<1>4. PICK d : d = target'
  OBVIOUS
<1>5. d \in Recyclable(q)
  BY <1>3, <1>4, LeastChunk DEF Recyclable
<1>6. /\ d \in live /\ d \in Chunk
      /\ \A i \in Taken : i.chunk # d
      /\ \A t \in Client : Adding(t) => chunk[t] # d
  BY <1>1, <1>5, RecyclableIsUnused DEF Recyclable
<1>7. free'[q] = {i \in free[q] : i.chunk # d} /\ free[q] \subseteq Id
  BY <1>1, <1>3, <1>4 DEF TypeOK
<1>8. /\ \A i : i \in Queued' <=> i \in Queued /\ i.chunk # d
      /\ Taken' = Taken
  <2>1. Taken' = Taken
    BY <1>3 DEF Taken
  <2>. QED  BY <1>1, <1>7, <2>1, InUseMembers, InUseMembersNext
<1>9. \A i \in InUse' : i \in InUse /\ i.chunk # d
  BY <1>6, <1>8 DEF InUse
<1>10. TypeOK'
  <2>1. usage' \in [Level -> [Chunk -> 0 .. CounterRange - 1]]
    <3>1. 0 \in 0 .. CounterRange - 1
      BY CounterAssumption, SizeAssumption
    <3>. QED  BY <1>1, <1>3, <1>4, <1>6, <3>1 DEF TypeOK
  <2>2. /\ recent' \in [Level -> SUBSET Chunk] /\ free' \in [Level -> SUBSET Id]
        /\ mutex' \in [Level -> Client \cup {Collector, Nobody}]
    BY <1>1, <1>3 DEF TypeOK
  <2>. QED  BY <1>1, <1>3, <2>1, <2>2 DEF TypeOK
<1>11. GCTypeOK'
  BY <1>1, <1>3, <1>4, <1>6 DEF GCTypeOK, TypeOK, Value
<1>12. OwnersInv'
  <2>1. \A l \in Level : \A i \in free'[l] : i.level = l
    BY <1>1, <1>7 DEF OwnersInv
  <2>. QED  BY <1>1, <1>3, <1>8, <1>9, <2>1 DEF OwnersInv
<1>13. ThreadInv'
  BY <1>1, <1>3, <1>9 DEF ThreadInv, Adding
<1>14. UsageInv'
  <2>1. ASSUME NEW c \in Chunk PROVE usage'[q][c] = Cardinality(QueuedOf(q, c)')
    <3>1. usage[q][c] = Cardinality(QueuedOf(q, c))
      BY <1>1 DEF UsageInv
    <3>2. CASE c = d
      <4>1. QueuedOf(q, c)' = {} /\ usage'[q][c] = 0
        BY <1>1, <1>3, <1>4, <1>7, <3>2 DEF QueuedOf, TypeOK
      <4>. QED  BY <4>1, FS_EmptySet
    <3>3. CASE c # d
      <4>1. QueuedOf(q, c)' = QueuedOf(q, c) /\ usage'[q][c] = usage[q][c]
        BY <1>1, <1>3, <1>4, <1>7, <3>3 DEF QueuedOf, TypeOK
      <4>. QED  BY <3>1, <4>1
    <3>. QED  BY <3>2, <3>3
  <2>. QED  BY <1>1, <1>3, <2>1 DEF UsageInv
<1>15. mutex'[q] = Collector
  BY <1>1, <1>3 DEF TypeOK
<1>16. MutexInv'
  <2>1. \A t \in Client : level[t] = q /\ pc[t] # "adding"
    BY <1>1, <1>3, ValueAssumption DEF MutexInv, TypeOK
  <2>. QED  BY <1>3, <1>15, <2>1 DEF MutexInv, Scanning
<1>17. TargetInv'
  BY <1>2, <1>3, <1>4, <1>6, <1>9 DEF TargetInv, Collecting, Scanning, Adding
<1>18. ChainInv'
  <2>1. Leads(mem, free[q], head[q], tail[q])
    BY <1>1, <1>3, ValueAssumption DEF ChainInv
  <2>2. PICK G : G = free'[q] \cup Doomed'
    OBVIOUS
  <2>3. free[q] \subseteq G
    BY <1>4, <1>7, <2>2 DEF Doomed
  <2>4. Leads(mem, G, head[q], tail[q])
    BY <2>1, <2>3, LeadsGrows
  <2>5. Scanned(q)'
    BY <1>3, <2>2, <2>4 DEF Scanned
  <2>. QED  BY <1>15, <2>5 DEF ChainInv
<1>. QED  BY <1>10, <1>11, <1>12, <1>13, <1>14, <1>16, <1>17, <1>18 DEF GCInv

\* The parts of the invariant that following the links does not touch.
LEMMA ScanKeepsRest ==
  ASSUME GCInv, NEW q, Level = {q}, Scanning, Scanning',
         UNCHANGED <<bankVars, elements, usage, recent, free, threadVars, mutex, held,
                     rounds, todo, target>>,
         TypeOK', {cur', prev'} \subseteq Value, Scanned(q)'
  PROVE  GCInv'
<1>1. /\ TypeOK /\ OwnersInv /\ ThreadInv /\ UsageInv /\ MutexInv /\ TargetInv /\ ChainInv
      /\ GCTypeOK
  BY DEF GCInv
<1>2. UNCHANGED <<live, using>> /\ gcpc # "sleep" /\ gcpc' # "sleep"
  BY DEF bankVars, Scanning
<1>3. OwnersInv' /\ ThreadInv' /\ UsageInv' /\ InUse' = InUse
  BY <1>1, <1>2, UseStays
<1>4. GCTypeOK'
  BY <1>1, <1>2 DEF GCTypeOK, Scanning
<1>5. MutexInv'
  BY <1>1 DEF MutexInv, threadVars
<1>6. TargetInv'
  BY <1>1, <1>2, <1>3 DEF TargetInv, Collecting, Adding, threadVars
<1>7. ChainInv'
  <2>1. mutex'[q] = Collector
    BY <1>1 DEF MutexInv
  <2>. QED  BY <2>1 DEF ChainInv
<1>. QED  BY <1>3, <1>4, <1>5, <1>6, <1>7 DEF GCInv

\* While the collector follows the links, every node it can meet has memory;
\* one that is not doomed is queued.
LEMMA ScanMeets ==
  ASSUME GCInv, NEW q, Level = {q}, Scanning
  PROVE  /\ Visited = q /\ Scanned(q) /\ free[q] \subseteq Id
         /\ free[q] \cup Doomed \subseteq Id
         /\ \A i \in free[q] : HasNode(i)
         /\ \A i \in free[q] \cup Doomed :
              i # MP_NULL /\ (i \in free[q] \/ (HasNode(i) /\ i.chunk = target))
<1>1. /\ TypeOK /\ OwnersInv /\ TargetInv /\ q \in Level
  BY DEF GCInv
<1>2. Visited = q
  BY <1>1, VisitedStore DEF Scanning
<1>3. Scanned(q)
  BY DEF GCInv, MutexInv, ChainInv
<1>4. free[q] \subseteq Id /\ \A i \in free[q] : HasNode(i) /\ i # MP_NULL
  BY <1>1, QueuedHaveMemory
<1>5. \A i \in Doomed : i \in Id /\ i # MP_NULL /\ i.chunk = target /\ HasNode(i)
  BY <1>1, NullAssumption DEF Doomed, TargetInv, Collecting, HasNode
<1>. QED  BY <1>2, <1>3, <1>4, <1>5

\* The first loop: doomed nodes at the head are passed, and the first other
\* node becomes the head.
LEMMA GCSkipHead ==
  ASSUME GCInv, NEW q, Level = {q}, SkipHead
  PROVE  GCInv'
<1> DEFINE G == free[q] \cup Doomed
<1>1. TypeOK /\ GCTypeOK /\ gcpc = "skip" /\ Scanning
  BY DEF GCInv, SkipHead, Scanning
<1>2. /\ Visited = q /\ free[q] \subseteq Id /\ G \subseteq Id
      /\ \A i \in G : i # MP_NULL /\ (i \in free[q] \/ (HasNode(i) /\ i.chunk = target))
  BY <1>1, ScanMeets
<1>3. Leads(mem, G, cur, tail[q])
  BY <1>1, ScanMeets DEF Scanned
<1>4. /\ UNCHANGED <<bankVars, tail, elements, usage, recent, mem, free, threadVars, mutex,
                     held, rounds, todo, target>>
      /\ Doomed' = Doomed
  BY DEF SkipHead, Doomed
<1>. HIDE DEF G
<1>5. cur # MP_NULL => cur \in G /\ Leads(mem, G \ {cur}, mem[NodeCell(cur)], tail[q])
  BY <1>3, LeadsAdvances
<1>6. CASE InTarget
  <2>1. cur' = mem[NodeCell(cur)] /\ UNCHANGED <<head, prev, gcpc>>
    BY <1>6 DEF SkipHead
  <2>2. Leads(mem, G \ {cur}, mem[NodeCell(cur)], tail[q])
    BY <1>5, <1>6 DEF InTarget, HasNode
  <2>3. Leads(mem, G, mem[NodeCell(cur)], tail[q])
    BY <2>2, LeadsGrows
  <2>4. mem[NodeCell(cur)] = MP_NULL \/ mem[NodeCell(cur)] \in G
    BY <2>2 DEF Leads, Segment
  <2>5. cur' \in Value /\ prev' \in Value
    BY <1>1, <1>2, <2>1, <2>4 DEF Value, GCTypeOK
  <2>6. Scanned(q)'
    BY <1>1, <1>4, <2>1, <2>3 DEF Scanned, G
  <2>7. TypeOK' /\ Scanning'
    BY <1>1, <1>4, <2>1 DEF TypeOK, Scanning, bankVars, threadVars
  <2>. QED  BY <1>1, <1>4, <2>5, <2>6, <2>7, ScanKeepsRest
<1>7. CASE ~ InTarget
  <2>1. /\ head' = [head EXCEPT ![q] = cur] /\ prev' = cur /\ gcpc' = "follow" /\ cur' = cur
    BY <1>1, <1>2, <1>7 DEF SkipHead, NewHead, InTarget
  <2>2. cur = MP_NULL \/ cur \in free[q]
    BY <1>2, <1>5, <1>7 DEF InTarget
  <2>3. TypeOK' /\ Scanning'
    BY <1>1, <1>2, <1>4, <2>1, <2>2 DEF TypeOK, Scanning, bankVars, threadVars
  <2>4. head'[q] = cur
    BY <1>1, <2>1 DEF TypeOK
  <2>5. cur' \in Value /\ prev' \in Value
    BY <1>1, <2>1 DEF GCTypeOK
  <2>6. Scanned(q)'
    <3>1. CASE cur = MP_NULL
      <4>1. Leads(mem, free[q], MP_NULL, tail[q])
        BY LeadsNowhere
      <4>. QED  BY <1>4, <2>1, <2>4, <3>1, <4>1 DEF Scanned
    <3>2. CASE cur # MP_NULL
      <4>1. Splits(mem, free[q], G, cur, cur, mem[NodeCell(cur)], tail[q])
        BY <1>3, <2>2, <3>2, LeadsSplits
      <4>. QED  BY <1>4, <2>1, <2>4, <3>2, <4>1 DEF Scanned, G
    <3>. QED  BY <3>1, <3>2
  <2>. QED  BY <1>1, <1>4, <2>3, <2>5, <2>6, ScanKeepsRest
<1>. QED  BY <1>6, <1>7

\* The outer loop reads the link of the last kept node.
LEMMA GCFollowLink ==
  ASSUME GCInv, NEW q, Level = {q}, FollowLink
  PROVE  GCInv'
<1> DEFINE G == free[q] \cup Doomed
<1>1. TypeOK /\ GCTypeOK /\ gcpc = "follow" /\ Scanning /\ prev # MP_NULL
  BY DEF GCInv, FollowLink, Scanning, HasNode
<1>2. Splits(mem, free[q], G, head[q], prev, mem[NodeCell(prev)], tail[q])
  BY <1>1, ScanMeets DEF Scanned
<1>3. prev \in Id
  BY <1>1, <1>2, ScanMeets DEF Splits, Kept
<1>4. /\ UNCHANGED <<bankVars, head, tail, elements, usage, recent, mem, free, threadVars,
                     mutex, held, rounds, todo, target, prev>>
      /\ cur' = mem[NodeCell(prev)] /\ gcpc' = "unlink" /\ Doomed' = Doomed
  BY DEF FollowLink, Doomed, vars, queueVars
<1>5. cur' \in Value /\ prev' \in Value
  BY <1>1, <1>3, <1>4, ElementInChunk DEF TypeOK, GCTypeOK
<1>6. Scanned(q)'
  BY <1>2, <1>4 DEF Scanned
<1>7. TypeOK' /\ Scanning'
  BY <1>1, <1>4 DEF TypeOK, Scanning, bankVars, threadVars
<1>. QED  BY <1>1, <1>4, <1>5, <1>6, <1>7, ScanKeepsRest

\* The inner loop: doomed nodes behind a kept one are passed, and the first
\* other node is linked to it, or MP_NULL.
LEMMA GCUnlink ==
  ASSUME GCInv, NEW q, Level = {q}, Unlink
  PROVE  GCInv'
<1> DEFINE G == free[q] \cup Doomed
<1>1. TypeOK /\ GCTypeOK /\ gcpc = "unlink" /\ Scanning
  BY DEF GCInv, Unlink, Scanning
<1>2. /\ Visited = q /\ free[q] \subseteq Id /\ G \subseteq Id /\ free[q] \subseteq G
      /\ \A i \in G : i # MP_NULL /\ (i \in free[q] \/ (HasNode(i) /\ i.chunk = target))
      /\ \A i, j \in G : i # j => NodeCell(i) # NodeCell(j)
  BY <1>1, ScanMeets, OneStore
<1>3. /\ mem[NodeCell(prev)] = MP_NULL => cur = MP_NULL
      /\ Splits(mem, free[q], G, head[q], prev, cur, tail[q])
  BY <1>1, ScanMeets DEF Scanned
<1>4. prev \in free[q]
  BY <1>3 DEF Splits, Kept
<1>5. prev \in Id /\ NodeCell(prev) \in Cell
  BY <1>2, <1>4, ElementInChunk
<1>6. /\ UNCHANGED <<bankVars, head, tail, elements, usage, recent, free, threadVars, mutex,
                     held, rounds, todo, target>>
      /\ Doomed' = Doomed
  BY DEF Unlink, Doomed
<1>. HIDE DEF G
<1>7. cur # MP_NULL => cur \in G /\ Splits(mem, free[q], G, head[q], prev, mem[NodeCell(cur)], tail[q])
  BY <1>3, SplitsAdvances
<1>8. CASE InTarget
  <2>1. cur' = mem[NodeCell(cur)] /\ UNCHANGED <<mem, prev, gcpc>> /\ cur # MP_NULL
    BY <1>8 DEF Unlink, InTarget, HasNode
  <2>2. Splits(mem, free[q], G, head[q], prev, mem[NodeCell(cur)], tail[q])
    BY <1>7, <2>1
  <2>3. cur' \in Value /\ prev' \in Value
    BY <1>1, <1>2, <1>7, <2>1, ElementInChunk DEF TypeOK, GCTypeOK
  <2>4. Scanned(q)'
    BY <1>1, <1>3, <1>6, <2>1, <2>2 DEF Scanned, G
  <2>5. TypeOK' /\ Scanning'
    BY <1>1, <1>6, <2>1 DEF TypeOK, Scanning, bankVars, threadVars
  <2>. QED  BY <1>1, <1>6, <2>3, <2>4, <2>5, ScanKeepsRest
<1>9. CASE ~ InTarget
  <2>1. /\ mem' = [mem EXCEPT ![NodeCell(prev)] = cur] /\ prev' = cur /\ gcpc' = "follow"
        /\ cur' = cur
    BY <1>9 DEF Unlink, InTarget
  <2>2. cur = MP_NULL \/ cur \in free[q]
    BY <1>2, <1>7, <1>9 DEF InTarget
  <2>3. mem \in [Cell -> Value] /\ mem' \in [Cell -> Value]
    BY <1>1, <2>1 DEF TypeOK, GCTypeOK
  <2>4. TypeOK' /\ Scanning'
    BY <1>1, <1>6, <2>1, <2>3 DEF TypeOK, Scanning, bankVars, threadVars
  <2>5. cur' \in Value /\ prev' \in Value
    BY <1>1, <2>1 DEF GCTypeOK
  <2>6. PICK n : n = [mem EXCEPT ![NodeCell(prev)] = cur]
    OBVIOUS
  <2>7. Scanned(q)'
    <3>1. CASE cur = MP_NULL
      <4>1. Leads(n, free[q], head[q], tail[q])
        BY <1>2, <1>3, <2>3, <2>6, <3>1, SplitsEnds
      <4>. QED  BY <1>6, <2>1, <2>6, <3>1, <4>1 DEF Scanned
    <3>2. CASE cur # MP_NULL
      <4>1. Splits(n, free[q], G, head[q], cur, n[NodeCell(cur)], tail[q])
        BY <1>2, <1>3, <2>2, <2>3, <2>6, <3>2, SplitsJoins
      <4>. QED  BY <1>6, <2>1, <2>6, <3>2, <4>1 DEF Scanned, G
    <3>. QED  BY <3>1, <3>2
  <2>. QED  BY <1>1, <1>6, <2>4, <2>5, <2>7, ScanKeepsRest
<1>. QED  BY <1>8, <1>9

\* The collector leaves the queue to the threads: it leads to queued elements.
LEMMA GCScanDone ==
  ASSUME GCInv, NEW q, Level = {q}, ScanDone
  PROVE  GCInv'
<1> DEFINE G == free[q] \cup Doomed
<1>1. /\ TypeOK /\ OwnersInv /\ ThreadInv /\ UsageInv /\ MutexInv /\ TargetInv /\ GCTypeOK
      /\ gcpc = "follow" /\ Scanning
  BY DEF GCInv, ScanDone, Scanning
<1>2. Visited = q /\ Scanned(q) /\ \A i \in free[q] : HasNode(i)
  BY <1>1, ScanMeets
<1>3. /\ UNCHANGED <<live, using, head, tail, elements, usage, recent, mem, free, threadVars,
                     held, rounds, todo, target>>
      /\ mutex' = [mutex EXCEPT ![q] = Nobody]
      /\ cur' = MP_NULL /\ prev' = MP_NULL /\ gcpc' = "destroy" /\ ~ HasNode(prev)
  BY <1>2 DEF ScanDone, bankVars, queueVars
<1>4. Leads(mem, free[q], head[q], tail[q])
  <2>1. ASSUME Splits(mem, free[q], G, head[q], prev, mem[NodeCell(prev)], tail[q]) PROVE FALSE
    <3>1. prev \in free[q]
      BY <2>1 DEF Splits, Kept
    <3>. QED  BY <1>2, <1>3, <3>1
  <2>. QED  BY <1>1, <1>2, <2>1 DEF Scanned
<1>5. OwnersInv' /\ ThreadInv' /\ UsageInv' /\ InUse' = InUse
  BY <1>1, <1>3, UseStays
<1>6. TypeOK'
  BY <1>1, <1>3 DEF TypeOK, threadVars
<1>7. GCTypeOK'
  BY <1>1, <1>3 DEF GCTypeOK, Value
<1>8. mutex'[q] = Nobody
  BY <1>1, <1>3 DEF TypeOK
<1>9. MutexInv'
  <2>1. \A t \in Client : level[t] = q /\ pc[t] # "adding"
    BY <1>1, ValueAssumption DEF MutexInv, TypeOK
  <2>. QED  BY <1>3, <1>8, <2>1, ValueAssumption DEF MutexInv, Scanning, threadVars
<1>10. TargetInv'
  BY <1>1, <1>3, <1>5 DEF TargetInv, Collecting, Scanning, Adding, threadVars
<1>11. ChainInv'
  BY <1>3, <1>4, <1>8, ValueAssumption DEF ChainInv
<1>. QED  BY <1>5, <1>6, <1>7, <1>9, <1>10, <1>11 DEF GCInv

\* The bank frees a chunk nobody uses: no link of the queue leads into it.
LEMMA GCDestroyChunk ==
  ASSUME GCInv, NEW q, Level = {q}, DestroyChunk
  PROVE  GCInv'
<1>1. /\ TypeOK /\ OwnersInv /\ ThreadInv /\ UsageInv /\ MutexInv /\ TargetInv /\ ChainInv
      /\ GCTypeOK /\ q \in Level /\ gcpc = "destroy" /\ Collecting /\ ~ Scanning
  BY DEF GCInv, DestroyChunk, Collecting, Scanning
<1>2. Visited = q /\ todo = {q}
  BY <1>1, VisitedStore
<1>3. /\ live' = live \ {target} /\ using' = using - 1
      /\ mem' = [x \in Cell |-> IF x[1] = target THEN Junk ELSE mem[x]]
      /\ target' = 0 /\ todo' = {} /\ gcpc' = "sleep"
      /\ UNCHANGED <<head, tail, elements, usage, recent, free, threadVars, mutex, held,
                     rounds, cur, prev>>
  BY <1>2 DEF DestroyChunk, NextStore
<1>4. /\ target \in live
      /\ \A i \in InUse : i.chunk # target
      /\ \A t \in Client : Adding(t) => chunk[t] # target
  BY <1>1 DEF TargetInv
<1>5. InUse' = InUse /\ Taken' = Taken /\ Queued' = Queued
  BY <1>3 DEF InUse, Taken, Queued
<1>6. OwnersInv'
  BY <1>1, <1>3, <1>4, <1>5 DEF OwnersInv
<1>7. ThreadInv'
  BY <1>1, <1>3, <1>4, <1>5 DEF ThreadInv, Adding, threadVars
<1>8. UsageInv'
  <2>1. IsFiniteSet(live') /\ using' = Cardinality(live')
    BY <1>1, <1>3, <1>4, FS_RemoveElement DEF UsageInv
  <2>. QED  BY <1>1, <1>3, <2>1 DEF UsageInv, QueuedOf
<1>9. using' \in Nat
  BY <1>8, FS_CardinalityType DEF UsageInv
<1>10. 0 \in Chunk
  BY SizeAssumption DEF Chunk
<1>11. TypeOK'
  <2>1. mem' \in [Cell -> Value]
    BY <1>1, <1>3 DEF TypeOK, Value
  <2>. QED  BY <1>1, <1>3, <1>9, <2>1 DEF TypeOK, threadVars
<1>12. GCTypeOK'
  BY <1>1, <1>3, <1>9, <1>10 DEF GCTypeOK
<1>13. MutexInv'
  BY <1>1, <1>3 DEF MutexInv, Scanning, threadVars
<1>14. TargetInv'
  BY <1>3 DEF TargetInv, Collecting, Scanning
<1>15. ChainInv'
  <2>1. Leads(mem, free[q], head[q], tail[q])
    BY <1>1 DEF ChainInv, MutexInv
  <2>2. ASSUME NEW i \in free[q] PROVE mem'[NodeCell(i)] = mem[NodeCell(i)]
    <3>1. i \in Id /\ i.chunk # target
      BY <1>1, <1>4, QueuedHaveMemory
    <3>2. NodeCell(i) \in Cell /\ NodeCell(i)[1] = i.chunk
      BY <3>1, ElementInChunk
    <3>. QED  BY <1>3, <3>1, <3>2
  <2>3. Leads(mem', free[q], head[q], tail[q])
    BY <2>1, <2>2, LeadsStays
  <2>4. mutex[q] # Collector
    BY <1>1 DEF MutexInv
  <2>. QED  BY <1>3, <2>3, <2>4 DEF ChainInv
<1>. QED  BY <1>6, <1>7, <1>8, <1>11, <1>12, <1>13, <1>14, <1>15 DEF GCInv

-----------------------------------------------------------------------------
(* The theorems.                                                           *)

LEMMA GCInit ==
  ASSUME NEW q, Level = {q}, InitGC
  PROVE  GCInv
<1>1. IInv /\ CountInv /\ free[q] = {} /\ live = {} /\ head[q] = MP_NULL
      /\ mutex[q] = Nobody /\ gcpc = "sleep" /\ todo = {}
      /\ \A t \in Client : pc[t] = "idle"
  BY InitInv, CountInit DEF InitGC, Init
<1>2. TypeOK /\ OwnersInv /\ ThreadInv /\ UsageInv
  BY <1>1 DEF IInv, CountInv, UsageInv
<1>3. GCTypeOK
  <2>1. 0 \in Chunk
    BY SizeAssumption DEF Chunk
  <2>. QED  BY <1>2, <2>1, RoundsAssumption DEF GCTypeOK, InitGC, TypeOK, Value
<1>4. MutexInv /\ TargetInv
  BY <1>1, ValueAssumption DEF MutexInv, TargetInv, Scanning, Collecting
<1>5. ChainInv
  BY <1>1, LeadsNowhere, ValueAssumption DEF ChainInv
<1>. QED  BY <1>2, <1>3, <1>4, <1>5 DEF GCInv

LEMMA GCNext ==
  ASSUME GCInv, ~ MallocMayFail, NEW q, Level = {q}, [NextGC]_allVars
  PROVE  GCInv'
<1>1. CASE Next /\ UNCHANGED gcVars
  BY <1>1, GCPoolStep
<1>2. CASE CollectorStep \/ IdleTimePasses
  BY <1>2, GCIdleSteps, GCPickChunk, GCSkipHead, GCFollowLink, GCUnlink, GCScanDone,
     GCDestroyChunk DEF CollectorStep
<1>3. CASE UNCHANGED allVars
  <2>1. UNCHANGED <<head, tail, elements, usage, recent, mem, free, mutex, held, live, using,
                    threadVars, rounds, gcpc, todo, target, cur, prev>>
    BY <1>3 DEF allVars, vars, bankVars, queueVars, gcVars
  <2>2. /\ TypeOK /\ OwnersInv /\ ThreadInv /\ UsageInv /\ MutexInv /\ TargetInv /\ ChainInv
        /\ GCTypeOK
    BY DEF GCInv
  <2>3. OwnersInv' /\ ThreadInv' /\ UsageInv' /\ InUse' = InUse
    BY <2>1, <2>2, UseStays
  <2>4. TypeOK' /\ GCTypeOK' /\ MutexInv'
    BY <2>1, <2>2 DEF TypeOK, GCTypeOK, MutexInv, Scanning, threadVars
  <2>5. TargetInv'
    BY <2>1, <2>2, <2>3 DEF TargetInv, Collecting, Scanning, Adding, threadVars
  <2>6. ChainInv'
    BY <2>1, <2>2, ChainStays DEF gcVars
  <2>. QED  BY <2>3, <2>4, <2>5, <2>6 DEF GCInv
<1>. QED  BY <1>1, <1>2, <1>3 DEF NextGC

\* The invariant holds of every reachable state of the pool with its collector.
THEOREM CollectorInvariant ==
  ASSUME ~ MallocMayFail, NEW q, Level = {q}
  PROVE  SpecGC => []GCInv
<1>1. InitGC => GCInv
  BY GCInit
<1>2. GCInv /\ [NextGC]_allVars => GCInv'
  BY GCNext
<1>. QED  BY <1>1, <1>2, PTL DEF SpecGC

\* The collector's variables keep their types; the bank's counter of chunks
\* does not become negative, although destroyChunk decrements it unchecked.
THEOREM CollectorTypes ==
  ASSUME ~ MallocMayFail, NEW q, Level = {q}
  PROVE  SpecGC => []GCTypeOK
<1>1. GCInv => GCTypeOK
  BY DEF GCInv
<1>. QED  BY <1>1, CollectorInvariant, PTL

\* For any number of chunks, elements and threads, what the collector destroys
\* is not in use, although it gave the store's mutex back before.
THEOREM CollectorSparesUsed ==
  ASSUME ~ MallocMayFail, NEW q, Level = {q}
  PROVE  SpecGC => []CollectsUnusedOnly
<1>1. GCInv => CollectsUnusedOnly
  BY DEF GCInv, TargetInv, Collecting, InUse, CollectsUnusedOnly
<1>. QED  BY <1>1, CollectorInvariant, PTL

\* With one store, elements given out by different calls of alloc share no
\* memory, also after chunks were collected and their indices used again.
THEOREM CollectorKeepsElementsApart ==
  ASSUME ~ MallocMayFail, NEW q, Level = {q}
  PROVE  SpecGC => []ElementsAreNew
<1>1. GCInv => ElementsAreNew
  <2> SUFFICES ASSUME GCInv PROVE ElementsAreNew
    OBVIOUS
  <2>1. \A i \in Taken : i \in Id
    BY InUseMembers DEF GCInv, TypeOK
  <2>. QED  BY <2>1, OneStore DEF GCInv, OwnersInv, ElementsAreNew
<1>. QED  BY <1>1, CollectorInvariant, PTL

\* Following links from the head never leaves a set that holds the head and
\* what its members' links lead to.
LEMMA ReachedWithin ==
  ASSUME NEW l \in Level, NEW S, MP_NULL \notin S, head[l] = MP_NULL \/ head[l] \in S,
         \A i \in S : mem[NodeCell(i)] = MP_NULL \/ mem[NodeCell(i)] \in S,
         NEW n \in Nat
  PROVE  Reached(n, l) \subseteq S
<1> DEFINE Path(m, p) == /\ p \in [0 .. m -> S] /\ p[0] = head[l]
                         /\ \A k \in 0 .. m - 1 : mem[NodeCell(p[k])] = p[k + 1]
           g == [k \in Nat |-> {i \in S : \E m \in 0 .. k : \E p : Path(m, p) /\ p[m] = i}]
<1>1. g[0] = {head[l]} \ {MP_NULL}
  <2>1. ASSUME NEW i \in g[0] PROVE i = head[l] /\ i # MP_NULL
    <3>1. PICK m \in 0 .. 0 : \E p : Path(m, p) /\ p[m] = i
      OBVIOUS
    <3>. QED  BY <3>1
  <2>2. ASSUME head[l] # MP_NULL PROVE head[l] \in g[0]
    <3> DEFINE p == [k \in 0 .. 0 |-> head[l]]
    <3>1. Path(0, p) /\ p[0] = head[l]
      BY <2>2
    <3>2. head[l] \in S /\ 0 \in 0 .. 0
      BY <2>2
    <3>. HIDE DEF p, Path
    <3>. QED  BY <3>1, <3>2
  <2>. HIDE DEF g
  <2>. QED  BY <2>1, <2>2
<1>2. ASSUME NEW k \in Nat, k # 0
      PROVE  g[k] = g[k - 1] \cup ({mem[NodeCell(i)] : i \in g[k - 1]} \ {MP_NULL})
  <2>1. k - 1 \in Nat
    BY <1>2
  <2>2. ASSUME NEW i \in g[k]
        PROVE  i \in g[k - 1] \/ \E j \in g[k - 1] : mem[NodeCell(j)] = i
    <3>1. PICK m \in 0 .. k : \E p : Path(m, p) /\ p[m] = i
      OBVIOUS
    <3>2. PICK p : Path(m, p) /\ p[m] = i
      BY <3>1
    <3>3. i \in S
      OBVIOUS
    <3>4. CASE m # k
      <4>1. m \in 0 .. k - 1
        BY <3>4
      <4>. HIDE DEF Path
      <4>. QED  BY <2>1, <3>2, <3>3, <4>1
    <3>5. CASE m = k
      <4> DEFINE r == [x \in 0 .. k - 1 |-> p[x]]
      <4>1. k - 1 \in 0 .. k - 1 /\ k - 1 \in 0 .. m - 1 /\ (k - 1) + 1 = k
        BY <1>2, <3>5
      <4>2. p[k - 1] \in S /\ mem[NodeCell(p[k - 1])] = i
        <5>1. \A x \in 0 .. m - 1 : mem[NodeCell(p[x])] = p[x + 1]
          BY <3>2
        <5>2. mem[NodeCell(p[k - 1])] = p[(k - 1) + 1]
          BY <4>1, <5>1
        <5>3. p \in [0 .. k -> S] /\ p[k] = i
          BY <3>2, <3>5
        <5>. QED  BY <4>1, <5>2, <5>3
      <4>3. Path(k - 1, r)
        <5>1. p \in [0 .. k -> S] /\ p[0] = head[l]
              /\ \A x \in 0 .. k - 1 : mem[NodeCell(p[x])] = p[x + 1]
          BY <3>2, <3>5
        <5>2. r \in [0 .. k - 1 -> S] /\ r[0] = head[l]
          BY <2>1, <5>1
        <5>3. \A x \in 0 .. (k - 1) - 1 : r[x] = p[x] /\ r[x + 1] = p[x + 1] /\ x \in 0 .. k - 1
          BY <2>1
        <5>. HIDE DEF r
        <5>. QED  BY <5>1, <5>2, <5>3
      <4>4. r[k - 1] = p[k - 1]
        BY <4>1
      <4>. HIDE DEF r, Path
      <4>5. p[k - 1] \in g[k - 1]
        BY <2>1, <4>1, <4>2, <4>3, <4>4
      <4>. QED  BY <4>2, <4>5
    <3>. QED  BY <3>4, <3>5
  <2>3. ASSUME NEW i \in g[k - 1] PROVE i \in g[k]
    <3>1. \A m \in 0 .. k - 1 : m \in 0 .. k
      BY <2>1
    <3>. HIDE DEF Path
    <3>. QED  BY <2>1, <3>1
  <2>4. ASSUME NEW j \in g[k - 1], mem[NodeCell(j)] # MP_NULL
        PROVE  mem[NodeCell(j)] \in g[k]
    <3>1. PICK m \in 0 .. k - 1 : \E p : Path(m, p) /\ p[m] = j
      BY <2>1
    <3>2. PICK p : Path(m, p) /\ p[m] = j
      BY <3>1
    <3>3. j \in S /\ mem[NodeCell(j)] \in S
      BY <2>1, <2>4
    <3> DEFINE r == [x \in 0 .. m + 1 |-> IF x = m + 1 THEN mem[NodeCell(j)] ELSE p[x]]
    <3>4. m + 1 \in 0 .. k /\ m \in Nat
      BY <2>1
    <3>5. r \in [0 .. m + 1 -> S] /\ r[0] = head[l] /\ r[m + 1] = mem[NodeCell(j)]
      BY <3>2, <3>3, <3>4
    <3>6. ASSUME NEW x \in 0 .. (m + 1) - 1 PROVE mem[NodeCell(r[x])] = r[x + 1]
      <4>1. CASE x = m
        <5>1. r[x] = j /\ r[x + 1] = mem[NodeCell(j)]
          BY <3>2, <3>4, <4>1
        <5>. QED  BY <5>1
      <4>2. CASE x # m
        <5>1. x \in 0 .. m - 1 /\ r[x] = p[x] /\ r[x + 1] = p[x + 1]
          BY <3>4, <4>2
        <5>. QED  BY <3>2, <5>1
      <4>. QED  BY <4>1, <4>2
    <3>7. Path(m + 1, r)
      <4>. HIDE DEF r
      <4>. QED  BY <3>5, <3>6
    <3>. HIDE DEF Path, r
    <3>. QED  BY <3>3, <3>4, <3>5, <3>7
  <2>5. \A i \in g[k] : i # MP_NULL
    OBVIOUS
  <2>6. \A i \in g[k - 1] : i # MP_NULL
    BY <2>1
  <2>. HIDE DEF g
  <2>. QED  BY <2>2, <2>3, <2>4, <2>5, <2>6
<1>3. g = [k \in Nat |-> g[k]]
  OBVIOUS
<1>. HIDE DEF g
<1>4. g = [k \in Nat |-> IF k = 0 THEN {head[l]} \ {MP_NULL}
                         ELSE g[k - 1] \cup ({mem[NodeCell(i)] : i \in g[k - 1]} \ {MP_NULL})]
  BY <1>1, <1>2, <1>3
<1>5. /\ Reached(0, l) = {head[l]} \ {MP_NULL}
      /\ \A k \in Nat : Reached(k + 1, l) =
           Reached(k, l) \cup ({mem[NodeCell(i)] : i \in Reached(k, l)} \ {MP_NULL})
  BY <1>4, ReachedEquation
<1> DEFINE T == {k \in Nat : Reached(k, l) \subseteq S}
<1>6. 0 \in T
  BY <1>5
<1>7. ASSUME NEW k \in 0 .. n - 1, k \in T PROVE k + 1 \in T
  <2>1. k \in Nat /\ k + 1 \in Nat
    OBVIOUS
  <2>. QED  BY <1>5, <1>7, <2>1
<1>. HIDE DEF T
<1>8. 0 .. n \subseteq T
  BY <1>6, <1>7, InductionFromZero
<1>9. n \in T
  BY <1>8
<1>. QED  BY <1>9 DEF T

\* One store has finitely many elements.
LEMMA IdsFinite ==
  ASSUME NEW q, Level = {q}
  PROVE  IsFiniteSet(Id) /\ Cardinality(Id) \in Nat
<1> DEFINE T == Chunk \X (0 .. ChunkSize - 1)
           f == [i \in Id |-> <<i.chunk, i.slot>>]
<1>1. IsFiniteSet(Chunk) /\ IsFiniteSet(0 .. ChunkSize - 1)
  BY FS_Interval, SizeAssumption DEF Chunk
<1>2. IsFiniteSet(T)
  BY <1>1, FS_Product
<1>3. f \in Injection(Id, T)
  <2>1. \A i, j \in Id : i.chunk = j.chunk /\ i.slot = j.slot => i = j
    BY OneStore, IdFields
  <2>2. f \in [Id -> T]
    BY IdFields
  <2>. QED  BY <2>1, <2>2 DEF Injection, IsInjective
<1>. HIDE DEF f, T
<1>4. IsFiniteSet(Id)
  BY <1>2, <1>3, FS_Injection
<1>. QED  BY <1>4, FS_CardinalityType

\* Also behind the collector's back the queue leads only to elements that were
\* put back, in memory the bank still has: no link into a destroyed chunk.
THEOREM CollectorKeepsQueue ==
  ASSUME ~ MallocMayFail, NEW q, Level = {q}
  PROVE  SpecGC => []QueueLeadsToFree
<1>1. ASSUME GCInv, mutex[q] = Nobody, NEW n \in Nat
      PROVE  /\ Reached(n, q) \subseteq free[q]
             /\ \A i \in Reached(n, q) : HasNode(i)
  <2>1. /\ TypeOK /\ OwnersInv /\ q \in Level /\ Leads(mem, free[q], head[q], tail[q])
    BY <1>1, ValueAssumption DEF GCInv, ChainInv
  <2>2. PICK S \in SUBSET free[q] : Segment(mem, S, head[q])
    BY <2>1 DEF Leads
  <2>3. MP_NULL \notin S
    BY <2>1, <2>2, QueuedHaveMemory
  <2>4. Reached(n, q) \subseteq S
    BY <2>1, <2>2, <2>3, ReachedWithin DEF Segment
  <2>. QED  BY <2>1, <2>2, <2>4, QueuedHaveMemory
<1>2. Cardinality(Id) \in Nat
  BY IdsFinite
<1>3. GCInv => QueueLeadsToFree
  BY <1>1, <1>2 DEF QueueLeadsToFree
<1>. QED  BY <1>3, CollectorInvariant, PTL
=============================================================================
