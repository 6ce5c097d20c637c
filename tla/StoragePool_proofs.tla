-------------------------- MODULE StoragePool_proofs -------------------------
(***************************************************************************)
(* Proofs about StoragePool: an element that is handed over has one user   *)
(* from the caller to the writer, its data reaches the writer, and it      *)
(* comes back.  Then that the variables keep their types, and that the     *)
(* pool implements SaveLedger: an accepted upload is settled once, and     *)
(* dropped only when destroy clears the queue.                             *)
(***************************************************************************)
EXTENDS StoragePool, SequenceTheorems, TLAPS

-----------------------------------------------------------------------------
(* The invariant.                                                          *)

\* The callers and writers that have an item.
Offering == {c \in Caller : item[c] # NoItem}
Carrying == {w \in Writer : task[w] # NoItem}

ItemsInv ==
  /\ free \subseteq Element
  /\ data \in [Element -> Upload \cup {Absent}]
  /\ tasks \in Seq(Item)
  /\ item \in [Caller -> Item \cup {NoItem}]
  /\ task \in [Writer -> Item \cup {NoItem}]

\* Where a caller or a writer is tells whether it has an item.
PlacesInv ==
  /\ at \in [Caller -> {"idle", "fill", "push", "refused"}]
  /\ \A c \in Caller : item[c] # NoItem <=> at[c] # "idle"
  /\ wpc \in [Writer -> {"loop", "pop", "save", "write", "count", "finished"}]
  /\ \A w \in Writer : task[w] # NoItem <=> wpc[w] \in {"save", "write", "count"}

\* No two items, wherever they are, have the same element.
ApartInv ==
  /\ \A i, j \in DOMAIN tasks : tasks[i].mem = tasks[j].mem => i = j
  /\ \A c, d \in Offering : item[c].mem = item[d].mem => c = d
  /\ \A v, w \in Carrying : task[v].mem = task[w].mem => v = w
  /\ \A i \in DOMAIN tasks, c \in Offering : tasks[i].mem # item[c].mem
  /\ \A i \in DOMAIN tasks, w \in Carrying : tasks[i].mem # task[w].mem
  /\ \A c \in Offering, w \in Carrying : item[c].mem # task[w].mem

\* None of these elements is free.
TakenInv ==
  /\ \A i \in DOMAIN tasks : tasks[i].mem \notin free
  /\ \A c \in Offering : item[c].mem \notin free
  /\ \A w \in Carrying : task[w].mem \notin free

\* From the moment it was filled an element keeps its data.
DataInv ==
  /\ \A i \in DOMAIN tasks : data[tasks[i].mem] = tasks[i].upload
  /\ \A c \in Offering : at[c] = "push" => data[item[c].mem] = item[c].upload
  /\ \A w \in Carrying : data[task[w].mem] = task[w].upload

OwnInv == ItemsInv /\ PlacesInv /\ ApartInv /\ TakenInv /\ DataInv

LEMMA OwnInit == PoolInit => OwnInv
<1> SUFFICES ASSUME PoolInit PROVE OwnInv
  OBVIOUS
<1>1. /\ free = Element /\ data = [e \in Element |-> Absent] /\ tasks = <<>>
      /\ at = [c \in Caller |-> "idle"] /\ item = [c \in Caller |-> NoItem]
      /\ wpc = [w \in Writer |-> IF running[w] THEN "loop" ELSE "finished"]
      /\ task = [w \in Writer |-> NoItem]
  BY DEF PoolInit
<1>2. Offering = {} /\ Carrying = {} /\ DOMAIN tasks = {}
  BY <1>1 DEF Offering, Carrying
<1>3. ItemsInv /\ PlacesInv
  BY <1>1 DEF ItemsInv, PlacesInv
<1> QED
  BY <1>2, <1>3 DEF OwnInv, ApartInv, TakenInv, DataInv

-----------------------------------------------------------------------------
(* Sequences.                                                              *)

LEMMA Appended ==
  ASSUME tasks \in Seq(Item), NEW i \in Item, tasks' = Append(tasks, i)
  PROVE  /\ tasks' \in Seq(Item)
         /\ DOMAIN tasks' = DOMAIN tasks \cup {Len(tasks) + 1}
         /\ Len(tasks) + 1 \notin DOMAIN tasks
         /\ tasks'[Len(tasks) + 1] = i
         /\ \A j \in DOMAIN tasks : tasks'[j] = tasks[j]
<1>1. Len(tasks) \in Nat /\ DOMAIN tasks = 1 .. Len(tasks)
  BY LenProperties
<1>2. /\ tasks' \in Seq(Item) /\ Len(tasks') = Len(tasks) + 1
      /\ \A j \in 1 .. Len(tasks) : tasks'[j] = tasks[j]
      /\ tasks'[Len(tasks) + 1] = i
  BY AppendProperties
<1>3. DOMAIN tasks' = 1 .. Len(tasks) + 1
  BY <1>2, LenProperties
<1> QED
  BY <1>1, <1>2, <1>3

\* popTask takes the last item, and leaves the others where they are.
LEMMA Popped ==
  ASSUME tasks \in Seq(Item), tasks # <<>>, tasks' = TasksLeft
  PROVE  /\ tasks' \in Seq(Item) /\ NextTask \in Item
         /\ Len(tasks) \in DOMAIN tasks /\ NextTask = tasks[Len(tasks)]
         /\ DOMAIN tasks' = DOMAIN tasks \ {Len(tasks)}
         /\ \A j \in DOMAIN tasks' : tasks'[j] = tasks[j]
<1> DEFINE n == Len(tasks)
<1>1. n \in Nat /\ DOMAIN tasks = 1 .. n /\ n >= 1
  BY LenProperties, EmptySeq
<1>2. tasks' = SubSeq(tasks, 1, n - 1)
  BY DEF TasksLeft, Front
<1>3. \A j \in 1 .. n - 1 : tasks[j] \in Item
  BY <1>1, ElementOfSeq
<1>4. /\ tasks' \in Seq(Item) /\ Len(tasks') = n - 1
      /\ \A j \in 1 .. n - 1 : tasks'[j] = tasks[j]
  BY <1>1, <1>2, <1>3, SubSeqProperties
<1>5. DOMAIN tasks' = 1 .. n - 1
  BY <1>4, LenProperties
<1>6. NextTask = tasks[n] /\ NextTask \in Item
  BY <1>1, ElementOfSeq DEF NextTask, Last
<1> QED
  BY <1>1, <1>4, <1>5, <1>6

-----------------------------------------------------------------------------
(* Callers.                                                                *)

\* Steps that neither move an item nor touch an element.
LEMMA ItemsStay ==
  ASSUME OwnInv, UNCHANGED <<free, data, item, tasks, task>>, PlacesInv',
         \A c \in Caller : at'[c] = "push" => at[c] = "push"
  PROVE  OwnInv'
<1>1. Offering' = Offering /\ Carrying' = Carrying
  BY DEF Offering, Carrying
<1>2. ItemsInv' /\ ApartInv' /\ TakenInv'
  BY <1>1 DEF OwnInv, ItemsInv, ApartInv, TakenInv
<1>3. DataInv'
  BY <1>1 DEF OwnInv, DataInv, Offering
<1> QED
  BY <1>2, <1>3 DEF OwnInv

LEMMA AllocInv == \A c \in Caller : OwnInv /\ Alloc(c) => OwnInv'
<1> SUFFICES ASSUME NEW c \in Caller, OwnInv, Alloc(c) PROVE OwnInv'
  OBVIOUS
<1>1. PICK e \in free, f \in File, n \in 0 .. MaxLength, u \in Upload :
        /\ free' = free \ {e}
        /\ item' = [item EXCEPT ![c] = [file |-> f, mem |-> e, len |-> n, upload |-> u]]
  BY DEF Alloc
<1> DEFINE new == [file |-> f, mem |-> e, len |-> n, upload |-> u]
<1>2. /\ e \in Element /\ new \in Item /\ new # NoItem /\ new.mem = e
      /\ item \in [Caller -> Item \cup {NoItem}]
  BY NoItemAssumption DEF OwnInv, ItemsInv, Item
<1>3. /\ at[c] = "idle" /\ at' = [at EXCEPT ![c] = "fill"]
      /\ data' = data /\ tasks' = tasks /\ wpc' = wpc /\ task' = task
  BY DEF Alloc, writerVars
<1> HIDE DEF new
<1>4. item' = [item EXCEPT ![c] = new] /\ item'[c] = new /\ \A d \in Caller \ {c} : item'[d] = item[d]
  BY <1>1, <1>2 DEF new
<1>5. Offering' = Offering \cup {c} /\ Carrying' = Carrying /\ c \notin Offering
  BY <1>2, <1>3, <1>4 DEF OwnInv, PlacesInv, Offering, Carrying
<1>6. ItemsInv'
  BY <1>1, <1>2, <1>3, <1>4 DEF OwnInv, ItemsInv
<1>7. PlacesInv'
  BY <1>2, <1>3, <1>4 DEF OwnInv, PlacesInv
<1>8. \A d \in Offering : item'[d] = item[d] /\ d \in Caller
  BY <1>4, <1>5 DEF Offering
<1>9. ApartInv'
  BY <1>2, <1>3, <1>4, <1>5, <1>8 DEF OwnInv, ApartInv, TakenInv
<1>10. TakenInv'
  BY <1>1, <1>2, <1>3, <1>4, <1>5, <1>8 DEF OwnInv, TakenInv
<1>11. DataInv'
  <2>1. \A d \in Offering : at'[d] = at[d]
    BY <1>3, <1>5 DEF OwnInv, PlacesInv, Offering
  <2>2. at'[c] = "fill"
    BY <1>3 DEF OwnInv, PlacesInv
  <2> QED
    BY <1>3, <1>5, <1>8, <2>1, <2>2 DEF OwnInv, DataInv
<1> QED
  BY <1>6, <1>7, <1>9, <1>10, <1>11 DEF OwnInv

LEMMA FillInv == \A c \in Caller : OwnInv /\ Fill(c) => OwnInv'
<1> SUFFICES ASSUME NEW c \in Caller, OwnInv, Fill(c) PROVE OwnInv'
  OBVIOUS
<1>1. /\ at[c] = "fill" /\ at' = [at EXCEPT ![c] = "push"]
      /\ data' = [data EXCEPT ![item[c].mem] = item[c].upload]
      /\ free' = free /\ item' = item /\ tasks' = tasks /\ wpc' = wpc /\ task' = task
  BY DEF Fill, writerVars
<1>2. c \in Offering /\ item[c] \in Item /\ Offering' = Offering /\ Carrying' = Carrying
  BY <1>1 DEF OwnInv, ItemsInv, PlacesInv, Offering, Carrying
<1>3. item[c].mem \in Element /\ item[c].upload \in Upload
  BY <1>2 DEF Item
<1>4. ItemsInv' /\ PlacesInv'
  BY <1>1, <1>2, <1>3 DEF OwnInv, ItemsInv, PlacesInv
<1>5. ApartInv' /\ TakenInv'
  BY <1>1, <1>2 DEF OwnInv, ApartInv, TakenInv
<1>6. /\ data'[item[c].mem] = item[c].upload
      /\ \A e \in Element : e # item[c].mem => data'[e] = data[e]
  BY <1>1, <1>3 DEF OwnInv, ItemsInv
<1>7. /\ \A i \in DOMAIN tasks : tasks[i].mem \in Element /\ tasks[i].mem # item[c].mem
      /\ \A d \in Offering : item[d].mem \in Element /\ (d # c => item[d].mem # item[c].mem)
      /\ \A w \in Carrying : task[w].mem \in Element /\ task[w].mem # item[c].mem
  <2>1. \A i \in DOMAIN tasks : tasks[i] \in Item
    BY ElementOfSeq, LenProperties DEF OwnInv, ItemsInv
  <2>2. (\A d \in Offering : item[d] \in Item) /\ (\A w \in Carrying : task[w] \in Item)
    BY DEF OwnInv, ItemsInv, Offering, Carrying
  <2>3. \A i \in Item : i.mem \in Element
    BY DEF Item
  <2> QED
    BY <1>2, <2>1, <2>2, <2>3 DEF OwnInv, ApartInv
<1>8. DataInv'
  <2>1. \A d \in Offering : d # c => at'[d] = at[d]
    BY <1>1 DEF OwnInv, PlacesInv, Offering
  <2> QED
    BY <1>1, <1>2, <1>6, <1>7, <2>1 DEF OwnInv, DataInv
<1> QED
  BY <1>4, <1>5, <1>8 DEF OwnInv

LEMMA AcceptInv == \A c \in Caller : OwnInv /\ Accept(c) => OwnInv'
<1> SUFFICES ASSUME NEW c \in Caller, OwnInv, Accept(c) PROVE OwnInv'
  OBVIOUS
<1>1. /\ at[c] = "push" /\ at' = [at EXCEPT ![c] = "idle"]
      /\ item' = [item EXCEPT ![c] = NoItem] /\ tasks' = Append(tasks, item[c])
      /\ free' = free /\ data' = data /\ wpc' = wpc /\ task' = task
  BY DEF Accept, writerVars, memoryVars
<1> DEFINE n == Len(tasks) + 1
           i == item[c]
<1>2. c \in Offering /\ i \in Item /\ tasks \in Seq(Item)
  BY <1>1 DEF OwnInv, ItemsInv, PlacesInv, Offering
<1>3. /\ tasks' \in Seq(Item) /\ DOMAIN tasks' = DOMAIN tasks \cup {n} /\ n \notin DOMAIN tasks
      /\ tasks'[n] = i /\ \A j \in DOMAIN tasks : tasks'[j] = tasks[j]
  BY <1>1, <1>2, Appended
<1>4. /\ Offering' = Offering \ {c} /\ Carrying' = Carrying
      /\ \A d \in Offering' : item'[d] = item[d] /\ at'[d] = at[d]
  BY <1>1 DEF OwnInv, ItemsInv, PlacesInv, Offering, Carrying
<1> HIDE DEF n
<1>5. ItemsInv'
  BY <1>1, <1>3 DEF OwnInv, ItemsInv
<1>6. PlacesInv'
  BY <1>1 DEF OwnInv, ItemsInv, PlacesInv
<1>7. ApartInv'
  BY <1>1, <1>2, <1>3, <1>4 DEF OwnInv, ApartInv
<1>8. TakenInv'
  BY <1>1, <1>2, <1>3, <1>4 DEF OwnInv, TakenInv
<1>9. DataInv'
  BY <1>1, <1>2, <1>3, <1>4 DEF OwnInv, DataInv
<1> QED
  BY <1>5, <1>6, <1>7, <1>8, <1>9 DEF OwnInv

LEMMA RefuseInv == \A c \in Caller : OwnInv /\ Refuse(c) => OwnInv'
<1> SUFFICES ASSUME NEW c \in Caller, OwnInv, Refuse(c) PROVE OwnInv'
  OBVIOUS
<1>1. /\ UNCHANGED <<free, data, item, tasks, wpc, task>>
      /\ at[c] = "push" /\ at' = [at EXCEPT ![c] = "refused"]
  BY DEF Refuse, memoryVars, writerVars
<1>2. PlacesInv' /\ \A d \in Caller : at'[d] = "push" => at[d] = "push"
  BY <1>1 DEF OwnInv, PlacesInv
<1> QED
  BY <1>1, <1>2, ItemsStay

LEMMA DiscardInv == \A c \in Caller : OwnInv /\ Discard(c) => OwnInv'
<1> SUFFICES ASSUME NEW c \in Caller, OwnInv, Discard(c) PROVE OwnInv'
  OBVIOUS
<1>1. /\ at[c] = "refused" /\ at' = [at EXCEPT ![c] = "idle"]
      /\ item' = [item EXCEPT ![c] = NoItem]
      /\ free' = free \/ free' = free \cup {item[c].mem}
      /\ data' = data /\ tasks' = tasks /\ wpc' = wpc /\ task' = task
  BY DEF Discard, writerVars
<1>2. c \in Offering /\ item[c] \in Item /\ item[c].mem \in Element
  BY <1>1 DEF OwnInv, ItemsInv, PlacesInv, Offering, Item
<1>3. /\ Offering' = Offering \ {c} /\ Carrying' = Carrying
      /\ \A d \in Offering' : item'[d] = item[d] /\ at'[d] = at[d]
  BY <1>1 DEF OwnInv, ItemsInv, PlacesInv, Offering, Carrying
<1>4. ItemsInv' /\ PlacesInv'
  BY <1>1, <1>2 DEF OwnInv, ItemsInv, PlacesInv
<1>5. ApartInv'
  BY <1>1, <1>3 DEF OwnInv, ApartInv
<1>6. TakenInv'
  BY <1>1, <1>2, <1>3 DEF OwnInv, ApartInv, TakenInv
<1>7. DataInv'
  BY <1>1, <1>3 DEF OwnInv, DataInv
<1> QED
  BY <1>4, <1>5, <1>6, <1>7 DEF OwnInv

-----------------------------------------------------------------------------
(* Writers and the owner.                                                  *)

\* The steps of a writer that neither take nor free an element.
LEMMA WorkInv ==
  \A w \in Writer :
    OwnInv /\ (CheckRunning(w) \/ PopNothing(w) \/ SaveOpen(w) \/ SaveWrite(w)) => OwnInv'
<1> SUFFICES ASSUME NEW w \in Writer, OwnInv,
                    CheckRunning(w) \/ PopNothing(w) \/ SaveOpen(w) \/ SaveWrite(w)
             PROVE  OwnInv'
  OBVIOUS
<1>1. UNCHANGED <<free, data, item, tasks, task, at>>
  BY DEF CheckRunning, PopNothing, SaveOpen, SaveWrite, SaveResult, memoryVars, callerVars
<1>2. \/ wpc[w] \in {"loop", "pop"} /\ wpc' = [wpc EXCEPT ![w] = "pop"]
      \/ wpc[w] \in {"loop", "pop"} /\ wpc' = [wpc EXCEPT ![w] = "finished"]
      \/ wpc[w] \in {"loop", "pop"} /\ wpc' = [wpc EXCEPT ![w] = "loop"]
      \/ wpc[w] \in {"save", "write"} /\ wpc' = [wpc EXCEPT ![w] = "write"]
      \/ wpc[w] \in {"save", "write"} /\ wpc' = [wpc EXCEPT ![w] = "count"]
  BY DEF CheckRunning, PopNothing, SaveOpen, SaveWrite, SaveResult, WriterAt
<1>3. PlacesInv'
  BY <1>1, <1>2 DEF OwnInv, PlacesInv
<1> QED
  BY <1>1, <1>3, ItemsStay

LEMMA PopTaskInv == \A w \in Writer : OwnInv /\ PopTask(w) => OwnInv'
<1> SUFFICES ASSUME NEW w \in Writer, OwnInv, PopTask(w) PROVE OwnInv'
  OBVIOUS
<1>1. /\ tasks # <<>> /\ tasks' = TasksLeft
      /\ wpc[w] = "pop" /\ wpc' = [wpc EXCEPT ![w] = "save"]
      /\ task' = [task EXCEPT ![w] = NextTask]
      /\ free' = free /\ data' = data /\ item' = item /\ at' = at
  BY DEF PopTask, WriterAt, memoryVars, callerVars
<1> DEFINE n == Len(tasks)
           i == NextTask
<1>2. /\ tasks' \in Seq(Item) /\ i \in Item /\ n \in DOMAIN tasks /\ i = tasks[n]
      /\ DOMAIN tasks' = DOMAIN tasks \ {n} /\ \A j \in DOMAIN tasks' : tasks'[j] = tasks[j]
  BY <1>1, Popped DEF OwnInv, ItemsInv
<1> HIDE DEF n, i
<1>3. w \notin Carrying /\ task'[w] = i /\ i # NoItem
      /\ \A v \in Writer : v # w => task'[v] = task[v]
  BY <1>1, <1>2, NoItemAssumption DEF OwnInv, ItemsInv, PlacesInv, Carrying, i
<1>4. Offering' = Offering /\ Carrying' = Carrying \cup {w}
  BY <1>1, <1>3 DEF Offering, Carrying
<1>5. \A v \in Carrying : task'[v] = task[v]
  BY <1>3 DEF Carrying
<1>6. ItemsInv'
  BY <1>1, <1>2 DEF OwnInv, ItemsInv, i
<1>7. PlacesInv'
  BY <1>1, <1>3 DEF OwnInv, PlacesInv
<1>8. ApartInv'
  BY <1>1, <1>2, <1>3, <1>4, <1>5 DEF OwnInv, ApartInv
<1>9. TakenInv'
  BY <1>1, <1>2, <1>3, <1>4, <1>5 DEF OwnInv, TakenInv
<1>10. DataInv'
  BY <1>1, <1>2, <1>3, <1>4, <1>5 DEF OwnInv, DataInv
<1> QED
  BY <1>6, <1>7, <1>8, <1>9, <1>10 DEF OwnInv

LEMMA FreeTaskInv == \A w \in Writer : OwnInv /\ FreeTask(w) => OwnInv'
<1> SUFFICES ASSUME NEW w \in Writer, OwnInv, FreeTask(w) PROVE OwnInv'
  OBVIOUS
<1>1. /\ wpc[w] = "count" /\ wpc' = [wpc EXCEPT ![w] = "loop"]
      /\ task' = [task EXCEPT ![w] = NoItem] /\ free' = free \cup {task[w].mem}
      /\ data' = data /\ item' = item /\ at' = at /\ tasks' = tasks
  BY DEF FreeTask, WriterAt, callerVars
<1>2. w \in Carrying /\ task[w] \in Item /\ task[w].mem \in Element
  BY <1>1 DEF OwnInv, ItemsInv, PlacesInv, Carrying, Item
<1>3. /\ Offering' = Offering /\ Carrying' = Carrying \ {w}
      /\ \A v \in Carrying' : task'[v] = task[v]
  BY <1>1 DEF OwnInv, ItemsInv, Offering, Carrying
<1>4. ItemsInv' /\ PlacesInv'
  BY <1>1, <1>2 DEF OwnInv, ItemsInv, PlacesInv
<1>5. ApartInv'
  BY <1>1, <1>3 DEF OwnInv, ApartInv
<1>6. TakenInv'
  BY <1>1, <1>2, <1>3 DEF OwnInv, ApartInv, TakenInv
<1>7. DataInv'
  BY <1>1, <1>3 DEF OwnInv, DataInv
<1> QED
  BY <1>4, <1>5, <1>6, <1>7 DEF OwnInv

\* What destroy leaves of the queue.
LEMMA ClearTasksInv == OwnInv /\ ClearTasks => OwnInv'
<1> SUFFICES ASSUME OwnInv, ClearTasks PROVE OwnInv'
  OBVIOUS
<1>1. /\ free' = free \cup {i.mem : i \in Range(tasks)} /\ tasks' = <<>>
      /\ UNCHANGED <<data, at, item, wpc, task>>
  BY DEF ClearTasks, callerVars, writerVars
<1>2. {i.mem : i \in Range(tasks)} = {tasks[i].mem : i \in DOMAIN tasks}
  BY DEF Range
<1>3. \A i \in DOMAIN tasks : tasks[i] \in Item /\ tasks[i].mem \in Element
  <2>1. \A i \in DOMAIN tasks : tasks[i] \in Item
    BY ElementOfSeq, LenProperties DEF OwnInv, ItemsInv
  <2>2. \A i \in Item : i.mem \in Element
    BY DEF Item
  <2> QED
    BY <2>1, <2>2
<1>4. Offering' = Offering /\ Carrying' = Carrying /\ DOMAIN tasks' = {} /\ tasks' \in Seq(Item)
  BY <1>1 DEF Offering, Carrying
<1>5. ItemsInv' /\ PlacesInv'
  BY <1>1, <1>2, <1>3, <1>4 DEF OwnInv, ItemsInv, PlacesInv
<1>6. ApartInv' /\ DataInv'
  BY <1>1, <1>4 DEF OwnInv, ApartInv, DataInv
<1>7. TakenInv'
  BY <1>1, <1>2, <1>4 DEF OwnInv, ApartInv, TakenInv
<1> QED
  BY <1>5, <1>6, <1>7 DEF OwnInv

\* Steps of destroy that only tell writers to end, and steps of nobody.
LEMMA QuietInv == OwnInv /\ (Destroy \/ Joined \/ UNCHANGED poolVars) => OwnInv'
<1> SUFFICES ASSUME OwnInv, Destroy \/ Joined \/ UNCHANGED poolVars PROVE OwnInv'
  OBVIOUS
<1>1. UNCHANGED <<free, data, at, item, tasks, wpc, task>>
  BY DEF Destroy, Joined, poolVars, memoryVars, callerVars, writerVars
<1>2. PlacesInv'
  BY <1>1 DEF OwnInv, PlacesInv
<1> QED
  BY <1>1, <1>2, ItemsStay

LEMMA OwnNext == OwnInv /\ [PoolNext]_poolVars => OwnInv'
<1> SUFFICES ASSUME OwnInv, [PoolNext]_poolVars PROVE OwnInv'
  OBVIOUS
<1>1. ASSUME NEW c \in Caller, CallerStep(c) PROVE OwnInv'
  BY <1>1, AllocInv, FillInv, AcceptInv, RefuseInv, DiscardInv DEF CallerStep
<1>2. ASSUME NEW w \in Writer, WriterStep(w) PROVE OwnInv'
  BY <1>2, WorkInv, PopTaskInv, FreeTaskInv DEF WriterStep
<1>3. CASE Destroy \/ OwnerStep \/ Terminated \/ UNCHANGED poolVars
  BY <1>3, QuietInv, ClearTasksInv DEF OwnerStep, Terminated
<1> QED
  BY <1>1, <1>2, <1>3 DEF PoolNext

\* The inductive invariant: items have elements of their own, that are taken,
\* and their data is in them.
THEOREM PoolOwnership == PoolSpec => []OwnInv
BY OwnInit, OwnNext, PTL DEF PoolSpec

\* The sets of the properties, seen from their places.
LEMMA PlacesOfItems ==
  ASSUME OwnInv
  PROVE  /\ Queued = {tasks[i] : i \in DOMAIN tasks}
         /\ InHand = {task[w] : w \in Carrying}
         /\ Offered = {item[c] : c \in Offering}
BY DEF Queued, InHand, Offered, Range, Carrying, Offering

LEMMA OneUserFromOwn == OwnInv => ElementHasOneUser
<1> SUFFICES ASSUME OwnInv PROVE ElementHasOneUser
  OBVIOUS
<1>1. /\ Queued = {tasks[i] : i \in DOMAIN tasks}
      /\ InHand = {task[w] : w \in Carrying}
      /\ Offered = {item[c] : c \in Offering}
  BY PlacesOfItems
<1>2. \A i, j \in Queued \cup InHand \cup Offered : i.mem = j.mem => i = j
  BY <1>1 DEF OwnInv, ApartInv
<1>3. \A i \in Queued \cup InHand \cup Offered : i.mem \notin free
  BY <1>1 DEF OwnInv, TakenInv
<1>4. Queued \cap InHand = {} /\ Queued \cap Offered = {} /\ InHand \cap Offered = {}
  BY <1>1 DEF OwnInv, ApartInv
<1>5. \A i, j \in DOMAIN tasks : tasks[i] = tasks[j] => i = j
  BY DEF OwnInv, ApartInv
<1>6. \A v, w \in Writer : task[v] = task[w] => v = w \/ task[v] = NoItem
  BY DEF OwnInv, ApartInv, Carrying
<1> QED
  BY <1>2, <1>3, <1>4, <1>5, <1>6 DEF ElementHasOneUser

LEMMA IntactFromOwn == OwnInv => QueuedDataIntact
BY PlacesOfItems DEF QueuedDataIntact, OwnInv, DataInv

\* An element that was handed to saveImage is used by nobody but the writer
\* that will free it, whatever the callers and the other writers do.
THEOREM OneUser == PoolSpec => []ElementHasOneUser
BY OneUserFromOwn, PoolOwnership, PTL

\* The writer finds in the element what the caller put there.
THEOREM DataArrivesIntact == PoolSpec => []QueuedDataIntact
BY IntactFromOwn, PoolOwnership, PTL

-----------------------------------------------------------------------------
(* No element is lost, and destroy has them all back.                      *)

\* Where an element can be.
Accounted ==
  \A e \in Element :
    \/ e \in free
    \/ \E i \in DOMAIN tasks : tasks[i].mem = e
    \/ \E c \in Offering : item[c].mem = e
    \/ \E w \in Carrying : task[w].mem = e

\* destroy waits for one writer after the other; a writer that has ended does
\* not come back, and no caller is left.
StopInv ==
  /\ stage \in {"serving", "joining", "clearing", "stopped"}
  /\ stage # "serving" => \A c \in Caller : at[c] = "idle"
  /\ stage = "joining" =>
       joining \in Writer /\ \A w \in Writer : w < joining => wpc[w] = "finished"
  /\ stage \in {"clearing", "stopped"} => \A w \in Writer : wpc[w] = "finished"
  /\ stage = "stopped" => tasks = <<>>

LEMMA AccountedInit == PoolInit => Accounted
BY DEF PoolInit, Accounted

LEMMA StopInit == PoolInit => StopInv
BY DEF PoolInit, StopInv

LEMMA AccountedNext ==
  ASSUME Freeing = Caller, OwnInv, Accounted, [PoolNext]_poolVars
  PROVE  Accounted'
<1> USE DEF Accounted
<1>1. ASSUME NEW c \in Caller, CallerStep(c) PROVE Accounted'
  <2>1. CASE Alloc(c)
    <3>1. PICK e \in free, f \in File, n \in 0 .. MaxLength, u \in Upload :
            /\ free' = free \ {e}
            /\ item' = [item EXCEPT ![c] = [file |-> f, mem |-> e, len |-> n, upload |-> u]]
      BY <2>1 DEF Alloc
    <3> DEFINE new == [file |-> f, mem |-> e, len |-> n, upload |-> u]
    <3>2. /\ e \in Element /\ new # NoItem /\ new.mem = e /\ item[c] = NoItem
          /\ item \in [Caller -> Item \cup {NoItem}]
      BY <2>1, NoItemAssumption DEF Alloc, OwnInv, ItemsInv, PlacesInv, Item
    <3>3. tasks' = tasks /\ task' = task
      BY <2>1 DEF Alloc, writerVars
    <3> HIDE DEF new
    <3>4. item' = [item EXCEPT ![c] = new]
      BY <3>1 DEF new
    <3>5. /\ Offering' = Offering \cup {c} /\ item'[c].mem = e /\ Carrying' = Carrying
          /\ \A d \in Offering : item'[d] = item[d]
      BY <3>2, <3>3, <3>4 DEF Offering, Carrying
    <3> QED
      BY <3>1, <3>3, <3>5
  <2>2. CASE Fill(c) \/ Refuse(c)
    <3>1. UNCHANGED <<free, item, tasks, task>>
      BY <2>2 DEF Fill, Refuse, memoryVars, writerVars
    <3> QED
      BY <3>1 DEF Offering, Carrying
  <2>3. CASE Accept(c)
    <3> DEFINE n == Len(tasks) + 1
    <3>1. /\ at[c] = "push" /\ item' = [item EXCEPT ![c] = NoItem]
          /\ tasks' = Append(tasks, item[c]) /\ free' = free /\ task' = task
      BY <2>3 DEF Accept, writerVars, memoryVars
    <3>2. item[c] \in Item /\ tasks \in Seq(Item)
      BY <3>1 DEF OwnInv, ItemsInv, PlacesInv
    <3>3. /\ DOMAIN tasks' = DOMAIN tasks \cup {n} /\ tasks'[n] = item[c]
          /\ \A j \in DOMAIN tasks : tasks'[j] = tasks[j]
      BY <3>1, <3>2, Appended
    <3>4. /\ Offering' = Offering \ {c} /\ Carrying' = Carrying
          /\ \A d \in Offering' : item'[d] = item[d]
      BY <3>1 DEF OwnInv, ItemsInv, Offering, Carrying
    <3> HIDE DEF n
    <3> QED
      BY <3>1, <3>3, <3>4
  <2>4. CASE Discard(c)
    <3>1. /\ item' = [item EXCEPT ![c] = NoItem] /\ free' = free \cup {item[c].mem}
          /\ tasks' = tasks /\ task' = task
      BY <2>4 DEF Discard, writerVars
    <3>2. /\ Offering' = Offering \ {c} /\ Carrying' = Carrying
          /\ \A d \in Offering' : item'[d] = item[d]
      BY <3>1 DEF OwnInv, ItemsInv, Offering, Carrying
    <3> QED
      BY <3>1, <3>2
  <2> QED
    BY <1>1, <2>1, <2>2, <2>3, <2>4 DEF CallerStep
<1>2. ASSUME NEW w \in Writer, WriterStep(w) PROVE Accounted'
  <2>1. CASE CheckRunning(w) \/ PopNothing(w) \/ SaveOpen(w) \/ SaveWrite(w)
    <3>1. UNCHANGED <<free, item, tasks, task>>
      BY <2>1 DEF CheckRunning, PopNothing, SaveOpen, SaveWrite, SaveResult, memoryVars, callerVars
    <3> QED
      BY <3>1 DEF Offering, Carrying
  <2>2. CASE PopTask(w)
    <3>1. /\ tasks # <<>> /\ tasks' = TasksLeft /\ task' = [task EXCEPT ![w] = NextTask]
          /\ free' = free /\ item' = item /\ wpc[w] = "pop"
      BY <2>2 DEF PopTask, WriterAt, memoryVars, callerVars
    <3>2. /\ NextTask \in Item /\ NextTask = tasks[Len(tasks)]
          /\ DOMAIN tasks' = DOMAIN tasks \ {Len(tasks)}
          /\ \A j \in DOMAIN tasks' : tasks'[j] = tasks[j]
      BY <3>1, Popped DEF OwnInv, ItemsInv
    <3>3. /\ Offering' = Offering /\ Carrying' = Carrying \cup {w} /\ task'[w] = NextTask
          /\ \A v \in Carrying : task'[v] = task[v]
      BY <3>1, <3>2, NoItemAssumption DEF OwnInv, ItemsInv, PlacesInv, Offering, Carrying
    <3> QED
      BY <3>1, <3>2, <3>3
  <2>3. CASE FreeTask(w)
    <3>1. /\ task' = [task EXCEPT ![w] = NoItem] /\ free' = free \cup {task[w].mem}
          /\ item' = item /\ tasks' = tasks
      BY <2>3 DEF FreeTask, callerVars
    <3>2. /\ Offering' = Offering /\ Carrying' = Carrying \ {w}
          /\ \A v \in Carrying' : task'[v] = task[v]
      BY <3>1 DEF OwnInv, ItemsInv, Offering, Carrying
    <3> QED
      BY <3>1, <3>2
  <2> QED
    BY <1>2, <2>1, <2>2, <2>3 DEF WriterStep
<1>3. CASE Destroy \/ Joined \/ Terminated \/ UNCHANGED poolVars
  <2>1. UNCHANGED <<free, item, tasks, task>>
    BY <1>3 DEF Destroy, Joined, Terminated, poolVars, memoryVars, callerVars, writerVars
  <2> QED
    BY <2>1 DEF Offering, Carrying
<1>4. CASE ClearTasks
  <2>1. /\ free' = free \cup {tasks[i].mem : i \in DOMAIN tasks}
        /\ UNCHANGED <<item, task>>
    BY <1>4 DEF ClearTasks, callerVars, writerVars, Range
  <2> QED
    BY <2>1 DEF Offering, Carrying
<1> QED
  BY <1>1, <1>2, <1>3, <1>4 DEF PoolNext, OwnerStep

LEMMA StopNext == OwnInv /\ StopInv /\ [PoolNext]_poolVars => StopInv'
<1> SUFFICES ASSUME OwnInv, StopInv, [PoolNext]_poolVars PROVE StopInv'
  OBVIOUS
<1>1. /\ MaxThread \in Nat /\ Writer = 1 .. MaxThread
  BY PoolAssumption
<1>2. ASSUME NEW c \in Caller, CallerStep(c) PROVE StopInv'
  <2>1. stage = "serving" /\ stage' = stage
    BY <1>2 DEF CallerStep, Alloc, Fill, Accept, Refuse, Discard, StopInv, ownerVars
  <2> QED
    BY <2>1 DEF StopInv
<1>3. ASSUME NEW w \in Writer, WriterStep(w) PROVE StopInv'
  <2>1. /\ wpc[w] # "finished" /\ at' = at /\ stage' = stage /\ joining' = joining
        /\ \A v \in Writer : v # w => wpc'[v] = wpc[v]
    BY <1>3 DEF WriterStep, CheckRunning, PopTask, PopNothing, SaveOpen, SaveWrite, SaveResult,
                FreeTask, WriterAt, callerVars, ownerVars, OwnInv, PlacesInv
  <2> QED
    BY <2>1 DEF StopInv
<1>4. CASE Destroy
  <2>1. /\ \A c \in Caller : at'[c] = "idle"
        /\ \/ stage' = "clearing" /\ 1 > MaxThread
           \/ stage' = "joining" /\ joining' = 1 /\ 1 \in Writer
    BY <1>1, <1>4 DEF Destroy, JoinNext, callerVars
  <2> QED
    BY <1>1, <2>1 DEF StopInv
<1>5. CASE Joined
  <2>1. /\ stage = "joining" /\ wpc[joining] = "finished" /\ wpc' = wpc /\ at' = at
        /\ joining \in Writer /\ \A w \in Writer : w < joining => wpc[w] = "finished"
    BY <1>5 DEF Joined, StopInv, callerVars
  <2>2. \A w \in Writer : w < joining + 1 => wpc'[w] = "finished"
    BY <1>1, <2>1
  <2>3. \/ stage' = "clearing" /\ joining + 1 > MaxThread
        \/ stage' = "joining" /\ joining' = joining + 1 /\ joining + 1 \in Writer
    BY <1>1, <1>5, <2>1 DEF Joined, JoinNext
  <2> QED
    BY <1>1, <2>1, <2>2, <2>3 DEF StopInv
<1>6. CASE ClearTasks
  BY <1>6 DEF ClearTasks, StopInv, callerVars, writerVars
<1>7. CASE Terminated \/ UNCHANGED poolVars
  BY <1>7 DEF Terminated, poolVars, callerVars, writerVars, ownerVars, StopInv
<1> QED
  BY <1>2, <1>3, <1>4, <1>5, <1>6, <1>7 DEF PoolNext, OwnerStep

LEMMA NoneLostFromAccounts == OwnInv /\ Accounted => NoElementLost
<1> SUFFICES ASSUME OwnInv, Accounted PROVE NoElementLost
  OBVIOUS
<1>1. /\ \A i \in DOMAIN tasks : tasks[i].mem \in Element
      /\ \A w \in Carrying : task[w].mem \in Element
      /\ \A c \in Offering : item[c].mem \in Element
  <2>1. \A i \in DOMAIN tasks : tasks[i] \in Item
    BY ElementOfSeq, LenProperties DEF OwnInv, ItemsInv
  <2>2. /\ \A w \in Carrying : task[w] \in Item
        /\ \A c \in Offering : item[c] \in Item
    BY DEF OwnInv, ItemsInv, Carrying, Offering
  <2>3. \A i \in Item : i.mem \in Element
    BY DEF Item
  <2> QED
    BY <2>1, <2>2, <2>3
<1>2. {i.mem : i \in Queued \cup InHand \cup Offered}
        = {tasks[i].mem : i \in DOMAIN tasks} \cup {task[w].mem : w \in Carrying}
            \cup {item[c].mem : c \in Offering}
  BY PlacesOfItems
<1>3. free \subseteq Element
  BY DEF OwnInv, ItemsInv
<1> QED
  BY <1>1, <1>2, <1>3 DEF NoElementLost, Accounted

\* If every caller frees the element of an item that was refused, each element
\* is free or on its way at any time.
THEOREM NothingLost ==
  ASSUME Freeing = Caller
  PROVE  PoolSpec => []NoElementLost
<1>1. OwnInv /\ Accounted /\ [PoolNext]_poolVars => Accounted'
  BY AccountedNext
<1> QED
  BY <1>1, NoneLostFromAccounts, AccountedInit, PoolOwnership, PTL DEF PoolSpec

\* When destroy has returned no writer runs, nothing is queued, and all
\* elements are free again.
THEOREM DestroyComplete ==
  ASSUME Freeing = Caller
  PROVE  PoolSpec => []DestroyCleansUp
<1>1. OwnInv /\ Accounted /\ [PoolNext]_poolVars => Accounted'
  BY AccountedNext
<1>2. OwnInv /\ Accounted /\ StopInv => DestroyCleansUp
  <2> SUFFICES ASSUME OwnInv, Accounted, StopInv, stage = "stopped"
               PROVE  /\ tasks = <<>>
                      /\ \A w \in Writer : wpc[w] = "finished" /\ task[w] = NoItem
                      /\ free = Element
    BY DEF DestroyCleansUp
  <2>1. tasks = <<>> /\ \A w \in Writer : wpc[w] = "finished" /\ task[w] = NoItem
    BY DEF StopInv, OwnInv, PlacesInv
  <2>2. Carrying = {} /\ Offering = {} /\ DOMAIN tasks = {}
    BY <2>1 DEF StopInv, OwnInv, PlacesInv, Carrying, Offering
  <2> QED
    BY <2>1, <2>2 DEF OwnInv, ItemsInv, Accounted
<1> QED
  BY <1>1, <1>2, StopNext, AccountedInit, StopInit, PoolOwnership, PTL DEF PoolSpec

-----------------------------------------------------------------------------
(* How each step moves items.                                              *)

LEMMA AllocMoves ==
  ASSUME OwnInv, NEW c \in Caller, Alloc(c)
  PROVE  /\ c \notin Offering /\ Offering' = Offering \cup {c} /\ Carrying' = Carrying
         /\ tasks' = tasks /\ task' = task
         /\ \A d \in Offering : item'[d] = item[d]
         /\ item'[c].upload \in Upload \ Mentioned
<1>1. PICK e \in free, f \in File, n \in 0 .. MaxLength, u \in Upload \ Mentioned :
        item' = [item EXCEPT ![c] = [file |-> f, mem |-> e, len |-> n, upload |-> u]]
  BY DEF Alloc
<1> DEFINE new == [file |-> f, mem |-> e, len |-> n, upload |-> u]
<1>2. /\ new # NoItem /\ new.upload = u /\ item[c] = NoItem
      /\ item \in [Caller -> Item \cup {NoItem}]
  BY NoItemAssumption DEF Alloc, OwnInv, ItemsInv, PlacesInv, Item
<1>3. tasks' = tasks /\ task' = task
  BY DEF Alloc, writerVars
<1> HIDE DEF new
<1>4. item' = [item EXCEPT ![c] = new]
  BY <1>1 DEF new
<1> QED
  BY <1>2, <1>3, <1>4 DEF Offering, Carrying

LEMMA AcceptMoves ==
  ASSUME OwnInv, NEW c \in Caller, Accept(c)
  PROVE  /\ c \in Offering /\ item[c] \in Item
         /\ Offering' = Offering \ {c} /\ Carrying' = Carrying /\ task' = task
         /\ \A d \in Offering' : item'[d] = item[d]
         /\ \E n \in Nat : /\ DOMAIN tasks' = DOMAIN tasks \cup {n} /\ n \notin DOMAIN tasks
                           /\ tasks'[n] = item[c]
         /\ \A j \in DOMAIN tasks : tasks'[j] = tasks[j]
<1>1. /\ at[c] = "push" /\ item' = [item EXCEPT ![c] = NoItem]
      /\ tasks' = Append(tasks, item[c]) /\ task' = task
  BY DEF Accept, writerVars
<1>2. c \in Offering /\ item[c] \in Item /\ tasks \in Seq(Item)
  BY <1>1 DEF OwnInv, ItemsInv, PlacesInv, Offering
<1>3. /\ DOMAIN tasks' = DOMAIN tasks \cup {Len(tasks) + 1} /\ Len(tasks) + 1 \notin DOMAIN tasks
      /\ tasks'[Len(tasks) + 1] = item[c] /\ \A j \in DOMAIN tasks : tasks'[j] = tasks[j]
  BY <1>1, <1>2, Appended
<1>4. Len(tasks) + 1 \in Nat
  BY <1>2, LenProperties
<1>5. /\ Offering' = Offering \ {c} /\ Carrying' = Carrying
      /\ \A d \in Offering' : item'[d] = item[d]
  BY <1>1 DEF OwnInv, ItemsInv, Offering, Carrying
<1> QED
  BY <1>1, <1>2, <1>3, <1>4, <1>5

LEMMA DiscardMoves ==
  ASSUME OwnInv, NEW c \in Caller, Discard(c)
  PROVE  /\ Offering' = Offering \ {c} /\ Carrying' = Carrying
         /\ tasks' = tasks /\ task' = task
         /\ \A d \in Offering' : item'[d] = item[d]
BY DEF Discard, writerVars, OwnInv, ItemsInv, Offering, Carrying

LEMMA PopTaskMoves ==
  ASSUME OwnInv, NEW w \in Writer, PopTask(w)
  PROVE  /\ Len(tasks) \in DOMAIN tasks /\ DOMAIN tasks' = DOMAIN tasks \ {Len(tasks)}
         /\ \A j \in DOMAIN tasks' : tasks'[j] = tasks[j]
         /\ w \notin Carrying /\ Carrying' = Carrying \cup {w}
         /\ task'[w] = tasks[Len(tasks)]
         /\ \A v \in Writer : v # w => task'[v] = task[v]
         /\ Offering' = Offering /\ item' = item
<1>1. /\ tasks # <<>> /\ tasks' = TasksLeft /\ task' = [task EXCEPT ![w] = NextTask]
      /\ wpc[w] = "pop" /\ item' = item
  BY DEF PopTask, WriterAt, callerVars
<1>2. /\ NextTask \in Item /\ NextTask = tasks[Len(tasks)] /\ Len(tasks) \in DOMAIN tasks
      /\ DOMAIN tasks' = DOMAIN tasks \ {Len(tasks)}
      /\ \A j \in DOMAIN tasks' : tasks'[j] = tasks[j]
  BY <1>1, Popped DEF OwnInv, ItemsInv
<1>3. /\ w \notin Carrying /\ Carrying' = Carrying \cup {w} /\ Offering' = Offering
      /\ task'[w] = NextTask /\ \A v \in Writer : v # w => task'[v] = task[v]
  BY <1>1, <1>2, NoItemAssumption DEF OwnInv, ItemsInv, PlacesInv, Carrying, Offering
<1> QED
  BY <1>1, <1>2, <1>3

LEMMA FreeTaskMoves ==
  ASSUME OwnInv, NEW w \in Writer, FreeTask(w)
  PROVE  /\ Offering' = Offering /\ Carrying' = Carrying \ {w}
         /\ tasks' = tasks /\ item' = item
         /\ \A v \in Writer : v # w => task'[v] = task[v]
BY DEF FreeTask, callerVars, OwnInv, ItemsInv, Offering, Carrying

\* All other steps but ClearTasks leave the items where they are.
ItemsAtRest == UNCHANGED <<item, tasks, task>>

LEMMA OthersMoveNothing ==
  ASSUME [PoolNext]_poolVars
  PROVE  \/ \E c \in Caller : Alloc(c) \/ Accept(c) \/ Discard(c)
         \/ \E w \in Writer : PopTask(w) \/ FreeTask(w)
         \/ ClearTasks
         \/ ItemsAtRest
<1>1. ASSUME NEW c \in Caller, Fill(c) \/ Refuse(c) PROVE ItemsAtRest
  BY <1>1 DEF Fill, Refuse, writerVars, ItemsAtRest
<1>2. ASSUME NEW w \in Writer, CheckRunning(w) \/ PopNothing(w) \/ SaveOpen(w) \/ SaveWrite(w)
      PROVE  ItemsAtRest
  BY <1>2 DEF CheckRunning, PopNothing, SaveOpen, SaveWrite, SaveResult, callerVars, ItemsAtRest
<1>3. ASSUME Destroy \/ Joined \/ Terminated \/ UNCHANGED poolVars PROVE ItemsAtRest
  BY <1>3 DEF Destroy, Joined, Terminated, poolVars, callerVars, writerVars, ItemsAtRest
<1> QED
  BY <1>1, <1>2, <1>3 DEF PoolNext, CallerStep, WriterStep, OwnerStep

-----------------------------------------------------------------------------
(* No upload is on its way twice.                                          *)

UploadsApart ==
  /\ \A i, j \in DOMAIN tasks : tasks[i].upload = tasks[j].upload => i = j
  /\ \A c, d \in Offering : item[c].upload = item[d].upload => c = d
  /\ \A v, w \in Carrying : task[v].upload = task[w].upload => v = w
  /\ \A i \in DOMAIN tasks, c \in Offering : tasks[i].upload # item[c].upload
  /\ \A i \in DOMAIN tasks, w \in Carrying : tasks[i].upload # task[w].upload
  /\ \A c \in Offering, w \in Carrying : item[c].upload # task[w].upload

\* An upload on its way is mentioned, so that Alloc does not start it again.
LEMMA ItemsMentioned ==
  ASSUME OwnInv
  PROVE  /\ \A i \in DOMAIN tasks : tasks[i].upload \in Mentioned
         /\ \A c \in Offering : item[c].upload \in Mentioned
         /\ \A w \in Carrying : task[w].upload \in Mentioned
<1> DEFINE all == (Range(tasks) \cup Range(item) \cup Range(task)) \ {NoItem}
<1>1. \A i \in all : i.upload \in Mentioned
  BY DEF Mentioned
<1>2. \A i \in DOMAIN tasks : tasks[i] \in all
  <2>1. \A i \in DOMAIN tasks : tasks[i] \in Item
    BY ElementOfSeq, LenProperties DEF OwnInv, ItemsInv
  <2> QED
    BY <2>1, NoItemAssumption DEF Range
<1>3. \A c \in Offering : item[c] \in all
  BY DEF Offering, OwnInv, ItemsInv, Range
<1>4. \A w \in Carrying : task[w] \in all
  BY DEF Carrying, OwnInv, ItemsInv, Range
<1> QED
  BY <1>1, <1>2, <1>3, <1>4

LEMMA UploadsInit == PoolInit => UploadsApart
<1> SUFFICES ASSUME PoolInit PROVE UploadsApart
  OBVIOUS
<1>1. Offering = {} /\ Carrying = {} /\ DOMAIN tasks = {}
  BY DEF PoolInit, Offering, Carrying
<1> QED
  BY <1>1 DEF UploadsApart

LEMMA UploadsNext == OwnInv /\ UploadsApart /\ [PoolNext]_poolVars => UploadsApart'
<1> SUFFICES ASSUME OwnInv, UploadsApart, [PoolNext]_poolVars PROVE UploadsApart'
  OBVIOUS
<1>1. ASSUME NEW c \in Caller, Alloc(c) PROVE UploadsApart'
  BY <1>1, AllocMoves, ItemsMentioned DEF UploadsApart
<1>2. ASSUME NEW c \in Caller, Accept(c) PROVE UploadsApart'
  <2>1. PICK n \in Nat : /\ DOMAIN tasks' = DOMAIN tasks \cup {n} /\ n \notin DOMAIN tasks
                         /\ tasks'[n] = item[c]
    BY <1>2, AcceptMoves
  <2>2. /\ c \in Offering /\ Offering' = Offering \ {c} /\ Carrying' = Carrying /\ task' = task
        /\ \A d \in Offering' : item'[d] = item[d]
        /\ \A j \in DOMAIN tasks : tasks'[j] = tasks[j]
    BY <1>2, AcceptMoves
  <2> QED
    BY <2>1, <2>2 DEF UploadsApart
<1>3. ASSUME NEW c \in Caller, Discard(c) PROVE UploadsApart'
  BY <1>3, DiscardMoves DEF UploadsApart
<1>4. ASSUME NEW w \in Writer, PopTask(w) PROVE UploadsApart'
  <2>1. \A v \in Carrying : v # w /\ task'[v] = task[v]
    BY <1>4, PopTaskMoves DEF Carrying
  <2> QED
    BY <1>4, <2>1, PopTaskMoves DEF UploadsApart
<1>5. ASSUME NEW w \in Writer, FreeTask(w) PROVE UploadsApart'
  <2>1. \A v \in Carrying' : v \in Carrying /\ task'[v] = task[v]
    BY <1>5, FreeTaskMoves DEF Carrying
  <2> QED
    BY <1>5, <2>1, FreeTaskMoves DEF UploadsApart
<1>6. CASE ClearTasks
  <2>1. DOMAIN tasks' = {} /\ Offering' = Offering /\ Carrying' = Carrying /\ item' = item
        /\ task' = task
    BY <1>6 DEF ClearTasks, callerVars, writerVars, Offering, Carrying
  <2> QED
    BY <2>1 DEF UploadsApart
<1>7. CASE ItemsAtRest
  BY <1>7 DEF ItemsAtRest, UploadsApart, Offering, Carrying
<1> QED
  BY <1>1, <1>2, <1>3, <1>4, <1>5, <1>6, <1>7, OthersMoveNothing

-----------------------------------------------------------------------------
(* The open tickets.                                                       *)

LEMMA SavingCarries == OwnInv => Saving \subseteq Carrying
BY DEF OwnInv, PlacesInv, Saving, Carrying

LEMMA AcceptOpens ==
  ASSUME OwnInv, UploadsApart, NEW c \in Caller, Accept(c)
  PROVE  /\ OpenUploads' = OpenUploads \cup {item[c].upload}
         /\ item[c].upload \in Upload \ OpenUploads
<1>1. Saving' = Saving /\ task' = task
  BY DEF Accept, writerVars, Saving
<1>2. item[c].upload \in Upload
  BY AcceptMoves DEF Item
<1>3. item[c].upload \notin OpenUploads
  BY AcceptMoves, SavingCarries DEF OpenUploads, UploadsApart
<1>4. PICK n \in Nat : DOMAIN tasks' = DOMAIN tasks \cup {n} /\ tasks'[n] = item[c]
  BY AcceptMoves
<1>5. \A j \in DOMAIN tasks : tasks'[j] = tasks[j]
  BY AcceptMoves
<1> QED
  BY <1>1, <1>2, <1>3, <1>4, <1>5 DEF OpenUploads

LEMMA PopTaskKeepsOpen ==
  ASSUME OwnInv, NEW w \in Writer, PopTask(w)
  PROVE  OpenUploads' = OpenUploads
<1>1. Saving' = Saving \cup {w} /\ w \notin Saving
  BY DEF PopTask, WriterAt, OwnInv, PlacesInv, Saving
<1>2. \A v \in Saving : task'[v] = task[v]
  BY <1>1, PopTaskMoves DEF Saving
<1> QED
  BY <1>1, <1>2, PopTaskMoves DEF OpenUploads

LEMMA SaveWriteCloses ==
  ASSUME OwnInv, UploadsApart, NEW w \in Writer, SaveWrite(w)
  PROVE  /\ OpenUploads' = OpenUploads \ {task[w].upload}
         /\ task[w].upload \in OpenUploads
<1>1. /\ w \in Saving /\ Saving' = Saving \ {w} /\ tasks' = tasks /\ task' = task
  BY DEF SaveWrite, SaveResult, WriterAt, OwnInv, PlacesInv, Saving
<1>2. \A v \in Saving \ {w} : task[v].upload # task[w].upload
  BY <1>1, SavingCarries DEF UploadsApart
<1>3. \A i \in DOMAIN tasks : tasks[i].upload # task[w].upload
  BY <1>1, SavingCarries DEF UploadsApart
<1> QED
  BY <1>1, <1>2, <1>3 DEF OpenUploads

LEMMA FreeTaskKeepsOpen ==
  ASSUME OwnInv, NEW w \in Writer, FreeTask(w)
  PROVE  OpenUploads' = OpenUploads
<1>1. Saving' = Saving /\ w \notin Saving
  BY DEF FreeTask, WriterAt, OwnInv, PlacesInv, Saving
<1> QED
  BY <1>1, FreeTaskMoves DEF OpenUploads, Saving

-----------------------------------------------------------------------------
(* Types.                                                                  *)

\* A stream that is open leads to a file that exists.
FilesInv ==
  /\ disk \in [File -> Seq(Upload) \cup {Absent}]
  /\ stream \in [Writer -> File \cup {NoFile, Unlinked}]
  /\ \A w \in Writer, f \in File : stream[w] = f => disk[f] \in Seq(Upload)

CountersInv == {saved, saveFailed, discarded} \subseteq 0 .. CounterRange - 1

ControlInv ==
  /\ Len(tasks) <= MaxTask
  /\ running \in [Writer -> BOOLEAN]
  /\ stage \in {"serving", "joining", "clearing", "stopped"}
  /\ joining \in 0 .. MaxThread

LEMMA Remainder ==
  ASSUME NEW m \in Nat \ {0}, NEW a \in Nat
  PROVE  a % m \in 0 .. m - 1 /\ (a < m => a % m = a)
  OBVIOUS

LEMMA IncInRange == \A n \in 0 .. CounterRange - 1 : Inc(n) \in 0 .. CounterRange - 1
<1> SUFFICES ASSUME NEW n \in 0 .. CounterRange - 1 PROVE Inc(n) \in 0 .. CounterRange - 1
  OBVIOUS
<1>1. CounterRange \in Nat \ {0} /\ n + 1 \in Nat
  BY PoolAssumption
<1> QED
  BY <1>1, Remainder DEF Inc

LEMMA TypesInit == PoolInit => FilesInv /\ CountersInv /\ ControlInv
<1> SUFFICES ASSUME PoolInit PROVE FilesInv /\ CountersInv /\ ControlInv
  OBVIOUS
<1>1. FilesInv
  BY FileAssumption DEF PoolInit, StorageInit, FilesInv
<1>2. CountersInv
  BY PoolAssumption DEF PoolInit, CountersInv
<1>3. running \in [Writer -> BOOLEAN]
  BY DEF PoolInit
<1> QED
  BY <1>1, <1>2, <1>3, PoolAssumption, EmptySeq DEF PoolInit, ControlInv

LEMMA OverlayType ==
  ASSUME NEW old \in Seq(Upload), NEW u \in Upload, NEW n \in Nat
  PROVE  Overlay(old, u, n) \in Seq(Upload)
<1> DEFINE m == IF Len(old) > n THEN Len(old) ELSE n
<1>1. m \in Nat /\ Len(old) \in Nat
  BY LenProperties
<1>2. \A i \in 1 .. m : i > n => old[i] \in Upload
  BY <1>1, ElementOfSeq
<1>3. Overlay(old, u, n) \in [1 .. m -> Upload]
  BY <1>1, <1>2 DEF Overlay
<1> QED
  BY <1>1, <1>3, SeqDef

LEMMA FilesNext == OwnInv /\ FilesInv /\ [PoolNext]_poolVars => FilesInv'
<1> SUFFICES ASSUME OwnInv, FilesInv, [PoolNext]_poolVars PROVE FilesInv'
  OBVIOUS
<1>1. ASSUME NEW c \in Caller, CallerStep(c) PROVE UNCHANGED storageVars
  BY <1>1 DEF CallerStep, Alloc, Fill, Accept, Refuse, Discard
<1>2. ASSUME NEW w \in Writer, NEW f \in File, OpenForWrite(w, f) PROVE FilesInv'
  <2>1. <<>> \in Seq(Upload)
    BY EmptySeq
  <2> QED
    BY <1>2, <2>1 DEF OpenForWrite, FilesInv
<1>3. ASSUME NEW w \in Writer, SaveWrite(w) PROVE FilesInv'
  <2>1. PICK n \in 0 .. task[w].len : WriteAndClose(w, data[task[w].mem], n)
    BY <1>3 DEF SaveWrite, SaveResult
  <2> DEFINE u == data[task[w].mem]
  <2>2. w \in Carrying /\ task[w] \in Item
    BY <1>3 DEF SaveWrite, SaveResult, WriterAt, OwnInv, ItemsInv, PlacesInv, Carrying
  <2>3. u \in Upload /\ n \in Nat
    BY <2>2 DEF OwnInv, DataInv, Item
  <2>4. /\ stream' = [stream EXCEPT ![w] = NoFile]
        /\ disk' = [f \in File |-> IF stream[w] = f THEN Overlay(disk[f], u, n) ELSE disk[f]]
    BY <2>1 DEF WriteAndClose
  <2> HIDE DEF u
  <2>5. \A f \in File : stream[w] = f => disk'[f] \in Seq(Upload)
    BY <2>3, <2>4, OverlayType DEF FilesInv
  <2>6. disk' \in [File -> Seq(Upload) \cup {Absent}]
    BY <2>4, <2>5 DEF FilesInv
  <2>7. \A v \in Writer, f \in File : stream'[v] = f => disk'[f] \in Seq(Upload)
    BY <2>4, <2>5, FileAssumption DEF FilesInv
  <2> QED
    BY <2>4, <2>6, <2>7 DEF FilesInv
<1>4. ASSUME NEW w \in Writer, WriterStep(w) PROVE FilesInv' \/ UNCHANGED storageVars
  <2>1. CASE SaveOpen(w)
    <3>1. task[w] \in Item
      BY <2>1 DEF SaveOpen, WriterAt, OwnInv, ItemsInv, PlacesInv
    <3>2. Paths(task[w]) \subseteq File
      BY <3>1 DEF Paths, Item
    <3> QED
      BY <1>2, <2>1, <3>2 DEF SaveOpen
  <2> QED
    BY <1>3, <1>4, <2>1 DEF WriterStep, CheckRunning, PopTask, PopNothing, FreeTask
<1>5. ASSUME Destroy \/ OwnerStep \/ Terminated \/ UNCHANGED poolVars PROVE UNCHANGED storageVars
  BY <1>5 DEF Destroy, OwnerStep, Joined, ClearTasks, Terminated, poolVars
<1>6. UNCHANGED storageVars => FilesInv'
  BY DEF storageVars, FilesInv
<1> QED
  BY <1>1, <1>4, <1>5, <1>6 DEF PoolNext

\* What a step does to the two counters that settle uploads.
LEMMA CountersMove ==
  ASSUME [PoolNext]_poolVars
  PROVE  \/ \E w \in Writer :
              /\ SaveWrite(w)
              /\ \/ saved' = Inc(saved) /\ saveFailed' = saveFailed
                 \/ saveFailed' = Inc(saveFailed) /\ saved' = saved
         \/ UNCHANGED <<saved, saveFailed>>
<1>1. ASSUME NEW c \in Caller, CallerStep(c) PROVE UNCHANGED <<saved, saveFailed>>
  BY <1>1 DEF CallerStep, Alloc, Fill, Accept, Refuse, Discard, counters
<1>2. ASSUME NEW w \in Writer, SaveWrite(w)
      PROVE  \/ saved' = Inc(saved) /\ saveFailed' = saveFailed
             \/ saveFailed' = Inc(saveFailed) /\ saved' = saved
  BY <1>2 DEF SaveWrite, SaveResult
<1>3. ASSUME NEW w \in Writer, WriterStep(w), ~ SaveWrite(w)
      PROVE  UNCHANGED <<saved, saveFailed>>
  BY <1>3 DEF WriterStep, CheckRunning, PopTask, PopNothing, SaveOpen, FreeTask, counters
<1>4. ASSUME Destroy \/ OwnerStep \/ Terminated \/ UNCHANGED poolVars
      PROVE  UNCHANGED <<saved, saveFailed>>
  BY <1>4 DEF Destroy, OwnerStep, Joined, ClearTasks, Terminated, poolVars, counters
<1> QED
  BY <1>1, <1>2, <1>3, <1>4 DEF PoolNext

LEMMA CountersNext == CountersInv /\ [PoolNext]_poolVars => CountersInv'
<1> SUFFICES ASSUME CountersInv, [PoolNext]_poolVars PROVE CountersInv'
  OBVIOUS
<1>1. discarded' \in {discarded, Inc(discarded)}
  <2>1. ASSUME NEW c \in Caller, CallerStep(c)
        PROVE  discarded' \in {discarded, Inc(discarded)}
    BY <2>1 DEF CallerStep, Alloc, Fill, Accept, Refuse, Discard, counters
  <2>2. ASSUME NEW w \in Writer, WriterStep(w)
        PROVE  discarded' = discarded
    BY <2>2 DEF WriterStep, CheckRunning, PopTask, PopNothing, SaveOpen, SaveWrite, SaveResult,
                FreeTask, counters
  <2>3. ASSUME Destroy \/ OwnerStep \/ Terminated \/ UNCHANGED poolVars
        PROVE  discarded' = discarded
    BY <2>3 DEF Destroy, OwnerStep, Joined, ClearTasks, Terminated, poolVars, counters
  <2> QED
    BY <2>1, <2>2, <2>3 DEF PoolNext
<1> QED
  BY <1>1, CountersMove, IncInRange DEF CountersInv

LEMMA JoinNextControl ==
  ASSUME ControlInv, tasks' = tasks, NEW i \in 1 .. MaxThread + 1, JoinNext(i)
  PROVE  ControlInv'
<1>1. MaxThread \in Nat /\ Writer = 1 .. MaxThread
  BY PoolAssumption
<1>2. /\ stage' \in {"joining", "clearing"} /\ joining' \in 0 .. MaxThread
      /\ running' = running \/ running' = [running EXCEPT ![i] = FALSE]
  BY <1>1 DEF JoinNext
<1>3. running' \in [Writer -> BOOLEAN]
  BY <1>2 DEF ControlInv
<1> QED
  BY <1>2, <1>3 DEF ControlInv

LEMMA ControlNext == OwnInv /\ ControlInv /\ [PoolNext]_poolVars => ControlInv'
<1> SUFFICES ASSUME OwnInv, ControlInv, [PoolNext]_poolVars PROVE ControlInv'
  OBVIOUS
<1>1. MaxThread \in Nat /\ MaxTask \in Nat
  BY PoolAssumption
<1>2. ASSUME UNCHANGED <<tasks, running, stage, joining>> PROVE ControlInv'
  BY <1>2 DEF ControlInv
<1>3. ASSUME NEW c \in Caller, CallerStep(c) PROVE ControlInv'
  <2>1. CASE Accept(c)
    <3>1. item[c] \in Item /\ tasks \in Seq(Item)
      BY <2>1, AcceptMoves DEF OwnInv, ItemsInv
    <3>2. Len(tasks') = Len(tasks) + 1 /\ Len(tasks) \in Nat
      BY <2>1, <3>1, AppendProperties, LenProperties DEF Accept
    <3>3. Len(tasks') <= MaxTask
      BY <1>1, <2>1, <3>2 DEF Accept, QueueFull
    <3>4. UNCHANGED <<running, stage, joining>>
      BY <2>1 DEF Accept, writerVars, ownerVars
    <3> QED
      BY <3>3, <3>4 DEF ControlInv
  <2>2. CASE Alloc(c) \/ Fill(c) \/ Refuse(c) \/ Discard(c)
    BY <1>2, <2>2 DEF Alloc, Fill, Refuse, Discard, writerVars, ownerVars
  <2> QED
    BY <1>3, <2>1, <2>2 DEF CallerStep
<1>4. ASSUME NEW w \in Writer, WriterStep(w) PROVE ControlInv'
  <2>1. CASE PopTask(w)
    <3> DEFINE n == Len(tasks)
               m == Len(tasks')
    <3>1. /\ tasks \in Seq(Item) /\ tasks' \in Seq(Item) /\ n \in DOMAIN tasks
          /\ DOMAIN tasks' = DOMAIN tasks \ {n}
      BY <2>1, Popped DEF PopTask, OwnInv, ItemsInv
    <3>2. m \in Nat /\ n \in Nat /\ DOMAIN tasks' = 1 .. m /\ DOMAIN tasks = 1 .. n
      BY <3>1, LenProperties
    <3> HIDE DEF m, n
    <3>3. m <= n
      BY <3>1, <3>2
    <3>4. UNCHANGED <<running, stage, joining>>
      BY <2>1 DEF PopTask, ownerVars
    <3> QED
      BY <1>1, <3>2, <3>3, <3>4 DEF ControlInv, m, n
  <2>2. CASE ~ PopTask(w)
    BY <1>2, <1>4, <2>2 DEF WriterStep, CheckRunning, PopNothing, SaveOpen, SaveWrite, SaveResult,
                            FreeTask, ownerVars
  <2> QED
    BY <2>1, <2>2
<1>5. CASE Destroy
  BY <1>1, <1>5, JoinNextControl DEF Destroy
<1>6. CASE Joined
  <2>1. joining + 1 \in 1 .. MaxThread + 1
    BY <1>1 DEF ControlInv
  <2> QED
    BY <1>6, <2>1, JoinNextControl DEF Joined
<1>7. CASE ClearTasks
  <2>1. Len(tasks') = 0
    BY <1>7, EmptySeq DEF ClearTasks
  <2> QED
    BY <1>1, <1>7, <2>1 DEF ClearTasks, ControlInv, writerVars
<1>8. CASE Terminated \/ UNCHANGED poolVars
  BY <1>2, <1>8 DEF Terminated, poolVars, writerVars, ownerVars
<1> QED
  BY <1>3, <1>4, <1>5, <1>6, <1>7, <1>8 DEF PoolNext, OwnerStep

LEMMA TypesFromParts == OwnInv /\ FilesInv /\ CountersInv /\ ControlInv => PoolTypeOK
BY DEF PoolTypeOK, OwnInv, ItemsInv, PlacesInv, FilesInv, CountersInv, ControlInv

\* Every variable of the storage pool has its type, for any callers, writers
\* and limits; above all the queue never holds more than _maxTaskNum items
\* and what is on the disk are blocks of uploads.
THEOREM PoolTypes == PoolSpec => []PoolTypeOK
BY TypesFromParts, TypesInit, FilesNext, CountersNext, ControlNext, PoolOwnership, PTL DEF PoolSpec

-----------------------------------------------------------------------------
(* The refinement.                                                         *)

LEMMA SettledOneMore ==
  ASSUME NEW m \in Nat \ {0}, NEW a \in 0 .. m - 1, NEW b \in 0 .. m - 1
  PROVE  (((a + 1) % m) + b) % m = (((a + b) % m) + 1) % m
<1>1. \A x \in 0 .. m - 1 : x % m = x
  BY Remainder
<1>2. \A x \in m .. 2 * m - 1 : x % m = x - m
  OBVIOUS
<1>3. CASE a + 1 < m /\ a + b < m
  BY <1>1, <1>3
<1>4. CASE a + 1 < m /\ a + b >= m
  BY <1>1, <1>2, <1>4
<1>5. CASE a + 1 = m /\ a + b < m
  BY <1>1, <1>2, <1>5
<1>6. CASE a + 1 = m /\ a + b >= m
  BY <1>1, <1>2, <1>6
<1> QED
  BY <1>3, <1>4, <1>5, <1>6

LEMMA SaveWriteSettles ==
  ASSUME CountersInv, NEW w \in Writer, SaveWrite(w)
  PROVE  Settled' = (Settled + 1) % CounterRange
<1>1. CounterRange \in Nat \ {0}
  BY PoolAssumption
<1>2. saved \in 0 .. CounterRange - 1 /\ saveFailed \in 0 .. CounterRange - 1
  BY DEF CountersInv
<1>3. CASE saved' = Inc(saved) /\ saveFailed' = saveFailed
  BY <1>1, <1>2, <1>3, SettledOneMore DEF Settled, Inc
<1>4. CASE saveFailed' = Inc(saveFailed) /\ saved' = saved
  <2>1. /\ saved + Inc(saveFailed) = Inc(saveFailed) + saved
        /\ saved + saveFailed = saveFailed + saved
    BY <1>1, <1>2, IncInRange
  <2> QED
    BY <1>1, <1>2, <1>4, <2>1, SettledOneMore DEF Settled, Inc
<1> QED
  BY <1>3, <1>4 DEF SaveWrite, SaveResult

\* The steps that the ledger does not see.
LEMMA UnseenSteps ==
  ASSUME OwnInv, StopInv, [PoolNext]_poolVars,
         \A c \in Caller : ~ Accept(c), \A w \in Writer : ~ SaveWrite(w), ~ ClearTasks
  PROVE  /\ OpenUploads' = OpenUploads /\ Settled' = Settled
         /\ (stage' = "stopped") = (stage = "stopped")
<1>1. CASE \E c \in Caller : CallerStep(c)
  BY <1>1 DEF CallerStep, Alloc, Fill, Refuse, Discard, OpenUploads, Saving, Settled, writerVars,
              memoryVars, counters, ownerVars
<1>2. ASSUME NEW w \in Writer, PopTask(w) \/ FreeTask(w)
      PROVE  OpenUploads' = OpenUploads /\ Settled' = Settled /\ stage' = stage
  BY <1>2, PopTaskKeepsOpen, FreeTaskKeepsOpen DEF PopTask, FreeTask, Settled, counters, ownerVars
<1>3. ASSUME NEW w \in Writer, CheckRunning(w) \/ PopNothing(w) \/ SaveOpen(w)
      PROVE  OpenUploads' = OpenUploads /\ Settled' = Settled /\ stage' = stage
  <2>1. /\ UNCHANGED <<tasks, task, saved, saveFailed, stage>>
        /\ \A v \in Writer : wpc'[v] \in {"save", "write"} <=> wpc[v] \in {"save", "write"}
    BY <1>3 DEF CheckRunning, PopNothing, SaveOpen, WriterAt, counters, ownerVars, OwnInv, PlacesInv
  <2>2. Saving' = Saving
    BY <2>1 DEF Saving
  <2> QED
    BY <2>1, <2>2 DEF OpenUploads, Settled
<1>4. CASE Destroy \/ Joined
  <2>1. /\ stage \in {"serving", "joining"} /\ stage' \in {"joining", "clearing"}
        /\ UNCHANGED <<tasks, task, wpc, saved, saveFailed>>
    BY <1>4 DEF Destroy, Joined, JoinNext, counters
  <2> QED
    BY <2>1 DEF OpenUploads, Saving, Settled
<1>5. CASE Terminated \/ UNCHANGED poolVars
  BY <1>5 DEF Terminated, poolVars, writerVars, counters, ownerVars, OpenUploads, Saving, Settled
<1> QED
  BY <1>1, <1>2, <1>3, <1>4, <1>5 DEF PoolNext, WriterStep, OwnerStep

LEMMA LedgerStep ==
  OwnInv /\ StopInv /\ UploadsApart /\ CountersInv /\ [PoolNext]_poolVars
    => [Ledger!LedgerNext]_(Ledger!ledgerVars)
<1> SUFFICES ASSUME OwnInv, StopInv, UploadsApart, CountersInv, [PoolNext]_poolVars
             PROVE  [Ledger!LedgerNext]_(Ledger!ledgerVars)
  OBVIOUS
<1>1. ASSUME NEW c \in Caller, Accept(c) PROVE Ledger!LedgerNext
  <2>1. PICK u \in Upload \ OpenUploads : OpenUploads' = OpenUploads \cup {u}
    BY <1>1, AcceptOpens
  <2>2. stage # "stopped" /\ stage' = stage /\ Settled' = Settled
    BY <1>1 DEF Accept, ownerVars, counters, StopInv, Settled
  <2>3. Ledger!Register(u)
    BY <2>1, <2>2 DEF Ledger!Register
  <2> QED
    BY <2>1, <2>3 DEF Ledger!LedgerNext
<1>2. ASSUME NEW w \in Writer, SaveWrite(w) PROVE Ledger!LedgerNext
  <2>1. task[w] \in Item /\ stage' = stage
    BY <1>2 DEF SaveWrite, SaveResult, WriterAt, OwnInv, ItemsInv, PlacesInv, ownerVars
  <2>2. PICK u \in Upload : u \in OpenUploads /\ OpenUploads' = OpenUploads \ {u}
    BY <1>2, <2>1, SaveWriteCloses DEF Item
  <2>3. Ledger!Settle(u)
    BY <1>2, <2>1, <2>2, SaveWriteSettles DEF Ledger!Settle
  <2> QED
    BY <2>2, <2>3 DEF Ledger!LedgerNext
<1>3. CASE ClearTasks
  <2>1. /\ stage = "clearing" /\ stage' = "stopped" /\ tasks' = <<>> /\ wpc' = wpc
        /\ Settled' = Settled
    BY <1>3 DEF ClearTasks, writerVars, counters, Settled
  <2>2. OpenUploads' = {}
    BY <2>1 DEF StopInv, OpenUploads, Saving
  <2>3. Ledger!Close
    BY <2>1, <2>2 DEF Ledger!Close
  <2> QED
    BY <2>3 DEF Ledger!LedgerNext
<1>4. CASE /\ \A c \in Caller : ~ Accept(c)
           /\ \A w \in Writer : ~ SaveWrite(w)
           /\ ~ ClearTasks
  BY <1>4, UnseenSteps DEF Ledger!ledgerVars
<1> QED
  BY <1>1, <1>2, <1>3, <1>4

LEMMA LedgerStart == PoolInit => Ledger!LedgerInit
<1> SUFFICES ASSUME PoolInit PROVE Ledger!LedgerInit
  OBVIOUS
<1>1. OpenUploads = {}
  BY DEF PoolInit, OpenUploads, Saving
<1>2. 0 % CounterRange = 0
  BY PoolAssumption, Remainder
<1> QED
  BY <1>1, <1>2 DEF PoolInit, Ledger!LedgerInit, Settled

\* Whatever the callers, writers and limits are, the pool keeps its promise:
\* an upload that saveImage took is settled once, as saved or as failed, and
\* only destroy drops what is still queued.
THEOREM PoolSettlesUploads == PoolSpec => ImplementsSaveLedger
BY LedgerStart, LedgerStep, PoolOwnership, StopInit, StopNext, UploadsInit, UploadsNext, TypesInit,
   CountersNext, PTL DEF PoolSpec, ImplementsSaveLedger, Ledger!LedgerSpec

-----------------------------------------------------------------------------
(* The invariants together, for the services that use the pool.            *)

PoolInv ==
  /\ OwnInv
  /\ StopInv
  /\ UploadsApart
  /\ FilesInv
  /\ CountersInv
  /\ ControlInv

LEMMA PoolKeepsInv == PoolInv /\ [PoolNext]_poolVars => PoolInv'
BY OwnNext, StopNext, UploadsNext, FilesNext, CountersNext, ControlNext DEF PoolInv

LEMMA PoolStartsInv == PoolInit => PoolInv
BY OwnInit, StopInit, UploadsInit, TypesInit DEF PoolInv

LEMMA InvGivesPromises == PoolInv => PoolTypeOK /\ ElementHasOneUser /\ QueuedDataIntact
BY TypesFromParts, OneUserFromOwn, IntactFromOwn DEF PoolInv

LEMMA InvGivesLedger ==
  PoolInv /\ [PoolNext]_poolVars => [Ledger!LedgerNext]_(Ledger!ledgerVars)
BY LedgerStep DEF PoolInv
=============================================================================
