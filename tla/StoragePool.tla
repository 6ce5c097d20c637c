----------------------------- MODULE StoragePool ----------------------------
(***************************************************************************)
(* Asynchronous saving: webservice/src/storagePool.cpp.                    *)
(*                                                                         *)
(* A request handler (a caller) takes an element of the memory pool, fills *)
(* it and hands it to StoragePool::saveImage, which appends a StoreItem to *)
(* _tasks unless the queue is full.  Writer threads pop items, save them   *)
(* through their clone of the storage and give the element back.  destroy  *)
(* stops and joins the writers one after the other and gives back the      *)
(* elements of the items that are still queued, unsaved.                   *)
(***************************************************************************)
EXTENDS LocalStorage, FiniteSets, SequencesExt

CONSTANTS
  Caller,        \* threads that handle requests
  Freeing,       \* the callers that free the element of a refused item
  MaxThread,     \* _maxThreadNum
  MaxTask,       \* _maxTaskNum
  Element,       \* elements of the memory pool
  MaxLength,     \* bound: the blocks of an upload
  CounterRange,  \* the statistic counters count modulo this (2^64)
  Results,       \* <<was it written?, what saveImage returned>>
  StartMayFail,  \* may pthread_create fail for a writer?
  BucketKept,    \* does the string behind _bucket outlive the request?
  NoItem         \* a StoreItem before popTask has filled it

ASSUME PoolAssumption ==
  /\ Freeing \subseteq Caller
  /\ MaxThread \in Nat /\ Writer = 1 .. MaxThread
  /\ MaxTask \in Nat
  /\ MaxLength \in Nat \ {0}
  /\ CounterRange \in Nat \ {0}
  /\ Results \subseteq BOOLEAN \X {0, -1}
  /\ StartMayFail \in BOOLEAN
  /\ BucketKept \in BOOLEAN

\* What a StoreItem says: the file, the element with the data, and how much
\* of it.  upload is history: the data that saveImage was asked to save.
Item == [file : File, mem : Element, len : 0 .. MaxLength, upload : Upload]

ASSUME NoItemAssumption == NoItem \notin Item

VARIABLES
  free,       \* the elements that the memory pool can give out
  data,       \* the data in each element
  at,         \* where each caller is
  item,       \* what a caller is about to save
  tasks,      \* _tasks
  running,    \* _isRunning of each writer thread
  wpc,        \* where each writer is in WriterThread::_main
  task,       \* the task of a writer
  saved, saveFailed, discarded,    \* the statistic counters
  stage,      \* what the owner of the pool does
  joining     \* the loop variable of destroy

memoryVars == <<free, data>>
callerVars == <<at, item>>
writerVars == <<running, wpc, task>>
counters   == <<saved, saveFailed, discarded>>
ownerVars  == <<stage, joining>>
poolVars   == <<storageVars, memoryVars, callerVars, tasks, writerVars, counters,
                ownerVars>>

PoolTypeOK ==
  /\ disk \in [File -> Seq(Upload) \cup {Absent}]
  /\ stream \in [Writer -> File \cup {NoFile, Unlinked}]
  /\ free \subseteq Element
  /\ data \in [Element -> Upload \cup {Absent}]
  /\ at \in [Caller -> {"idle", "fill", "push", "refused"}]
  /\ item \in [Caller -> Item \cup {NoItem}]
  /\ tasks \in Seq(Item) /\ Len(tasks) <= MaxTask
  /\ running \in [Writer -> BOOLEAN]
  /\ wpc \in [Writer -> {"loop", "pop", "save", "write", "count", "finished"}]
  /\ task \in [Writer -> Item \cup {NoItem}]
  /\ {saved, saveFailed, discarded} \subseteq 0 .. CounterRange - 1
  /\ stage \in {"serving", "joining", "clearing", "stopped"}
  /\ joining \in 0 .. MaxThread

\* initStorageObject has run: it ignores what start returned, and a writer
\* that could not be created stays in TS_READY.
PoolInit ==
  /\ StorageInit
  /\ free = Element
  /\ data = [e \in Element |-> Absent]
  /\ at = [c \in Caller |-> "idle"]
  /\ item = [c \in Caller |-> NoItem]
  /\ tasks = <<>>
  /\ running \in [Writer -> IF StartMayFail THEN BOOLEAN ELSE {TRUE}]
  /\ wpc = [w \in Writer |-> IF running[w] THEN "loop" ELSE "finished"]
  /\ task = [w \in Writer |-> NoItem]
  /\ saved = 0 /\ saveFailed = 0 /\ discarded = 0
  /\ stage = "serving"
  /\ joining = 0

-----------------------------------------------------------------------------
(* Callers: the end of CropService's and FileService's handlers.           *)

Inc(n) == (n + 1) % CounterRange

\* Uploads that something still refers to; the others can be new ones.
Mentioned ==
  {i.upload : i \in (Range(tasks) \cup Range(item) \cup Range(task)) \ {NoItem}}
    \cup UNION {Range(disk[f]) : f \in {g \in File : Exists(g)}}

\* MemoryPool::alloc.  When it returns MP_NULL the handler answers with an
\* error and nothing changes.
Alloc(c) ==
  /\ stage = "serving"
  /\ at[c] = "idle"
  /\ \E e \in free, f \in File, n \in 0 .. MaxLength, u \in Upload \ Mentioned :
       /\ free' = free \ {e}
       /\ item' = [item EXCEPT ![c] = [file |-> f, mem |-> e, len |-> n, upload |-> u]]
  /\ at' = [at EXCEPT ![c] = "fill"]
  /\ UNCHANGED <<storageVars, data, tasks, writerVars, counters, ownerVars>>

\* The handler copies or renders the image into the element.
Fill(c) ==
  /\ at[c] = "fill"
  /\ data' = [data EXCEPT ![item[c].mem] = item[c].upload]
  /\ at' = [at EXCEPT ![c] = "push"]
  /\ UNCHANGED <<storageVars, free, item, tasks, writerVars, counters, ownerVars>>

OverFull == Len(tasks) > MaxTask  \* (mistake: off by one)
QueueFull == Len(tasks) >= MaxTask

\* (mistake: the caller frees the element that it has handed over)
AcceptAndFree(c) ==
  /\ at[c] = "push"
  /\ ~ QueueFull
  /\ tasks' = Append(tasks, item[c])
  /\ free' = free \cup {item[c].mem}
  /\ at' = [at EXCEPT ![c] = "idle"]
  /\ item' = [item EXCEPT ![c] = NoItem]
  /\ UNCHANGED <<storageVars, data, writerVars, counters, ownerVars>>

\* pushTask, for an item that fits: saveImage returns 0 and the caller has
\* nothing left to do with the element.
Accept(c) ==
  /\ at[c] = "push"
  /\ ~ QueueFull
  /\ tasks' = Append(tasks, item[c])
  /\ at' = [at EXCEPT ![c] = "idle"]
  /\ item' = [item EXCEPT ![c] = NoItem]
  /\ UNCHANGED <<storageVars, memoryVars, writerVars, counters, ownerVars>>

\* pushTask, for an item that does not fit ...
Refuse(c) ==
  /\ at[c] = "push"
  /\ QueueFull
  /\ at' = [at EXCEPT ![c] = "refused"]
  /\ UNCHANGED <<storageVars, memoryVars, item, tasks, writerVars, counters, ownerVars>>

\* ... and the rest of saveImage and of the handler: CropService frees the
\* element, FileService only answers with status 500.
Discard(c) ==
  /\ at[c] = "refused"
  /\ discarded' = Inc(discarded)
  /\ free' = IF c \in Freeing THEN free \cup {item[c].mem} ELSE free
  /\ at' = [at EXCEPT ![c] = "idle"]
  /\ item' = [item EXCEPT ![c] = NoItem]
  /\ UNCHANGED <<storageVars, data, tasks, writerVars, saved, saveFailed, ownerVars>>

-----------------------------------------------------------------------------
(* WriterThread::_main.                                                    *)

WriterAt(w, here, next) ==
  /\ wpc[w] = here
  /\ wpc' = [wpc EXCEPT ![w] = next]

\* while (isRunning())
CheckRunning(w) ==
  /\ WriterAt(w, "loop", IF running[w] THEN "pop" ELSE "finished")
  /\ UNCHANGED <<storageVars, memoryVars, callerVars, tasks, running, task, counters,
                 ownerVars>>

\* popTask copies the last item of the vector and pops the back.
FirstTask == Head(tasks)  \* (mistake: copies the front)
NextTask == Last(tasks)
WithoutFirst == Tail(tasks)  \* (mistake: erases the front)
TasksLeft == Front(tasks)

PopTask(w) ==
  /\ tasks # <<>>
  /\ WriterAt(w, "pop", "save")
  /\ task' = [task EXCEPT ![w] = NextTask]
  /\ tasks' = TasksLeft
  /\ UNCHANGED <<storageVars, memoryVars, callerVars, running, counters, ownerVars>>

\* popTask finds nothing; the writer sleeps for a second.
GiveUp(w) ==  \* (mistake: the writer ends instead)
  /\ tasks = <<>>
  /\ WriterAt(w, "pop", "finished")
  /\ UNCHANGED <<storageVars, memoryVars, callerVars, tasks, running, task, counters,
                 ownerVars>>

PopNothing(w) ==
  /\ tasks = <<>>
  /\ WriterAt(w, "pop", "loop")
  /\ UNCHANGED <<storageVars, memoryVars, callerVars, tasks, running, task, counters,
                 ownerVars>>

WriteMayFail == \E r \in Results : ~ r[1]

\* StoreItem copies the id but only points to the name of the bucket: "" for
\* CropService, a string of the handler for the others, which is gone when a
\* writer reads it.  What is left there may name any bucket.
Paths(i) == IF BucketKept THEN {i.file} ELSE File

\* The storage's saveImage opens the file, silently if that fails ...
SaveOpen(w) ==
  /\ WriterAt(w, "save", "write")
  /\ \/ \E f \in Paths(task[w]) : OpenForWrite(w, f)
     \/ WriteMayFail /\ UNCHANGED storageVars
  /\ UNCHANGED <<memoryVars, callerVars, tasks, running, task, counters, ownerVars>>

\* Which counter goes up: the one saveImage's result asks for.
Successful(result) == result = 0

\* ... and writes what is in the element, or fails after some blocks.
SaveResult(w, r) ==
  /\ WriterAt(w, "write", "count")
  /\ \E n \in 0 .. task[w].len :
       /\ r[1] <=> n = task[w].len /\ stream[w] # NoFile
       /\ WriteAndClose(w, data[task[w].mem], n)
  /\ \/ Successful(r[2]) /\ saved' = Inc(saved) /\ UNCHANGED saveFailed
     \/ ~ Successful(r[2]) /\ saveFailed' = Inc(saveFailed) /\ UNCHANGED saved
  /\ UNCHANGED <<memoryVars, callerVars, tasks, running, task, discarded, ownerVars>>

SaveWrite(w) == \E r \in Results : SaveResult(w, r)

\* The element goes back to the memory pool.
FreeTask(w) ==
  /\ WriterAt(w, "count", "loop")
  /\ free' = free \cup {task[w].mem}
  /\ task' = [task EXCEPT ![w] = NoItem]
  /\ UNCHANGED <<storageVars, data, callerVars, tasks, running, counters, ownerVars>>

-----------------------------------------------------------------------------
(* StoragePool::destroy, once the server's threads have been joined.       *)

SkipLast(i) ==  \* (mistake: the loop ends before the last writer)
  IF i >= MaxThread
  THEN stage' = "clearing" /\ joining' = 0 /\ UNCHANGED running
  ELSE stage' = "joining" /\ joining' = i /\ running' = [running EXCEPT ![i] = FALSE]

WaitOnly(i) ==  \* (mistake: the writer is not told to stop)
  IF i > MaxThread
  THEN stage' = "clearing" /\ joining' = 0 /\ UNCHANGED running
  ELSE stage' = "joining" /\ joining' = i /\ UNCHANGED running

\* The loop goes on to writer i: join clears its _isRunning and waits.
JoinNext(i) ==
  IF i > MaxThread
  THEN stage' = "clearing" /\ joining' = 0 /\ UNCHANGED running
  ELSE stage' = "joining" /\ joining' = i /\ running' = [running EXCEPT ![i] = FALSE]

Destroy ==
  /\ stage = "serving"
  /\ \A c \in Caller : at[c] = "idle"
  /\ JoinNext(1)
  /\ UNCHANGED <<storageVars, memoryVars, callerVars, tasks, wpc, task, counters>>

Joined ==
  /\ stage = "joining"
  /\ wpc[joining] = "finished"
  /\ JoinNext(joining + 1)
  /\ UNCHANGED <<storageVars, memoryVars, callerVars, tasks, wpc, task, counters>>

\* The elements of the items left go back to the pool.
ClearTasks ==
  /\ stage = "clearing"
  /\ free' = free \cup {i.mem : i \in Range(tasks)}
  /\ tasks' = <<>>
  /\ stage' = "stopped"
  /\ UNCHANGED <<storageVars, data, callerVars, writerVars, counters, joining>>

CallerStep(c) == Alloc(c) \/ Fill(c) \/ Accept(c) \/ Refuse(c) \/ Discard(c)

WriterStep(w) ==
  CheckRunning(w) \/ PopTask(w) \/ PopNothing(w) \/ SaveOpen(w) \/ SaveWrite(w) \/ FreeTask(w)

OwnerStep == Joined \/ ClearTasks

\* The service has ended.
Terminated == stage = "stopped" /\ UNCHANGED poolVars

PoolNext ==
  \/ \E c \in Caller : CallerStep(c)
  \/ \E w \in Writer : WriterStep(w)
  \/ Destroy
  \/ OwnerStep
  \/ Terminated

PoolSpec == PoolInit /\ [][PoolNext]_poolVars

-----------------------------------------------------------------------------
(* Properties.                                                             *)

\* Items that are on their way: with a caller, queued, or with a writer.
Queued == Range(tasks)
InHand == {task[w] : w \in Writer} \ {NoItem}
Offered == {item[c] : c \in Caller} \ {NoItem}

\* Nothing of the memory pool is used twice: every item on its way has an
\* element of its own, that the memory pool cannot give to another caller
\* before the writer has freed it (saveImage hands the element over without
\* telling the memory pool).
ElementHasOneUser ==
  /\ \A i, j \in Queued \cup InHand \cup Offered : i.mem = j.mem => i = j
  /\ \A i \in Queued \cup InHand \cup Offered : i.mem \notin free
  /\ Queued \cap InHand = {} /\ Queued \cap Offered = {} /\ InHand \cap Offered = {}
  /\ \A i, j \in DOMAIN tasks : tasks[i] = tasks[j] => i = j
  /\ \A v, w \in Writer : task[v] = task[w] => v = w \/ task[v] = NoItem

\* The data that a caller put into an element is still there when a writer
\* gets to it: _address stays valid across the queue.
QueuedDataIntact ==
  \A i \in Queued \cup InHand : data[i.mem] = i.upload

\* No element is lost: it is free, or with a caller, an item or a writer.
NoElementLost ==
  Element = free \cup {i.mem : i \in Queued \cup InHand \cup Offered}

\* Once destroy has returned nothing is queued, no writer runs, and the
\* memory pool has all its elements back.
DestroyCleansUp ==
  stage = "stopped" =>
    /\ tasks = <<>>
    /\ \A w \in Writer : wpc[w] = "finished" /\ task[w] = NoItem
    /\ free = Element

\* A file that nobody is saving holds exactly one upload ("each thread takes
\* a seperate storage instance, so storage doesn't care multi-thread").
FileIsOneUpload ==
  \A f \in File :
    Exists(f) /\ (\A i \in InHand : i.file # f)
      => \A a, b \in DOMAIN disk[f] : disk[f][a] = disk[f][b]

\* The uploads that are queued or that a writer has not settled yet.
Saving == {w \in Writer : wpc[w] \in {"save", "write"}}
OpenUploads == {tasks[i].upload : i \in DOMAIN tasks} \cup {task[w].upload : w \in Saving}
Settled == (saved + saveFailed) % CounterRange

\* The items the pool took responsibility for, as saveImage's callers see
\* them: each is settled, saved or failed, at most once and none disappears
\* before destroy clears the queue.
Ledger == INSTANCE SaveLedger WITH
  Ticket <- Upload, open <- OpenUploads, settled <- Settled, closed <- stage = "stopped"

ImplementsSaveLedger == Ledger!LedgerSpec

\* destroy returns.
DestroyReturns == stage = "joining" ~> stage = "stopped"

\* If the requests stop coming the writers empty the queue.
QuietPoolDrains ==
  <>[](stage = "serving" /\ \A c \in Caller : at[c] = "idle")
    => <>[](tasks = <<>> /\ InHand = {})
=============================================================================
