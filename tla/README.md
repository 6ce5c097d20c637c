# A verification of imageNGX

imageNGX is a C++ image server: an HTTP server (pion) hands every request to a
service object, which reads, crops, stores or combines images. This directory
holds TLA+ models of its core, configurations that model-check them with TLC,
and proofs about them that TLAPS checks.

    tlc -config MemoryPool.cfg MCMemoryPool      # one run, see the table below
    tlapm MemoryPool_proofs.tla                  # the proofs

## 1. The system

| component | source (webservice/ unless said) | state | operations | what makes it correct |
|---|---|---|---|---|
| ChunkBank | `memoryPool.*` | table of 4096 chunk addresses, `_usingCounter`, a mutex | `createChunk`, `destroyChunk`, `getMemoryAddress` | a chunk index has one user; the count is the number of chunks and stays below the limit |
| BlockStore (one per element size) | `memoryPool.*` | free queue `_head`/`_tail` chained through the free elements, element counter, per-chunk usage and timestamp, a mutex | `alloc`, `freeNode`, `addNewChunk`, `addElement`, `calcRecyclableChunk` | an element is free or has one owner, none is lost, links never lead through memory in use |
| MemoryPool, GCThread | `memoryPool.*` | eleven stores over one bank, an optional collector thread | `alloc`, `getElementAddress`, `freeNode`, `garbageCollect` | the collector frees only what nobody uses |
| StoragePool, WriterThread | `storagePool.*` | `_tasks`, counters, writer threads each with its clone of the storage | `saveImage` (push), the writers' loop, `initStorageObject`, `destroy`; `getImage`, `headImage`, `deleteImage`, `freeImage` go straight to a thread-local clone | the element of an item changes hands once and comes back; each accepted item is settled once; `destroy` ends and leaves nothing behind |
| Thread | `thread.*` | `_status`, `_isRunning`, `_detached`, mutex and condition | `start`, `join`, the launcher | a request to stop is never lost, `join` returns only when `_main` has ended |
| LocalStorage, DiskFile | `localStorage.*` | files below a directory shared by all clones | `saveImage`, `getImage`, `headImage`, `deleteImage` | a file is one upload |
| GridFSStorage, S3Storage | `gridfsStorage.*`, `s3Storage.*` | a connection; read buffers | the same interface | results mean what they say, buffers have an owner |
| FileService, FileSender | `fileService.*` | nothing between requests; a sender has its position in the image | GET, HEAD, PUT, POST, DELETE; chunked sending driven by write callbacks | every element and image a request takes is given back or handed on; every connection is finished |
| CropService, CropServiceV2, CropServiceS3 | `cropService*.cpp` | nothing between requests | look up or read, crop into a pool element (twice if it is too small), reply, save or free | as above |
| MontageService, RainbowService | same | nothing between requests | read several images, combine | as above |
| StatusService, StopWatch | same | counters of time and calls | report | (formatting) |
| Thumbnailer, Montage, Rainbow, FaceDetector | `thumbnail/`, `montage/`, `rainbow/`, `facedetect/` | none | geometry, rows and offsets around ImageMagick and OpenCV | results stay inside the image and the buffer |
| start-up | `main.cpp`, `config.*` | the objects above | reads properties, wires, serves, shuts down | order of construction and destruction |

How they interact. pion runs the services on several threads, all sharing one
MemoryPool and one StoragePool. A handler takes an element from the MemoryPool,
writes the image into its raw address and passes both to
`StoragePool::saveImage`, which only queues them: the element now belongs to
the queue, and the memory pool does not know. A writer thread pops an item,
saves the bytes through its storage, and calls `MemoryPool::freeNode`. If the
queue is full the handler keeps the element and has to free it. Reads bypass
the queue.

What is hard about it: elements live in memory that the free queue also uses
for its links; four mutexes (bank, store, task queue, thread) with steps
between them; the collector that undoes chunks beside running allocations;
ownership handed over by convention; writers that share files; stopping
threads. PROJECT.json lists these hazards line by line.

## 2. The modules

| module | models | built on |
|---|---|---|
| `ElementPool` | abstract: memory changes hands one owner at a time | |
| `MemoryPool` | ChunkBank, BlockStore, MemoryPool and their callers, without collector | INSTANCEs `ElementPool` for its refinement |
| `MemoryPoolGC` | the collector | extends `MemoryPool` |
| `Induction` | lemmas: induction over natural numbers, stated about sets | extends `FiniteSetTheorems`, `TLAPS` |
| `MemoryPool_proofs` | theorems about `MemoryPool`: owners, links, the refinement of `ElementPool`, counters, the whole queue | extends `MemoryPool`, `Induction` |
| `MemoryPoolGC_proofs` | theorems about the collector | extends `MemoryPoolGC`, `MemoryPool_proofs` |
| `SaveLedger` | abstract: an accepted upload is opened once, settled once, dropped only at the end | |
| `LocalStorage` | files that clones share: saving as truncate, then write; removing | |
| `StoragePool` | handlers handing over elements, the task queue, writers, `destroy` | extends `LocalStorage`, INSTANCEs `SaveLedger` |
| `StoragePool_proofs` | theorems about the elements on their way through `StoragePool`, its counters, and the refinement of `SaveLedger` | extends `StoragePool`, `TLAPS` |
| `Thread` | one Thread object, its owner and its launcher | |
| `Thread_proofs` | theorems about `Thread` | extends `Thread`, `TLAPS` |
| `FileService` | requests for whole files, and FileSender | extends `StoragePool` |
| `FileService_proofs` | theorems about files, what is served, and senders | extends `FileService`, `StoragePool_proofs`, `Induction` |
| `ImageServices` | CropService, CropServiceV2, MontageService, RainbowService: what they allocate, delete and answer | extends `StoragePool` |
| `ImageServices_proofs` | theorems about the handlers on top of the pool | extends `ImageServices`, `StoragePool_proofs` |
| `RemoteFiles` | the files of MongoDB or S3, complete or cut short | |
| `GridFSStorage` | getImage, freeImage, saveImage with the buffer that the images of a thread share | extends `RemoteFiles` |
| `S3Storage` | the same operations as callbacks of libs3, with a buffer per image | extends `RemoteFiles` |
| `Thumbnailer` | orientation, target size, crop rectangle, best face: operators | |
| `CropQuery` | parseResource and the loop of parseQueryString | |
| `CropRequest` | a thread with its clone of a remote storage: requests of CropServiceS3 and MontageService, and saves | extends the four above |
| `CropRequest_proofs` | theorems about query, orientation, crop rectangle, and images and saves of the remote storages | extends `CropRequest`, `TLAPS` |
| `MCMemoryPool`, `MCMemoryPoolGC`, `MCStoragePool`, `MCFileService`, `MCImageServices`, `MCCropRequest` | instances for TLC | |

### MemoryPool

A chunk index is in `live` when its `_memoryAddress` is not NULL. `head`,
`tail`, `elements`, `usage` and `recent` are `_free`, `_currentElementCounter`
and the two halves of `_usageStatistic` (the timestamp is reduced to what
`idleForLongtime` asks of it). An MP_ID is a record of level (block code),
chunk index and slot (offset counted in nodes). `mem` is the memory itself, one value
per cell of the size of the smallest element, so a node of a larger level
covers several cells and elements of different stores can collide, as they can
in the program: `_next` is the first cell of a node, and the same cell is
where the client's data starts. `free` and `held` are who owns what: `held[t]`
are the ids thread t got from `alloc` and has not freed, `free` is history.

Steps are critical sections. `AllocFirst`, `CreateChunk` or
`CreateChunkRefused`, `AddNewChunkLock`, `AddNewChunkStep` and `AllocRetry` are
one call of `alloc`, and other threads run between any two of them. The loop of
`addNewChunk` is one step per node, because the bank and the other stores are
not locked while it runs. `FreeNode` and `WriteElement` (`getElementAddress`
and the caller's write) are the other operations. A NULL node takes the error
paths of `addElement` and `allocFromFreeQueue`. The collector's steps
(`PickChunk` ... `DestroyChunk`) keep the store's mutex from the statistic to
the last link, and not across `destroyChunk`.

### StoragePool

A caller `Alloc`s an element, `Fill`s it and offers the item: `Accept`, or
`Refuse` and `Discard`. Callers in `Freeing` free the element of a refused item
as CropService does, the others leave it as FileService does. A writer's loop
is `CheckRunning`, `PopTask` or `PopNothing`, `SaveOpen`, `SaveWrite`,
`FreeTask`. The owner's `Destroy` stops and joins the writers in order and
`ClearTasks` frees what is left. `Results` are the pairs <<was the upload
written, what saveImage returned>> that the storage behind the pool can give.
LocalStorage always returns 0, so <<FALSE, 0>> is one of its pairs; GridFS can
also return an error. An upload may be empty. `PoolInit` allows any set of writers not to have started,
because `initStorageObject` ignores what `start` returned.

A StoreItem copies the name of its file but points to the name of its bucket.
`BucketKept` says that this string outlives the request, as CropService's
literal `""` does; then a writer saves to the file it was given. Otherwise, as
with FileService's local string, what the pointer leads to when the writer gets
there (`Paths`) may name any file.

The callers stop before `destroy`: `main` joins the HTTP server before the
pool goes out of scope.

### FileService

A caller of the storage pool is a connection with one request at a time. PUT
and POST go `CheckExists`, `AllocBody` or `AllocFails`, and then through the
caller's actions of `StoragePool`; `Delete` removes the file at once, past the
queue. GET and HEAD are `Stat` (a DiskFile is made and its `update` asks for
the size), `Read` (its `read` gets that many bytes) and either `HeadersOnly` or
a FileSender. Between any two of these steps writers open, write and other
requests remove the file; the exceptions that `update` and `read` then throw
end in the server, which answers with status 500. A sender's parts go out one
by one from the callback of the write before (`SendPart`, `HandleWrite`,
`WriteFailed`), and `wire` keeps what was sent. `Replied` is the callback of
any other response. Once the server has ended, callbacks do not come any more.

The steps of the writers are those of the pool (`FileWriterStep`), with what
they do to the histories that the properties speak of. `accepted` are the
uploads accepted for each file, `blank` the files for which one was empty.
`WriterOpens` enters an upload in `strayed` when the name of its bucket was
gone and another file was opened for it. Such an open, an open or a write that
fails, and a DELETE remove the files concerned from `expected`. The program
does not look at any of these histories.

`images` counts the DiskFile objects; nothing in the service ever lowers it,
and `MaxImages` bounds how many requests can make one.

### ImageServices

A caller is a thread of the server, which runs one request to its end.

| actions | code |
|---|---|
| `Request`, `Reject`, `Admit` | parsing, bad requests, v2's redirection to an original; v2's operators are created before and deleted on each early return |
| `Look` | crop's search for a favicon or a result that exists |
| `Read`, `ReadThrows`, `NotFound`, `Found` | `getImage`: up to four times (crop), once (v2), once per key (montage); an image, NULL or an exception |
| `AllocElement`, `AllocFails` | the element for the result; rainbow starts here |
| `Render`, `RenderFails` | the image library fills the buffer, fails, or needs a larger one |
| `FreeSmall`, `AllocBigger`, `AllocBiggerFails` | the second attempt of crop and v2: free, then alloc, two critical sections |
| `SendImage`, `SaveThumbnail` or `FreeThumbnail` | the answer; then crop hands the element to the queue, the others free it |
| `SendFailure` | crop and v2 send the original, montage and rainbow status 500 |
| `Cleanup`, `Finish` | images, operators and extra information are deleted; the handler returns |

`live` are the objects the request has allocated and not deleted: the images
it read, the result, extra information, the operators of v2, and the strings
that parseResource and parseQueryString copy (`Strings`), which no step
deletes. `buffer` is
the local variable newBuffer: id and address of an element are two variables
in the code, and they have to agree. Here CropServiceS3 does what CropServiceV2
does. Whether a result exists, whether an original can be read and whether
rendering succeeds are free choices at every point, so the module does not
depend on which storage or image library is behind the interface.

### CropRequest

`ImageServices` leaves open what the storage answers and what the image library
does; this module looks inside, for one thread. Threads do not share anything
here but the remote files: each has its clone of the storage, the buffer of
GridFS is thread-local, and what others save is a step of the same thread. So
one thread stands for all of them, and a `Save` is a writer's.

| actions | code |
|---|---|
| `RequestCrop`, `Parse`, `Decide` | parseResource; one step per round of the loop of parseQueryString; bad request, redirection or go on |
| `RequestMontage` | a montage of the given keys |
| `ReadNothing`, `ReadGridFS` | getImage of GridFS: no file; a file whose stream may end early; no memory |
| `ReadS3`, `S3Callback` | S3_get_object; then libs3 calls back with the length, with the file in pieces, and at the end with success or an error at any point |
| `ReadAll`, `AllocElement` | nothing was read; an element of the pool for the result, once or twice |
| `Decode`, `DecodeFails`, `Crop`, `Write` | create of the thumbnailer: a picture of any size and tag is turned upright, faces are looked for, the crop rectangle is made and moved, the result may be too large for the element |
| `SendOriginal`, `Finish` | the answer, freeImage of everything that was read |
| `Save`, `SendBody`, `BodySent`, `SaveReturns` | saveImage of GridFS in one step, whose write may be short and whose last save may fail unnoticed; of S3 with its callbacks, which may keep a part of the upload, or nothing, and always return 0 |

A file is a sequence of blocks <<upload, number>>, so it can be told whose
bytes an image leads to: `Bytes` is what a client of `data()` sees and
`Content` what the file has. `images` remembers which version of a file each image was read
from, which the properties compare with the bytes; nothing in the code depends
on it. A query is a sequence of parts, each a pair or one of the three
malformed kinds that the code tells apart; a pair sets one parameter, and
`again` is what the code has left in `buf`, from which strtok_r starts again.
The parameters that the operators use are reset once the query was judged
(`ForgetQuery`), because nothing in this module reads them later.

The thumbnailer computes in double and truncates. `Truncated(n, d)` is the set
of integers that this can give: the quotient, or one less if it is exact.
`View` is how a picture is shown: which of its axes are exchanged and mirrored.

### Thread

One object, the owner that calls `start` and `join`, and the thread that
`start` creates. `start` is one step, because `pthread_create` and
`pthread_detach` are its only effects another thread can see and both stand
under the mutex; both may fail. `join` reads `_status` and sets `_isRunning`
without the mutex and takes it only around its wait, so its steps are single
and the launcher runs between any two of them. `_main` may return by itself or
because `isRunning()` became false. A spurious wakeup of the condition is a
step, and nothing relies on one.

## 3. The runs

| run | checks | outcome and what it shows |
|---|---|---|
| `MemoryPool` | `TypeOK`, `ExclusiveOwnership`, `FreeQueueComplete`, `NoElementLeaks`, `CountersExact`, `HeldMemoryStable`, `ImplementsElementPool`, `AllocReturns` | passes: two threads, two element sizes, three indices, a limit of two chunks, every interleaving of alloc, write and free |
| `MemoryPoolMallocRace` | `ExclusiveOwnership` | violated: with two threads an index whose malloc failed is handed out a second time and its chunk is cut up twice |
| `MemoryPoolGC` | `GCTypeOK`, `CollectsUnusedOnly`, `QueueLeadsToFree`, `ElementsAreNew` | passes: two threads and a collector on a single element size; what is destroyed is unused and the queue keeps no link to it |
| `MemoryPoolGCReuse` | `ElementsAreNew` | violated: with two element sizes the tail that the collector left behind makes `addElement` write into another store's chunk |
| `StoragePool` | `PoolTypeOK`, `ElementHasOneUser`, `QueuedDataIntact`, `NoElementLost`, `DestroyCleansUp`, `ImplementsSaveLedger` | passes: two callers that free refused elements, two writers (that may not have started), saves that fail, reported or not, `destroy` |
| `StoragePoolMix` | `FileIsOneUpload` | violated: two writers on one file interleave truncate and write |
| `Thread` | `ReadyIsQuiet`, `OneThreadAlive`, `JoinReturns` | passes: one object started and joined again and again, attached and detached; `join` returns, and then nobody uses the object |
| `FileService` | `FileTypeOK`, `ServedWasAccepted`, `AcceptedStays` | passes: two connections, any sequence of requests on two files, a writer, over LocalStorage as it is: opens and writes fail unseen and bucket names are gone; what is served was accepted for that file or was taken there under a name that was gone, and an accepted upload is not forgotten but for a DELETE and these failures |
| `FileServiceLive` | `EveryRequestEnds`, `DestroyReturns`, `QuietPoolDrains`, `DeliveredWhole` | passes under fairness, with one connection and two writers: every request ends, `destroy` returns, and the queue drains once requests stop; a sender delivers its image whole and in order |
| `FileServiceBucket` | `ServedUnderItsName` | violated: the bucket's name is gone when the writer reads it, and a client that reads one file gets the upload of another |
| `ImageServices` | `ImageTypeOK`, `NoElementLost`, `SendsOwnImage`, `HandlerSettles` | passes: two threads, any sequence of the four services, failures at every point, a writer that saves what crop queued |
| `CropRequest` | `CropTypeOK`, `UsesOwnImage`, `SilentPutIsStored`, `ParsedAsMeant`, `ShownUpright`, `CropInside`, `KeepsFace` | passes: a thread with GridFS or S3, any query of three parts, any reads and saves, pictures of each tag and of nine sizes with faces anywhere |

Every property of a passing run has a mutant in PROJECT.json, a plausible
mistake in the code under which TLC finds it violated; the mutated forms stand
before the definitions they replace, marked "(mistake)".

### Bounds

* Memory pool: chunks of two cells and element sizes 1 and 2 give the two
  kinds of level the real table has, several elements per chunk and exactly
  one (16 MB), and elements of different stores that overlap. A limit of two
  chunks and three indices let both stores have a chunk, compete for the last
  one, and be refused; a third index shows that the limit and not the table
  refuses. Two threads are enough for every race between two steps; the proofs
  do not depend on it.
* `CounterRange` (8, in the code 2^32) only has to exceed the elements of a
  chunk, and a decrement of zero wraps, as in the code.
* The collector runs twice (`MaxRounds`), so that a chunk is collected, created
  again and collected again.
* Storage pool: two tasks queued, two in the hands of writers and callers with
  three elements make the queue full, empty and starved of elements. The
  contents of an upload are one block or none, and two blocks where the mixing of
  uploads is asked for. Counters count modulo 2, or not at all where no property is about them, instead of modulo 2^64; the properties
  compare them modulo the same number. An upload value can be used again once
  nothing mentions it.
* File service: `FileService` has two connections and images of one block or
  none, the least with which a file that was truncated and one that was stored
  empty differ from a full one; two files and two uploads show that bodies do
  not get mixed up. `FileServiceLive` has one connection and images of up to two
  blocks in parts of `ChunkLimit` = 1: an empty answer, a whole one, and a chunk
  with the final one; any number of chunks is the theorem's (`DeliversWhole`).
  It takes a disk that does not fail and a bucket name that stays: its liveness
  properties are about threads that wait, and nothing waits for a disk's answer.
  `MaxImages` = 1 lets one GET or HEAD come in a behaviour, because nothing frees
  its image: one reader can meet any sequence of PUT, POST and DELETE of the other
  connection and the writer before, between and after its steps.
* Image services: two keys for a montage make a first image that has to be
  freed when the second is missing. Two elements for two threads, the queue and
  the writer leave allocations that succeed and that fail. The files behind the
  queue are one, of one block: the handlers of this module do not read what
  the writer saves.
* Crop requests: a buffer of one block and uploads of one and two make it fit,
  grow, and grow from nothing after the first image was freed; two keys let a
  second image overwrite the first. One key, because files do not influence each other.
  Queries of up to three parts put a malformed part before, between and after pairs,
  with a limit of four parts (ten in the code) that the restarting loop reaches.
  Pictures of width and height 1, 3 and 4 are wide, tall and square, even and
  odd, and less than one block of the target; a face is any rectangle of the
  picture. One save is enough beside any number of reads.
* Thread: `MaxStarts` is 4, so an object that was joined is started again in
  each kind.

### Fairness

`FairSpec` asks that a thread inside `alloc` goes on when it can: weak fairness
of its steps, which is what the scheduler gives a thread that waits for
nothing. No thread has to call anything. `FileFairSpec` asks the same of
writers, of handlers inside a request, and of `destroy` once it was called, and
that a write on a connection ends one way or the other (asio calls its handler
with an error when the peer is gone); no request has to come. The mutexes
involved are held for bounded sections, and no property needs them to be fair
queues. `ThreadFairSpec` asks that created
threads are scheduled and that a `_main` that polls `isRunning` sees it become
false; nobody has to call `start` or `join`, and pthread functions need not
fail. `CropSpec` states no fairness, because its properties are all safety.

## 4. The proofs

Every invariant and action property that a passing run checks is also a theorem,
for every value of the constants; where a theorem needs a hypothesis that the
run's constants meet, the hypothesis is given below. PROJECT.json lists the
theorems with the properties they state. The assumptions on constants are those
of the modules, which TLC evaluates on the runs.

### Memory pool

`MemoryPool_proofs` proves, for any finite or infinite set of threads and levels, any sizes that
fit a chunk, any number of chunks and any limit:

* `PoolInvariant`: `Spec => []IInv`;
* `PoolTypeCorrect`: `Spec => []TypeOK`;
* `PoolExclusive`: `Spec => []ExclusiveOwnership`.

All three, and what follows from them, assume that malloc does not fail (`~ MallocMayFail`): the run
`MemoryPoolMallocRace` shows that without it exclusive ownership is false.

Neither property is inductive. That `head` is an element or MP_NULL depends on
`_next` being a link when it is read, though clients overwrite the cell; that
needs to know that the queued elements are nobody else's memory. So
`IInv` conjoins

* `TypeOK`;
* `LinksInv`: the links of the elements of a queue stay inside it, no two
  elements have the same successor, the head has no predecessor and the tail no
  successor (so taking the head cannot strand or duplicate an element);
* `OwnersInv`: elements have one owner, a live chunk, and the same level as
  every other element of their chunk (so that two elements overlap only if
  they are the same);
* `ThreadInv`: a thread between `createChunk` and the end of `addNewChunk` is
  alone in its chunk, and only the nodes below its loop variable are in use.

The arithmetic is in a few lemmas (`ElementInChunk`, `ElementsDisjoint`: the
nodes of a level lie inside a chunk and apart). Each action has its lemma,
`AddElementLinks` and `TakeHeadInv` carry what the two queue operations do,
and `NextInv` puts the actions together.

`HeldStable` (no step of anybody else changes the data of an element a thread
holds) and `PoolImplements` (every step of the pool is a step of `ElementPool` or
a stutter: the elements are the abstract memory, and the links that `freeNode`
and `alloc` write lie only in elements nobody holds) are step properties that
follow from `IInv`.

`NothingLeaks` shows that an element that is known (held, queued, or still to be
added by the thread in `addNewChunk`) stays known in every step, and that
`createChunk` makes all nodes of its chunk known at once. `CountersAreExact` adds
the counters to the invariant (`CountInv`); the point where 32 bits could overflow is
settled by `ChunkFits`: the queued elements of a chunk lie apart in it, so they
are at most `ChunkSize`, which `CounterAssumption` keeps below the counter's
range.

`QueueIsComplete` says that the links from the head reach every queued element,
the tail last. The links alone do not forbid a queue beside a ring nobody gets
into, so `OrderInv` adds that the elements of a queue can be ranked (`Ranks`): the
head has rank 0, every other element is the link of one of the rank before, and the
tail has the last rank, one less than the counter. `addElement` gives the new
element the rank after the tail's, and taking the head lowers all ranks by one. That
n links reach every element whose rank is small enough is then an induction over n.

### Collector

`MemoryPoolGC_proofs` is about `SpecGC` with any number of threads, chunks,
elements and rounds, but one store: with two the collector breaks
`ElementsAreNew`, as the run `MemoryPoolGCReuse` shows. `CollectorInvariant`
proves `GCInv`:

* types and owners of the pool without collector (`TypeOK`, `OwnersInv`, `ThreadInv`);
* `UsageInv`: the counters that `calcRecyclableChunk` reads are exact, so a chunk
  whose elements are all counted has none in use;
* `MutexInv`: the collector has the store's mutex while it follows the links;
* `TargetInv`: from the choice of the chunk to `destroyChunk` nobody has an
  element of it or is about to add one. The mutex is given back before
  `destroyChunk`; what protects the chunk then is that no link leads to it any
  more;
* `ChainInv`: the links from the head lead only through free elements.

`LinksInv` and `OrderInv` do not hold with the collector, and `ChainInv` must not say
more than it does: unlinking the last node leaves `_tail` at a node that was
unlinked, and a later `freeNode` then writes its link behind the queue, or
drops an element. So there is some set of free nodes that the chain runs
through, but not all of them are in it. While the collector follows the links
the chain has two parts, `Scanned`: those it has passed, which are
kept or unlinked, and the rest, with the link at `prevID` not yet written.
`CollectorSparesUsed`, `CollectorKeepsElementsApart`, `CollectorKeepsQueue` and
`CollectorTypes` follow.

### Thread

`Thread_proofs` proves `ReadyQuiet` and `OneAlive` by an invariant of five
parts: which statuses allow a living thread (`AliveInv`), what `_status` says
at each point of the launcher (`StatusInv`), who holds the mutex (`MutexInv`),
what the owner may assume at each point of `join` (`OwnerInv`), and that the
attached or detached kind does not change under a living thread (`KindInv`).

### Storage pool

`StoragePool_proofs` is about `PoolSpec`, for any sets of callers, elements,
uploads and paths, any number of writers and any limit of the queue. It uses
`PoolAssumption` and `NoItemAssumption` (the mark for "no item" is no item).
`OwnInv` has five parts: the kinds of the variables it speaks of (`ItemsInv`),
who has an item at which point of its code (`PlacesInv`), that no two items in
the queue, with callers or with writers share an element (`ApartInv`), that
none of their elements is free (`TakenInv`), and that a filled element holds
its upload (`DataInv`). `ApartInv` compares places in the queue, not items,
because an item could be queued twice and a set would not tell; the queue gives
from its back, so the other places keep their index. `ElementHasOneUser` and
`QueuedDataIntact` follow.

`NoElementLost` and `DestroyCleansUp` need two more invariants: `Accounted`
(every element is free or at one of those places) and `StopInv` (what `destroy`
has joined so far, and that callers rest from then on). Both theorems assume
`Freeing = Caller`, as in the runs: FileService does lose the element of a
refused upload.

`PoolSettlesUploads` builds on this. That every accepted upload is a ticket of
its own needs `UploadsApart`, which is `ApartInv` for uploads: `Alloc` starts
only uploads that nothing mentions any more. Each of `Accept`, `SaveWrite` and
`ClearTasks` is a step of the ledger, the others leave `OpenUploads` and
`Settled` as they are; `SettledOneMore` is the arithmetic of two counters that
wrap apart from their sum. `PoolTypes` needs `FilesInv`, that an open stream leads
to a file that exists, which rests on `FileAssumption` (the marks for "no file"
and for "no content" are neither files nor contents).

### File service

`FileService_proofs` is about `FileSpec`, for any connections, files, uploads,
lengths and chunk limits. `FilesKeepElements` and `FilesSettleUploads` carry the
promises of the pool over: handlers change the pool only by its own actions,
and DELETE only the disk and streams.

* `ServesAccepted` holds for any names of buckets and any failures. What a
  handler has read is accepted for its file, or strayed there, because what is
  on the disk, on its way in a stream, in the queue or with a writer is
  (`AcceptedInv`).
* `KeepsAccepted` also has no hypothesis: `KeptInv` says of each expected file that
  it is on the disk or under way, and the writer's step that fails or opens
  another file takes both files out of `expected`, because it truncates the
  one and never reaches the other.
* `DeliversWhole`: for every sender what is on the wire is the part of the
  image before its position, in whole chunks (`SenderInv`). `Body` joins the
  chunks by a recursive function; its value is shown to be the concatenation by
  giving an explicit solution of its equation and an induction over the chunks.
* `FileTypes` counts the DiskFile objects, and so assumes that the
  connections are finitely many.

### Image services

`ImageServices_proofs` is about `ImageSpec`. The invariant `ImageInv` is that of
the pool (`PoolInv`), the types of the handlers' tables (`TablesInv`) and, for each
thread, `RequestInv`: at each point of a handler where its element is and which
upload it has, what of its objects is alive, and whether it has answered. Each action has a lemma,
in which other threads' requests do not change because an
element has one user. `HandlersSettle` says that of what a handler has
allocated only the parsers' strings are left when it returns. It, `SendsItsOwn`, `ImageTypes`,
`ImagesKeepElements` and `ImagesSettleUploads` need no hypothesis;
`ImagesLoseNothing` assumes `Freeing = Caller`, as for the pool.

### Crop requests

`CropRequest_proofs` is about `CropSpec`, for any
paths, queries, limits, picture sizes, lists of faces, uploads and lengths. They use
the module's assumptions (`FilesAssumption`, `QueryAssumption`,
`RequestAssumption`) and no other.

* `QueryIsUnderstood`: `ParseInv` says at each round of the loop how much of
  the query was looked at and that the parameters are what those parts mean; a
  malformed part ends this, whatever the loop does until its limit.
* `PictureIsUpright`: by the eight tags.
* `CropIsInside` and `FaceIsKept`: lemmas about the two cases of the crop
  rectangle, nonlinear arithmetic in `Truncated` and linear arithmetic in
  `Slide`; `CropInv` keeps the face inside the picture as it is stored, which
  is the picture itself exactly when faces are looked for.
* `ImagesAreOwn`: on S3 `Filled` says that the image libs3 works on has, up to
  its offset, the blocks of its file, so when offset and length agree the whole
  file is there (`BytesAreContent`). On GridFS the buffer is as long as
  `_BUFFER_LEN` says, and no image is longer (`GridInv`); that has to hold through
  growing, a malloc that fails, and the first freeImage, which gives up the buffer.
* `SilentPutsAreStored`: the offset of a PUT never passes the length of the upload
  (`PutInv`), so a PUT of which nothing was logged was sent whole, and S3 keeps it.
* `CropTypes`: keys and images count together (`CountInv`), so no request reads
  more than it has keys, and `StageInv` says at which points an element may be
  asked for.

### How, and what is left to TLC

The provers cannot instantiate the library's induction theorems, whose
parameters are operators. `Induction` states induction about sets instead: a
non-empty set of natural numbers has a least element (because inclusion of
finite intervals is well-founded), so a set with 0 that goes on from n to n + 1
has every number. A recursive function is shown to have the value wanted by giving
a function that solves its equation.

Only model-checked are the liveness properties (`AllocReturns`, `JoinReturns`,
`EveryRequestEnds`, `DestroyReturns`, `QuietPoolDrains`), because `ENABLED` and
fairness are outside what the prover covers.

## 5. What disagrees with the code's own words

PROJECT.json quotes the line for each of these, and a run shows it:

* a malloc that fails in `createChunk` hands out an index without memory, and a
  second thread gets the same index (`MemoryPoolMallocRace`);
* the tail that the collector leaves behind (`MemoryPoolGCReuse`); `main.cpp`
  builds its pool without the collector, so this does not happen in the service
  as it is shipped;
* writers with a storage of their own still share files (`StoragePoolMix`);
* the name of the bucket behind a queued item (`FileServiceBucket`).

Seen in the code and listed as hazards without a run: FileService keeps the
element of an upload that the queue refuses, which is why `NoElementLost` is
checked with callers that free it as CropService does; saveImage should return 0
for success (`webservice/include/storage.h:86-87`), but LocalStorage and S3Storage return 0 in any case,
and GridFSStorage also when `mongoc_gridfs_file_save`, whose result it drops, has
failed: the writers count such uploads as saved, and no property here says that an upload
that was counted is stored; the queue is last-in first-out, so the older of two uploads
of a file may be written last; a DELETE does not reach the uploads that are
queued, so the file may come back; an exception of LocalStorage's `getImage`
leaves v2's operators and the earlier images of a montage behind, so
`HandlerSettles` speaks of handlers that return. FileService frees none of the
images it reads (`FileSender`'s destructor is empty), although
`webservice/include/storage.h:94` asks for it. The strings that parseResource and the
query parsers of V2 and S3 copy with strdup are never freed (`HandlerSettles`
excepts them); CropService (V1) frees its own.

Of the remote storages and the thumbnailer:

* the images of a montage over GridFS all lead to the bytes of the last one,
  because the buffer is static and thread-local (the same buffer is commented
  out in `s3Storage.cpp:12`); `UsesOwnImage` claims only the last;
* a GridFS stream that ends early leaves the image with its full length;
* what S3Storage's saveImage did only its log tells, so `SilentPutIsStored` is
  about that; getImage drops its half-filled image on an error;
* after a malformed part of a query the rest of it is ignored, because strtok_r
  is called with the part again; `ParsedAsMeant` says so;
* the orientations LeftTop and RightBottom are flipped where they would have to
  be flopped, so that such pictures are shown upside down; `ShownUpright` excludes them;
* shouldOriginalImage compares the exposure with -1, its default is -101
  (`imageOperator.h:14`), so only a query with `exp=-1` leads to the redirection;
  it does not ask for `clips` at all;
* CropService (the first version) passes no operators to the thumbnailer, which
  dereferences them (`imagickThumbnailer.cpp:186`).

## 6. The plan

1. (done) memory pool, collector, storage pool, first proofs.
2. (done) Thread: start, launcher and join for attached and detached
   threads, an owner that starts, stops and starts again, with its proofs.
3. (done) FileService and FileSender on the storage pool.
4. (done) Crop, montage and rainbow handlers as one resource protocol: image,
   element, operator objects and reply on every path.
5. (done) GridFS and S3 as remote storages, `parseResource` and query parsing,
   thumbnail geometry, composed into a request; its proofs.
6. Proofs: (done) every invariant and action property of the passing runs. Open
   is what the collector still guarantees with several stores, where
   `ElementsAreNew` is false.

### Not modelled

* the connection of GridFS, the initialisation of libs3 and the life cycle of
  clones: their effect is in the client libraries' global state. headImage of
  both is the service's answer. Building URLs and names is formatting.
* CropService's (V1) names of results and its rectangle of interest, which
  cannot be reached without the operators it does not pass.
* LocalStorage's directory options, scanning and cache: set-up code, and a cache
  that getImage does not look into.
* the operators (colours, blur, drawing), extra information, rows of a montage
  and offsets of a rainbow: calls of ImageMagick one after the other, without
  control of their own. OpenCV's detector is any list of faces.
* configuration, status formatting and stop watches, HTTP parsing (pion).
