-------------------------- MODULE FileService_proofs -------------------------
(***************************************************************************)
(* Proofs about FileService: what the storage pool promises survives that  *)
(* requests delete files past its queue; what a client reads was accepted, *)
(* what was accepted stays; and a sender that ends has sent its image.     *)
(***************************************************************************)
EXTENDS FileService, StoragePool_proofs, Induction

-----------------------------------------------------------------------------
(* The storage pool under the service.                                     *)

\* A writer's step concerns no connection.
LEMMA WriterIsPools ==
  ASSUME NEW w \in Writer, FileWriterStep(w)
  PROVE  WriterStep(w) /\ UNCHANGED <<connectionVars, accepted, blank>>
BY DEF FileWriterStep, WriterOpens, WriterWrites, WriterStep, SaveWrite

\* Every step of the service is a step of the pool, or of none of its
\* variables, or removes a file.
LEMMA ServiceUsesPool ==
  ASSUME [FileNext]_fileVars
  PROVE  [PoolNext]_poolVars \/ \E c \in Caller : Delete(c)
<1>1. ASSUME NEW c \in Caller, RequestStep(c) PROVE [PoolNext]_poolVars \/ Delete(c)
  <2>1. CASE \/ Replied(c) \/ CheckExists(c) \/ AllocFails(c) \/ Stat(c) \/ Read(c)
             \/ HeadersOnly(c) \/ StartSender(c) \/ WriteFailed(c) \/ HandleWrite(c)
    BY <2>1 DEF Replied, CheckExists, AllocFails, Stat, Read, HeadersOnly, StartSender,
                WriteFailed, HandleWrite
  <2>2. CASE AllocBody(c) \/ FillOrRefuse(c) \/ SaveAccepted(c) \/ SaveRefused(c)
    <3>1. CallerStep(c)
      BY <2>2 DEF AllocBody, FillOrRefuse, SaveAccepted, SaveRefused, CallerStep
    <3> QED
      BY <3>1 DEF PoolNext
  <2> QED
    BY <1>1, <2>1, <2>2 DEF RequestStep
<1>2. ASSUME NEW c \in Caller, NEW m \in Method, NEW f \in File, Request(c, m, f)
      PROVE  UNCHANGED poolVars
  BY <1>2 DEF Request
<1>3. ASSUME NEW w \in Writer, FileWriterStep(w) PROVE PoolNext
  BY <1>3, WriterIsPools DEF PoolNext
<1>4. CASE Destroy \/ OwnerStep \/ Terminated
  BY <1>4 DEF PoolNext
<1>5. CASE UNCHANGED fileVars
  BY <1>5 DEF fileVars
<1> QED
  BY <1>1, <1>2, <1>3, <1>4, <1>5 DEF FileNext

\* Every open stream of a file that is removed goes on without a name.
LEMMA DeleteKeepsPool ==
  ASSUME PoolInv, NEW c \in Caller, Delete(c)
  PROVE  PoolInv'
<1>1. /\ RemoveFile(target[c])
      /\ UNCHANGED <<memoryVars, callerVars, tasks, writerVars, counters, ownerVars>>
  BY DEF Delete
<1>2. OwnInv' /\ StopInv' /\ UploadsApart' /\ CountersInv' /\ ControlInv'
  <2>1. UNCHANGED <<free, data, at, item, tasks, running, wpc, task, saved, saveFailed, discarded,
                    stage, joining>>
    BY <1>1 DEF memoryVars, callerVars, writerVars, counters, ownerVars
  <2>2. PlacesInv'
    BY <2>1 DEF PoolInv, OwnInv, PlacesInv
  <2>3. OwnInv'
    BY <2>1, <2>2, ItemsStay DEF PoolInv
  <2>4. StopInv' /\ CountersInv' /\ ControlInv'
    BY <2>1 DEF PoolInv, StopInv, CountersInv, ControlInv
  <2>5. UploadsApart'
    BY <2>1 DEF PoolInv, UploadsApart, Offering, Carrying
  <2> QED
    BY <2>3, <2>4, <2>5
<1>3. FilesInv'
  BY <1>1, FileAssumption DEF RemoveFile, PoolInv, FilesInv
<1> QED
  BY <1>2, <1>3 DEF PoolInv

LEMMA PoolInvNext == PoolInv /\ [FileNext]_fileVars => PoolInv'
BY PoolKeepsInv, ServiceUsesPool, DeleteKeepsPool

LEMMA PoolInvInit == FileInit => PoolInv
BY PoolStartsInv DEF FileInit

THEOREM PoolUnderFiles == FileSpec => []PoolInv
BY PoolInvInit, PoolInvNext, PTL DEF FileSpec

\* Also under requests that delete files while they are saved, an element has
\* one user, its data is there for the writer, and all variables of the pool
\* keep their types.
THEOREM FilesKeepElements == FileSpec => [](PoolTypeOK /\ ElementHasOneUser /\ QueuedDataIntact)
BY InvGivesPromises, PoolUnderFiles, PTL

\* Each upload that was answered with status 201 is settled once, whatever is
\* deleted in the meantime: the service implements SaveLedger.
THEOREM FilesSettleUploads == FileSpec => ImplementsSaveLedger
<1>1. FileInit => Ledger!LedgerInit
  BY LedgerStart DEF FileInit
<1>2. PoolInv /\ [FileNext]_fileVars => [Ledger!LedgerNext]_(Ledger!ledgerVars)
  <2> SUFFICES ASSUME PoolInv, [FileNext]_fileVars
               PROVE  [Ledger!LedgerNext]_(Ledger!ledgerVars)
    OBVIOUS
  <2>1. CASE [PoolNext]_poolVars
    BY <2>1, InvGivesLedger
  <2>2. ASSUME NEW c \in Caller, Delete(c) PROVE UNCHANGED Ledger!ledgerVars
    <3>1. UNCHANGED <<tasks, wpc, task, saved, saveFailed, stage>>
      BY <2>2 DEF Delete, writerVars, counters, ownerVars
    <3> QED
      BY <3>1 DEF Ledger!ledgerVars, OpenUploads, Saving, Settled
  <2> QED
    BY <2>1, <2>2, ServiceUsesPool
<1> QED
  BY <1>1, <1>2, PoolUnderFiles, PTL DEF FileSpec, ImplementsSaveLedger, Ledger!LedgerSpec

-----------------------------------------------------------------------------
(* Connections.                                                            *)

Phase == {"idle", "exists", "alloc", "save", "delete", "stat", "read", "decide", "sending",
          "replying"}

\* A request that is under way names a file, and an idle connection has no
\* image.
RequestInv ==
  /\ phase \in [Caller -> Phase]
  /\ target \in [Caller -> File \cup {NoFile}]
  /\ image \in [Caller -> Seq(Upload) \cup {NoImage}]
  /\ size \in [Caller -> Nat]
  /\ \A c \in Caller : phase[c] # "idle" => target[c] \in File
  /\ \A c \in Caller : phase[c] = "idle" => image[c] = NoImage

\* What the steps that read no file do to image and target.
LEMMA ImagesStay ==
  ASSUME RequestInv, [FileNext]_fileVars
  PROVE  \/ \E c \in Caller : Read(c)
         \/ \A c \in Caller : \/ image'[c] = image[c] /\ target'[c] = target[c]
                              \/ image'[c] = NoImage
<1>1. ASSUME NEW c \in Caller, RequestStep(c), ~ Read(c)
      PROVE  \A d \in Caller : \/ image'[d] = image[d] /\ target'[d] = target[d]
                               \/ image'[d] = NoImage
  <2>1. CASE \/ CheckExists(c) \/ AllocFails(c) \/ AllocBody(c) \/ FillOrRefuse(c)
             \/ SaveAccepted(c) \/ SaveRefused(c) \/ Delete(c) \/ Stat(c) \/ HeadersOnly(c)
             \/ StartSender(c)
    BY <2>1 DEF CheckExists, AllocFails, AllocBody, FillOrRefuse, SaveAccepted, SaveRefused,
                Delete, Stat, HeadersOnly, StartSender, requestVars, senderVars, serviceVars,
                connectionVars
  <2>2. CASE Replied(c) \/ WriteFailed(c) \/ HandleWrite(c)
    <3>1. \/ UNCHANGED <<image, target>>
          \/ image' = [image EXCEPT ![c] = NoImage] /\ target' = [target EXCEPT ![c] = NoFile]
      BY <2>2 DEF Replied, WriteFailed, HandleWrite, Finish, requestVars
    <3> QED
      BY <3>1 DEF RequestInv
  <2> QED
    BY <1>1, <2>1, <2>2 DEF RequestStep
<1>2. ASSUME NEW c \in Caller, NEW m \in Method, NEW f \in File, Request(c, m, f)
      PROVE  \A d \in Caller : \/ image'[d] = image[d] /\ target'[d] = target[d]
                               \/ image'[d] = NoImage
  <2>1. phase[c] = "idle" /\ image' = image /\ target' = [target EXCEPT ![c] = f]
    BY <1>2 DEF Request, Goto, senderVars
  <2> QED
    BY <2>1 DEF RequestInv
<1>3. ASSUME UNCHANGED connectionVars
      PROVE  UNCHANGED <<image, target>>
  BY <1>3 DEF connectionVars, senderVars, requestVars
<1> QED
  BY <1>1, <1>2, <1>3, WriterIsPools DEF FileNext, fileVars, serviceVars

\* What Read puts into image: the blocks that update has counted.
LEMMA ReadsBlocks ==
  ASSUME RequestInv, FilesInv, NEW c \in Caller, Read(c)
  PROVE  /\ target' = target
         /\ \/ UNCHANGED image /\ phase' = [phase EXCEPT ![c] = "replying"]
            \/ /\ phase' = [phase EXCEPT ![c] = "decide"]
               /\ \A d \in Caller : d # c => image'[d] = image[d]
               /\ image' \in [Caller -> Seq(Upload) \cup {NoImage}]
               /\ image'[c] \in Seq(Upload) /\ Len(image'[c]) = size[c]
               /\ target[c] \in File /\ Exists(target[c])
               /\ DOMAIN image'[c] = 1 .. size[c]
               /\ \A i \in DOMAIN image'[c] :
                    i \in DOMAIN disk[target[c]] /\ image'[c][i] = disk[target[c]][i]
<1>1. target' = target /\ phase[c] = "read"
  BY DEF Read, BlocksRead, Goto, Reply, requestVars
<1>2. ASSUME Readable(target[c], size[c]),
             image' = [image EXCEPT ![c] = SubSeq(disk[target[c]], 1, size[c])]
      PROVE  /\ \A d \in Caller : d # c => image'[d] = image[d]
             /\ image' \in [Caller -> Seq(Upload) \cup {NoImage}]
             /\ image'[c] \in Seq(Upload) /\ Len(image'[c]) = size[c]
             /\ target[c] \in File /\ Exists(target[c])
             /\ DOMAIN image'[c] = 1 .. size[c]
             /\ \A i \in DOMAIN image'[c] :
                  i \in DOMAIN disk[target[c]] /\ image'[c][i] = disk[target[c]][i]
  <2> DEFINE s == disk[target[c]]
             n == size[c]
             t == SubSeq(s, 1, n)
  <2>1. target[c] \in File /\ Exists(target[c]) /\ n \in Nat
    BY <1>1, <1>2 DEF RequestInv, Readable
  <2>2. s \in Seq(Upload) /\ Len(s) >= n
    BY <1>2, <2>1 DEF FilesInv, Exists, Readable
  <2> HIDE DEF s, n
  <2>3. Len(s) \in Nat /\ DOMAIN s = 1 .. Len(s)
    BY <2>2, LenProperties
  <2>4. \A i \in 1 .. n : i \in DOMAIN s /\ s[i] \in Upload
    BY <2>1, <2>2, <2>3, ElementOfSeq
  <2>5. t \in Seq(Upload) /\ Len(t) = n /\ \A i \in 1 .. n : t[i] = s[i]
    BY <2>1, <2>4, SubSeqProperties
  <2> HIDE DEF t
  <2>6. DOMAIN t = 1 .. n
    BY <2>5, LenProperties
  <2>7. image' = [image EXCEPT ![c] = t]
    BY <1>2 DEF t, s, n
  <2>8. image'[c] = t /\ \A d \in Caller : d # c => image'[d] = image[d]
    BY <2>7 DEF RequestInv
  <2>9. image' \in [Caller -> Seq(Upload) \cup {NoImage}]
    BY <2>5, <2>7 DEF RequestInv
  <2> QED
    BY <2>1, <2>4, <2>5, <2>6, <2>8, <2>9 DEF s, n
<1> QED
  BY <1>1, <1>2 DEF Read, BlocksRead, Goto, Reply

LEMMA FinishKeeps ==
  ASSUME RequestInv, NEW c \in Caller, Finish(c)
  PROVE  RequestInv'
BY DEF Finish, RequestInv, Phase

LEMMA RequestInvNext == RequestInv /\ FilesInv /\ [FileNext]_fileVars => RequestInv'
<1> SUFFICES ASSUME RequestInv, FilesInv, [FileNext]_fileVars PROVE RequestInv'
  OBVIOUS
<1>1. ASSUME NEW c \in Caller, RequestStep(c) PROVE RequestInv'
  <2>1. ASSUME UNCHANGED <<target, image, size>>, phase[c] # "idle",
               NEW p \in Phase \ {"idle"}, phase' = [phase EXCEPT ![c] = p] \/ phase' = phase
        PROVE  RequestInv'
    BY <2>1 DEF RequestInv
  <2>2. CASE CheckExists(c) \/ AllocFails(c) \/ AllocBody(c)
    <3>1. /\ UNCHANGED <<target, image, size>> /\ phase[c] # "idle"
          /\ \E p \in Phase \ {"idle"} : phase' = [phase EXCEPT ![c] = p]
      BY <2>2 DEF CheckExists, AllocFails, AllocBody, Goto, Reply, requestVars, senderVars, Phase
    <3> QED
      BY <2>1, <3>1
  <2>3. CASE SaveAccepted(c) \/ SaveRefused(c) \/ Delete(c) \/ HeadersOnly(c)
    <3>1. /\ UNCHANGED <<target, image, size>> /\ phase[c] # "idle"
          /\ \E p \in Phase \ {"idle"} : phase' = [phase EXCEPT ![c] = p]
      BY <2>3 DEF SaveAccepted, SaveRefused, Delete, HeadersOnly, Goto, Reply, requestVars,
                  senderVars, Phase
    <3> QED
      BY <2>1, <3>1
  <2>4. CASE StartSender(c)
    <3>1. /\ UNCHANGED <<target, image, size>> /\ phase[c] # "idle"
          /\ \E p \in Phase \ {"idle"} : phase' = [phase EXCEPT ![c] = p]
      BY <2>4 DEF StartSender, Goto, requestVars, Phase
    <3> QED
      BY <2>1, <3>1
  <2>5. CASE FillOrRefuse(c)
    BY <2>5 DEF FillOrRefuse, serviceVars, connectionVars, requestVars, senderVars, RequestInv
  <2>6. CASE Stat(c)
    <3>1. /\ UNCHANGED <<target, image>> /\ phase[c] = "stat"
          /\ \/ phase' = [phase EXCEPT ![c] = "read"]
             \/ phase' = [phase EXCEPT ![c] = "replying"]
          /\ \/ size' = size
             \/ /\ Exists(target[c])
                /\ size' = [size EXCEPT ![c] = Len(disk[target[c]])]
      BY <2>6 DEF Stat, Goto, Reply, requestVars
    <3>2. size' \in [Caller -> Nat]
      <4>1. ASSUME Exists(target[c]) PROVE Len(disk[target[c]]) \in Nat
        BY <3>1, <4>1, LenProperties DEF RequestInv, FilesInv, Exists
      <4> QED
        BY <3>1, <4>1 DEF RequestInv
    <3> QED
      BY <3>1, <3>2 DEF RequestInv, Phase
  <2>7. CASE Read(c)
    <3>1. /\ size' = size /\ target' = target /\ phase[c] = "read"
          /\ \/ phase' = [phase EXCEPT ![c] = "decide"]
             \/ phase' = [phase EXCEPT ![c] = "replying"]
      BY <2>7 DEF Read, Goto, Reply, requestVars
    <3>2. image' \in [Caller -> Seq(Upload) \cup {NoImage}]
      BY <2>7, ReadsBlocks DEF RequestInv
    <3>3. \A d \in Caller : d # c => image'[d] = image[d]
      BY <2>7, ReadsBlocks
    <3> QED
      BY <3>1, <3>2, <3>3 DEF RequestInv, Phase
  <2>8. CASE Replied(c) \/ WriteFailed(c)
    BY <2>8, FinishKeeps DEF Replied, WriteFailed
  <2>9. CASE HandleWrite(c)
    <3>1. Finish(c) \/ UNCHANGED <<phase, target, size, image>>
      BY <2>9 DEF HandleWrite, requestVars
    <3> QED
      BY <3>1, FinishKeeps DEF RequestInv
  <2> QED
    BY <1>1, <2>2, <2>3, <2>4, <2>5, <2>6, <2>7, <2>8, <2>9 DEF RequestStep
<1>2. ASSUME NEW c \in Caller, NEW m \in Method, NEW f \in File, Request(c, m, f)
      PROVE  RequestInv'
  <2>1. /\ phase[c] = "idle" /\ phase' = [phase EXCEPT ![c] = FirstStep(m)]
        /\ target' = [target EXCEPT ![c] = f] /\ UNCHANGED <<size, image>>
    BY <1>2 DEF Request, Goto, senderVars
  <2>2. FirstStep(m) \in {"stat", "exists", "delete"}
    BY DEF FirstStep, Method
  <2> QED
    BY <2>1, <2>2 DEF RequestInv, Phase
<1>3. CASE UNCHANGED connectionVars
  BY <1>3 DEF connectionVars, requestVars, senderVars, RequestInv
<1> QED
  BY <1>1, <1>2, <1>3, WriterIsPools DEF FileNext, fileVars, serviceVars

LEMMA RequestInvInit == FileInit => RequestInv
BY DEF FileInit, RequestInv, Phase

-----------------------------------------------------------------------------
(* What was accepted.                                                      *)

\* Items that are queued or being saved were accepted for their file, and a
\* file may hold its blocks, and what a writer is about to put into it.
FilesAccepted ==
  /\ accepted \in [File -> SUBSET Upload] /\ strayed \in [File -> SUBSET Upload]
  /\ \A i \in DOMAIN tasks : tasks[i].upload \in accepted[tasks[i].file]
  /\ \A w \in Carrying : task[w].upload \in accepted[task[w].file]
  /\ \A w \in Writer :
       stream[w] \in File => wpc[w] = "write" /\ task[w].upload \in MayHold(stream[w])
  /\ \A f \in File : Exists(f) => \A k \in DOMAIN disk[f] : disk[f][k] \in MayHold(f)

\* So may the file that an image was read from.
ImagesAccepted ==
  \A c \in Caller : image[c] # NoImage =>
    /\ target[c] \in File
    /\ \A k \in DOMAIN image[c] : image[c][k] \in MayHold(target[c])

AcceptedInv == FilesAccepted /\ ImagesAccepted

\* No step takes an upload from the histories.
HistoriesGrow == \A f \in File : MayHold(f) \subseteq MayHold(f)'

LEMMA AcceptedInit == FileInit => AcceptedInv
<1> SUFFICES ASSUME FileInit PROVE AcceptedInv
  OBVIOUS
<1>1. Carrying = {} /\ DOMAIN tasks = {}
  BY DEF FileInit, PoolInit, Carrying
<1>2. \A f \in File : ~ Exists(f)
  BY DEF FileInit, PoolInit, StorageInit, Exists
<1>3. \A w \in Writer : stream[w] \notin File
  BY FileAssumption DEF FileInit, PoolInit, StorageInit
<1> QED
  BY <1>1, <1>2, <1>3 DEF FileInit, AcceptedInv, FilesAccepted, ImagesAccepted

\* The images, when the service moves and the histories only grow.
LEMMA ImagesStayAccepted ==
  ASSUME RequestInv, RequestInv', FilesInv, AcceptedInv, [FileNext]_fileVars, HistoriesGrow
  PROVE  ImagesAccepted'
<1>1. ASSUME NEW c \in Caller, image'[c] = image[c], target'[c] = target[c], image'[c] # NoImage
      PROVE  /\ target'[c] \in File
             /\ \A k \in DOMAIN image'[c] : image'[c][k] \in MayHold(target[c])'
  <2>1. PICK f \in File : f = target[c]
    BY <1>1 DEF AcceptedInv, ImagesAccepted
  <2>2. \A k \in DOMAIN image[c] : image[c][k] \in MayHold(f)'
    BY <1>1, <2>1 DEF AcceptedInv, ImagesAccepted, HistoriesGrow
  <2> QED
    BY <1>1, <2>1, <2>2 DEF MayHold
<1>2. ASSUME NEW c \in Caller, Read(c)
      PROVE  /\ \A d \in Caller : d # c => image'[d] = image[d] /\ target'[d] = target[d]
             /\ \/ image'[c] = image[c] /\ target'[c] = target[c]
                \/ /\ target'[c] \in File
                   /\ \A k \in DOMAIN image'[c] : image'[c][k] \in MayHold(target[c])'
  <2>1. /\ target' = target
        /\ \A d \in Caller : d # c => image'[d] = image[d]
        /\ \/ UNCHANGED image
           \/ /\ target[c] \in File /\ Exists(target[c])
              /\ \A i \in DOMAIN image'[c] :
                   i \in DOMAIN disk[target[c]] /\ image'[c][i] = disk[target[c]][i]
    BY <1>2, ReadsBlocks
  <2>2. CASE UNCHANGED image
    BY <2>1, <2>2
  <2>3. ASSUME NEW f \in File, f = target[c], Exists(f),
               \A i \in DOMAIN image'[c] : i \in DOMAIN disk[f] /\ image'[c][i] = disk[f][i]
        PROVE  \A k \in DOMAIN image'[c] : image'[c][k] \in MayHold(target[c])'
    <3>1. \A k \in DOMAIN image'[c] : image'[c][k] \in MayHold(f)'
      BY <2>3 DEF AcceptedInv, FilesAccepted, HistoriesGrow
    <3> QED
      BY <2>1, <2>3, <3>1 DEF MayHold
  <2> QED
    BY <2>1, <2>2, <2>3
<1>3. CASE \E c \in Caller : Read(c)
  BY <1>1, <1>2, <1>3 DEF ImagesAccepted, MayHold
<1>4. CASE \A c \in Caller : \/ image'[c] = image[c] /\ target'[c] = target[c]
                             \/ image'[c] = NoImage
  BY <1>1, <1>4 DEF ImagesAccepted, MayHold
<1> QED
  BY <1>3, <1>4, ImagesStay

\* The steps that touch neither a file nor a queued or carried item.
LEMMA FileStepKinds ==
  ASSUME [FileNext]_fileVars
  PROVE  \/ \E c \in Caller : SaveAccepted(c) \/ Delete(c)
         \/ \E w \in Writer : FileWriterStep(w)
         \/ ClearTasks /\ UNCHANGED history
         \/ /\ UNCHANGED <<disk, stream, tasks, task, wpc, history>>
            /\ stage' = "serving" => stage = "serving"
<1> DEFINE Quiet == /\ UNCHANGED <<disk, stream, tasks, task, wpc, history>>
                    /\ stage' = "serving" => stage = "serving"
<1>1. ASSUME NEW c \in Caller, RequestStep(c), ~ SaveAccepted(c), ~ Delete(c)
      PROVE  Quiet
  <2>1. CASE \/ Replied(c) \/ CheckExists(c) \/ AllocFails(c) \/ Stat(c) \/ Read(c)
             \/ HeadersOnly(c) \/ StartSender(c) \/ WriteFailed(c) \/ HandleWrite(c)
    <3>1. UNCHANGED <<poolVars, history>>
      BY <2>1 DEF Replied, CheckExists, AllocFails, Stat, Read, HeadersOnly, StartSender,
                  WriteFailed, HandleWrite
    <3> QED
      BY <3>1 DEF poolVars, storageVars, writerVars, ownerVars
  <2>2. CASE AllocBody(c) \/ FillOrRefuse(c) \/ SaveRefused(c)
    BY <2>2 DEF AllocBody, FillOrRefuse, SaveRefused, Alloc, Fill, Refuse, Discard, serviceVars,
                storageVars, writerVars, ownerVars
  <2> QED
    BY <1>1, <2>1, <2>2 DEF RequestStep
<1>2. ASSUME NEW c \in Caller, NEW m \in Method, NEW f \in File, Request(c, m, f)
      PROVE  Quiet
  BY <1>2 DEF Request, poolVars, storageVars, writerVars, ownerVars
<1>3. CASE (Destroy \/ Joined) /\ UNCHANGED serviceVars
  <2>1. stage' \in {"joining", "clearing"}
    BY <1>3 DEF Destroy, Joined, JoinNext
  <2> QED
    BY <1>3, <2>1 DEF Destroy, Joined, storageVars, serviceVars
<1>4. CASE (Terminated /\ UNCHANGED serviceVars) \/ UNCHANGED fileVars
  BY <1>4 DEF Terminated, fileVars, poolVars, storageVars, writerVars, ownerVars, serviceVars
<1>5. UNCHANGED serviceVars => UNCHANGED history
  BY DEF serviceVars
<1> QED
  BY <1>1, <1>2, <1>3, <1>4, <1>5 DEF FileNext, OwnerStep

\* A writer opens its own file, or another one, or none.
LEMMA OpensFile ==
  ASSUME PoolInv, NEW w \in Writer, SaveOpen(w)
  PROVE  /\ task[w].file \in File /\ task[w].upload \in Upload /\ w \in Carrying
         /\ wpc[w] = "save" /\ wpc' = [wpc EXCEPT ![w] = "write"]
         /\ UNCHANGED <<tasks, task, stage>>
         /\ (\E f \in File : OpenForWrite(w, f)) \/ UNCHANGED <<disk, stream>>
<1>1. task[w] \in Item /\ w \in Carrying
  BY DEF SaveOpen, WriterAt, PoolInv, OwnInv, ItemsInv, PlacesInv, Carrying
<1>2. Paths(task[w]) \subseteq File /\ task[w].file \in File /\ task[w].upload \in Upload
  BY <1>1 DEF Paths, Item
<1> QED
  BY <1>1, <1>2 DEF SaveOpen, WriterAt, storageVars, ownerVars

\* The blocks that a writer leaves in the file that its stream leads to.
LEMMA WritesOwnUpload ==
  ASSUME PoolInv, NEW w \in Writer, NEW r \in Results, SaveResult(w, r)
  PROVE  /\ w \in Carrying /\ wpc[w] = "write" /\ wpc' = [wpc EXCEPT ![w] = "count"]
         /\ UNCHANGED <<tasks, task, stage>>
         /\ stream' = [stream EXCEPT ![w] = NoFile]
         /\ \A f \in File : stream[w] # f => disk'[f] = disk[f]
         /\ \A f \in File : stream[w] = f =>
              /\ disk'[f] \in Seq(Upload)
              /\ \A k \in DOMAIN disk'[f] :
                   \/ disk'[f][k] = task[w].upload
                   \/ k \in DOMAIN disk[f] /\ disk'[f][k] = disk[f][k]
              /\ r[1] => disk'[f] # <<>> \/ task[w].len = 0
              /\ disk[f] # <<>> => disk'[f] # <<>>
<1>1. PICK n \in 0 .. task[w].len :
        (r[1] => n = task[w].len) /\ WriteAndClose(w, data[task[w].mem], n)
  BY DEF SaveResult
<1>2. /\ w \in Carrying /\ task[w] \in Item /\ wpc[w] = "write"
      /\ wpc' = [wpc EXCEPT ![w] = "count"] /\ UNCHANGED <<tasks, task, stage>>
  BY DEF SaveResult, WriterAt, PoolInv, OwnInv, ItemsInv, PlacesInv, Carrying, ownerVars
<1> DEFINE u == task[w].upload
<1>3. u \in Upload /\ u = data[task[w].mem] /\ n \in Nat /\ task[w].len \in Nat
  BY <1>2, PoolAssumption DEF PoolInv, OwnInv, DataInv, Item
<1>4. r[1] => n >= 1 \/ task[w].len = 0
  BY <1>1, <1>3
<1> HIDE DEF u
<1>5. /\ stream' = [stream EXCEPT ![w] = NoFile]
      /\ disk' = [f \in File |-> IF stream[w] = f THEN Overlay(disk[f], u, n) ELSE disk[f]]
  BY <1>1, <1>3 DEF WriteAndClose
<1>6. ASSUME NEW f \in File, stream[w] = f
      PROVE  /\ disk'[f] \in Seq(Upload)
             /\ \A k \in DOMAIN disk'[f] :
                  \/ disk'[f][k] = u
                  \/ k \in DOMAIN disk[f] /\ disk'[f][k] = disk[f][k]
             /\ r[1] => disk'[f] # <<>> \/ task[w].len = 0
             /\ disk[f] # <<>> => disk'[f] # <<>>
  <2> DEFINE old == disk[f]
             m == IF Len(old) > n THEN Len(old) ELSE n
  <2>1. disk'[f] = Overlay(old, u, n) /\ old \in Seq(Upload)
    BY <1>5, <1>6 DEF PoolInv, FilesInv
  <2> HIDE DEF old
  <2>2. Len(old) \in Nat /\ DOMAIN old = 1 .. Len(old)
    BY <2>1, LenProperties
  <2>3. disk'[f] = [i \in 1 .. m |-> IF i <= n THEN u ELSE old[i]]
    BY <2>1 DEF Overlay
  <2>4. disk'[f] \in Seq(Upload)
    BY <1>3, <2>1, OverlayType
  <2>5. m \in Nat /\ (n >= 1 => 1 \in 1 .. m) /\ (Len(old) >= 1 => 1 \in 1 .. m)
    BY <1>3, <2>2
  <2>6. \A k \in 1 .. m : k > n => k \in 1 .. Len(old)
    BY <1>3, <2>2
  <2> HIDE DEF m
  <2>7. \A k \in DOMAIN disk'[f] : disk'[f][k] = u \/ (k \in DOMAIN old /\ disk'[f][k] = old[k])
    <3> SUFFICES ASSUME NEW k \in DOMAIN disk'[f]
                 PROVE  disk'[f][k] = u \/ (k \in DOMAIN old /\ disk'[f][k] = old[k])
      OBVIOUS
    <3>1. k \in 1 .. m
      BY <2>3
    <3>2. k <= n => disk'[f][k] = u
      BY <2>3, <3>1
    <3>3. ~ k <= n => disk'[f][k] = old[k]
      BY <2>3, <3>1
    <3>4. ~ k <= n => k \in DOMAIN old
      BY <1>3, <2>2, <2>5, <2>6, <3>1
    <3> QED
      BY <3>2, <3>3, <3>4
  <2>8. 1 \in 1 .. m => disk'[f] # <<>>
    BY <2>3
  <2>9. old # <<>> => Len(old) >= 1
    BY <2>1, <2>2, EmptySeq
  <2> QED
    BY <1>4, <2>4, <2>5, <2>7, <2>8, <2>9 DEF old
<1>7. \A f \in File : stream[w] # f => disk'[f] = disk[f]
  BY <1>5
<1> QED
  BY <1>2, <1>5, <1>6, <1>7 DEF u

\* Items that are queued or being saved name files.
LEMMA ItemsNameFiles ==
  ASSUME OwnInv
  PROVE  /\ \A i \in DOMAIN tasks : tasks[i] \in Item /\ tasks[i].file \in File
         /\ \A w \in Carrying : task[w] \in Item /\ task[w].file \in File
<1>1. \A i \in DOMAIN tasks : tasks[i] \in Item
  BY ElementOfSeq, LenProperties DEF OwnInv, ItemsInv
<1>2. \A w \in Carrying : task[w] \in Item
  BY DEF OwnInv, ItemsInv, Carrying
<1>3. \A i \in Item : i.file \in File
  BY DEF Item
<1> QED
  BY <1>1, <1>2, <1>3

\* Every step of the service; SaveAccepted is the one that adds to accepted.
LEMMA SaveAcceptedKeeps ==
  ASSUME PoolInv, FilesAccepted, NEW c \in Caller, SaveAccepted(c)
  PROVE  FilesAccepted' /\ HistoriesGrow
<1>1. /\ Accept(c) /\ UNCHANGED <<disk, stream, wpc, strayed>>
      /\ accepted' = [accepted EXCEPT ![item[c].file] = @ \cup {item[c].upload}]
  BY DEF SaveAccepted, Accept, storageVars, writerVars
<1>2. /\ item[c] \in Item /\ Carrying' = Carrying /\ task' = task
      /\ \A j \in DOMAIN tasks : tasks'[j] = tasks[j]
  BY <1>1, AcceptMoves DEF PoolInv
<1>3. PICK n \in Nat : DOMAIN tasks' = DOMAIN tasks \cup {n} /\ tasks'[n] = item[c]
  BY <1>1, AcceptMoves DEF PoolInv
<1>4. item[c].file \in File /\ item[c].upload \in Upload
  BY <1>2 DEF Item
<1>5. /\ accepted' \in [File -> SUBSET Upload]
      /\ \A f \in File : accepted[f] \subseteq accepted'[f]
      /\ item[c].upload \in accepted'[item[c].file]
  BY <1>1, <1>4 DEF FilesAccepted
<1>6. /\ \A i \in DOMAIN tasks : tasks[i].file \in File
      /\ \A w \in Carrying : task[w].file \in File
  BY ItemsNameFiles DEF PoolInv
<1>7. \A i \in DOMAIN tasks' : tasks'[i].upload \in accepted'[tasks'[i].file]
  BY <1>2, <1>3, <1>5, <1>6 DEF FilesAccepted
<1>8. \A w \in Carrying' : task'[w].upload \in accepted'[task'[w].file]
  BY <1>2, <1>5, <1>6 DEF FilesAccepted
<1>9. HistoriesGrow
  BY <1>1, <1>5 DEF HistoriesGrow, MayHold
<1>10. \A w \in Writer :
         stream'[w] \in File => wpc'[w] = "write" /\ task'[w].upload \in MayHold(stream[w])'
  BY <1>1, <1>2, <1>9 DEF FilesAccepted, HistoriesGrow, MayHold
<1>11. \A f \in File : Exists(f)' => \A k \in DOMAIN disk'[f] : disk'[f][k] \in MayHold(f)'
  BY <1>1, <1>9 DEF FilesAccepted, Exists, HistoriesGrow
<1> QED
  BY <1>1, <1>5, <1>7, <1>8, <1>9, <1>10, <1>11 DEF FilesAccepted, MayHold

LEMMA DeleteKeepsAccepted ==
  ASSUME PoolInv, FilesAccepted, NEW c \in Caller, Delete(c)
  PROVE  FilesAccepted' /\ HistoriesGrow
<1>1. /\ UNCHANGED <<accepted, strayed, tasks, task, wpc>>
      /\ disk' = [disk EXCEPT ![target[c]] = Absent]
      /\ stream' = [w \in Writer |-> IF stream[w] = target[c] THEN Unlinked ELSE stream[w]]
  BY DEF Delete, RemoveFile, writerVars
<1>2. \A f \in File : Exists(f)' => Exists(f) /\ disk'[f] = disk[f]
  BY <1>1 DEF PoolInv, FilesInv, Exists
<1>3. \A w \in Writer : stream'[w] \in File => stream'[w] = stream[w]
  BY <1>1, FileAssumption
<1> QED
  BY <1>1, <1>2, <1>3 DEF FilesAccepted, Carrying, MayHold, HistoriesGrow

LEMMA OpeningKeepsAccepted ==
  ASSUME PoolInv, FilesAccepted, NEW w \in Writer, WriterOpens(w), accepted' = accepted
  PROVE  FilesAccepted' /\ HistoriesGrow
<1>1. SaveOpen(w)
  BY DEF WriterOpens
<1>2. /\ task[w].file \in File /\ task[w].upload \in Upload /\ w \in Carrying
      /\ wpc[w] = "save" /\ wpc' = [wpc EXCEPT ![w] = "write"] /\ UNCHANGED <<tasks, task>>
  BY <1>1, OpensFile
<1>3. /\ Carrying' = Carrying /\ wpc'[w] = "write"
      /\ \A v \in Writer : v # w => wpc'[v] = wpc[v]
  BY <1>2 DEF PoolInv, OwnInv, PlacesInv, Carrying
<1>4. /\ \A v \in Writer : v # w => stream'[v] = stream[v]
      /\ stream'[w] \in File \/ stream'[w] = stream[w]
      /\ \A f \in File : disk'[f] \in {disk[f], <<>>}
  <2>1. CASE UNCHANGED <<disk, stream>>
    BY <2>1
  <2>2. ASSUME NEW f \in File, OpenForWrite(w, f)
        PROVE  /\ \A v \in Writer : v # w => stream'[v] = stream[v]
               /\ stream'[w] \in File
               /\ \A g \in File : disk'[g] \in {disk[g], <<>>}
    BY <2>2 DEF OpenForWrite, PoolInv, FilesInv
  <2> QED
    BY <1>1, <2>1, <2>2, OpensFile
<1>5. /\ strayed' \in [File -> SUBSET Upload]
      /\ \A f \in File : strayed[f] \subseteq strayed'[f]
      /\ stream'[w] \in File => stream'[w] = task[w].file \/ task[w].upload \in strayed'[stream'[w]]
  BY <1>2 DEF WriterOpens, FilesAccepted
<1>6. HistoriesGrow
  BY <1>5 DEF HistoriesGrow, MayHold
<1>7. ASSUME NEW v \in Writer, stream'[v] \in File
      PROVE  wpc'[v] = "write" /\ task'[v].upload \in MayHold(stream[v])'
  <2>1. CASE v = w
    BY <1>2, <1>3, <1>5, <1>7, <2>1 DEF FilesAccepted, MayHold
  <2>2. CASE v # w
    <3>1. stream[v] \in File /\ stream'[v] = stream[v] /\ wpc'[v] = wpc[v]
      BY <1>3, <1>4, <1>7, <2>2
    <3> QED
      BY <1>2, <1>6, <3>1 DEF FilesAccepted, HistoriesGrow, MayHold
  <2> QED
    BY <2>1, <2>2
<1>8. ASSUME NEW f \in File, Exists(f)', NEW k \in DOMAIN disk'[f]
      PROVE  disk'[f][k] \in MayHold(f)'
  <2>1. disk'[f] = disk[f] /\ Exists(f)
    BY <1>4, <1>8 DEF Exists
  <2> QED
    BY <1>6, <1>8, <2>1 DEF FilesAccepted, HistoriesGrow
<1>9. /\ \A i \in DOMAIN tasks' : tasks'[i].upload \in accepted'[tasks'[i].file]
      /\ \A v \in Carrying' : task'[v].upload \in accepted'[task'[v].file]
  BY <1>2, <1>3 DEF FilesAccepted
<1> QED
  BY <1>5, <1>6, <1>7, <1>8, <1>9 DEF FilesAccepted, MayHold

LEMMA WriterKeepsAccepted ==
  ASSUME PoolInv, FilesAccepted, NEW w \in Writer, FileWriterStep(w)
  PROVE  FilesAccepted' /\ HistoriesGrow
<1>0. accepted' = accepted
  BY DEF FileWriterStep
<1>1. UNCHANGED strayed => HistoriesGrow
  BY <1>0 DEF HistoriesGrow, MayHold
<1>2. CASE (CheckRunning(w) \/ PopNothing(w)) /\ UNCHANGED strayed
  <2>1. /\ UNCHANGED <<disk, stream, tasks, task>> /\ wpc[w] \in {"loop", "pop"}
        /\ \A v \in Writer : v # w => wpc'[v] = wpc[v]
    BY <1>2 DEF CheckRunning, PopNothing, WriterAt, storageVars, PoolInv, OwnInv, PlacesInv
  <2> QED
    BY <1>0, <1>1, <1>2, <2>1 DEF FilesAccepted, Carrying, Exists, MayHold
<1>3. CASE PopTask(w) /\ UNCHANGED strayed
  <2>1. UNCHANGED <<disk, stream>> /\ wpc[w] = "pop" /\ \A v \in Writer : v # w => wpc'[v] = wpc[v]
    BY <1>3 DEF PopTask, WriterAt, storageVars, PoolInv, OwnInv, PlacesInv
  <2>2. /\ \A i \in DOMAIN tasks' : i \in DOMAIN tasks /\ tasks'[i] = tasks[i]
        /\ Carrying' = Carrying \cup {w} /\ \A v \in Writer : v # w => task'[v] = task[v]
        /\ Len(tasks) \in DOMAIN tasks /\ task'[w] = tasks[Len(tasks)]
    BY <1>3, PopTaskMoves DEF PoolInv
  <2>3. \A v \in Carrying' : v \in Carrying \/ v = w
    BY <2>2
  <2>4. \A v \in Carrying' : task'[v].upload \in accepted'[task'[v].file]
    BY <1>0, <2>2, <2>3 DEF FilesAccepted, Carrying
  <2> QED
    BY <1>0, <1>1, <1>3, <2>1, <2>2, <2>4 DEF FilesAccepted, Exists, MayHold
<1>4. CASE FreeTask(w) /\ UNCHANGED strayed
  <2>1. UNCHANGED <<disk, stream>> /\ wpc[w] = "count" /\ \A v \in Writer : v # w => wpc'[v] = wpc[v]
    BY <1>4 DEF FreeTask, WriterAt, storageVars, PoolInv, OwnInv, PlacesInv
  <2>2. tasks' = tasks /\ Carrying' = Carrying \ {w} /\ \A v \in Writer : v # w => task'[v] = task[v]
    BY <1>4, FreeTaskMoves DEF PoolInv
  <2>3. \A v \in Carrying' : task'[v].upload \in accepted'[task'[v].file]
    BY <1>0, <2>2 DEF FilesAccepted, Carrying
  <2> QED
    BY <1>0, <1>1, <1>4, <2>1, <2>2, <2>3 DEF FilesAccepted, Exists, MayHold
<1>5. CASE WriterOpens(w)
  BY <1>0, <1>5, OpeningKeepsAccepted
<1>6. CASE WriterWrites(w)
  <2>1. UNCHANGED strayed /\ \E r \in Results : SaveResult(w, r)
    BY <1>6 DEF WriterWrites
  <2>2. /\ w \in Carrying /\ wpc' = [wpc EXCEPT ![w] = "count"] /\ UNCHANGED <<tasks, task>>
        /\ stream' = [stream EXCEPT ![w] = NoFile]
        /\ \A f \in File : stream[w] # f => disk'[f] = disk[f]
        /\ \A f \in File : stream[w] = f =>
             \A k \in DOMAIN disk'[f] : \/ disk'[f][k] = task[w].upload
                                        \/ k \in DOMAIN disk[f] /\ disk'[f][k] = disk[f][k]
    BY <2>1, WritesOwnUpload
  <2>3. \A v \in Writer : stream'[v] \in File => v # w /\ stream'[v] = stream[v] /\ wpc'[v] = wpc[v]
    BY <2>2, FileAssumption DEF PoolInv, FilesInv, OwnInv, PlacesInv
  <2>4. \A f \in File : stream[w] = f => Exists(f) /\ task[w].upload \in MayHold(f)
    BY FileAssumption DEF FilesAccepted, PoolInv, FilesInv, Exists
  <2>5. \A f \in File : Exists(f)' => \A k \in DOMAIN disk'[f] : disk'[f][k] \in MayHold(f)
    BY <2>2, <2>4 DEF FilesAccepted, Exists
  <2>6. Carrying' = Carrying
    BY <2>2, WritesOwnUpload, <2>1 DEF PoolInv, OwnInv, PlacesInv, Carrying
  <2> QED
    BY <1>0, <1>1, <2>1, <2>2, <2>3, <2>5, <2>6 DEF FilesAccepted, MayHold
<1> QED
  BY <1>2, <1>3, <1>4, <1>5, <1>6 DEF FileWriterStep

LEMMA AcceptedNext ==
  ASSUME PoolInv, RequestInv, RequestInv', AcceptedInv, [FileNext]_fileVars
  PROVE  AcceptedInv'
<1>1. FilesAccepted' /\ HistoriesGrow
  <2>1. CASE \E c \in Caller : SaveAccepted(c) \/ Delete(c)
    BY <2>1, SaveAcceptedKeeps, DeleteKeepsAccepted DEF AcceptedInv
  <2>2. CASE \E w \in Writer : FileWriterStep(w)
    BY <2>2, WriterKeepsAccepted DEF AcceptedInv
  <2>3. CASE ClearTasks /\ UNCHANGED history
    <3>1. tasks' = <<>> /\ UNCHANGED <<disk, stream, task, wpc, accepted, strayed>>
      BY <2>3 DEF ClearTasks, storageVars, writerVars, history
    <3>2. DOMAIN tasks' = {}
      BY <3>1
    <3> QED
      BY <3>1, <3>2 DEF AcceptedInv, FilesAccepted, Carrying, Exists, MayHold, HistoriesGrow
  <2>4. CASE UNCHANGED <<disk, stream, tasks, task, wpc, history>>
    BY <2>4 DEF history, AcceptedInv, FilesAccepted, Carrying, Exists, MayHold, HistoriesGrow
  <2> QED
    BY <2>1, <2>2, <2>3, <2>4, FileStepKinds
<1>2. ImagesAccepted'
  BY <1>1, ImagesStayAccepted DEF PoolInv
<1> QED
  BY <1>1, <1>2 DEF AcceptedInv

LEMMA FileAccepts == FileSpec => [](PoolInv /\ RequestInv /\ AcceptedInv)
<1>1. FileInit => PoolInv /\ RequestInv /\ AcceptedInv
  BY PoolInvInit, RequestInvInit, AcceptedInit
<1>2. (PoolInv /\ RequestInv /\ AcceptedInv) /\ [FileNext]_fileVars
        => (PoolInv /\ RequestInv /\ AcceptedInv)'
  <2> SUFFICES ASSUME PoolInv, RequestInv, AcceptedInv, [FileNext]_fileVars
               PROVE  (PoolInv /\ RequestInv /\ AcceptedInv)'
    OBVIOUS
  <2>1. PoolInv' /\ RequestInv'
    BY PoolInvNext, RequestInvNext DEF PoolInv
  <2> QED
    BY <2>1, AcceptedNext
<1> QED
  BY <1>1, <1>2, PTL DEF FileSpec

\* Whatever a client gets from a file was accepted for that file, or a writer
\* took it there under a bucket name that was gone; for a disk that fails, and
\* names that die with their request, as those of FileService do.
THEOREM ServesAccepted == FileSpec => []ServedWasAccepted
<1>1. AcceptedInv => ServedWasAccepted
  BY DEF AcceptedInv, ImagesAccepted, ServedWasAccepted, Range
<1> QED
  BY <1>1, FileAccepts, PTL

-----------------------------------------------------------------------------
(* What was accepted stays.                                                *)

OnDisk(f) == Exists(f) /\ (disk[f] = <<>> => f \in blank)

\* An item for the file is queued, or a writer has not opened the file yet,
\* or is about to write through a stream that still leads to it.
UnderWay(f) ==
  \/ \E i \in DOMAIN tasks : tasks[i].file = f
  \/ \E w \in Carrying : wpc[w] = "save" /\ task[w].file = f
  \/ \E w \in Carrying : wpc[w] = "write" /\ task[w].file = f /\ stream[w] = f

\* Items without a body are for files that blank tells of.
BlankInv ==
  /\ \A i \in DOMAIN tasks : tasks[i].len = 0 => tasks[i].file \in blank
  /\ \A w \in Carrying : task[w].len = 0 => task[w].file \in blank

KeptInv ==
  /\ expected \subseteq File
  /\ BlankInv
  /\ stage = "serving" => \A f \in expected : OnDisk(f) \/ UnderWay(f)

LEMMA SaveAcceptedKeepsFiles ==
  ASSUME PoolInv, KeptInv, NEW c \in Caller, SaveAccepted(c)
  PROVE  KeptInv'
<1>1. /\ Accept(c) /\ UNCHANGED <<disk, stream, wpc, stage>>
      /\ blank' = IF item[c].len = 0 THEN blank \cup {item[c].file} ELSE blank
      /\ expected' = expected \cup {item[c].file}
  BY DEF SaveAccepted, Accept, storageVars, writerVars, ownerVars
<1>2. /\ item[c] \in Item /\ Carrying' = Carrying /\ task' = task
      /\ \A j \in DOMAIN tasks : tasks'[j] = tasks[j]
  BY <1>1, AcceptMoves DEF PoolInv
<1>3. PICK n \in Nat : DOMAIN tasks' = DOMAIN tasks \cup {n} /\ tasks'[n] = item[c]
  BY <1>1, AcceptMoves DEF PoolInv
<1>4. PICK g \in File : g = item[c].file
  BY <1>2 DEF Item
<1>5. UnderWay(g)'
  BY <1>3, <1>4 DEF UnderWay
<1>6. blank \subseteq blank' /\ (item[c].len = 0 => item[c].file \in blank')
  BY <1>1
<1>7. \A f \in File : (OnDisk(f) => OnDisk(f)') /\ (UnderWay(f) => UnderWay(f)')
  BY <1>1, <1>2, <1>3, <1>6 DEF OnDisk, Exists, UnderWay
<1>8. BlankInv'
  BY <1>2, <1>3, <1>6 DEF KeptInv, BlankInv
<1> QED
  BY <1>1, <1>4, <1>5, <1>7, <1>8 DEF KeptInv

LEMMA DeleteKeepsFiles ==
  ASSUME PoolInv, KeptInv, NEW c \in Caller, Delete(c)
  PROVE  KeptInv'
<1>1. /\ UNCHANGED <<tasks, task, wpc, stage, blank>>
      /\ disk' = [disk EXCEPT ![target[c]] = Absent]
      /\ stream' = [w \in Writer |-> IF stream[w] = target[c] THEN Unlinked ELSE stream[w]]
      /\ expected' = expected \ {target[c]}
  BY DEF Delete, RemoveFile, writerVars, ownerVars
<1>2. \A f \in File : f # target[c] => disk'[f] = disk[f]
  BY <1>1 DEF PoolInv, FilesInv
<1>3. \A w \in Carrying, f \in File : f # target[c] /\ stream[w] = f => stream'[w] = f
  BY <1>1 DEF Carrying
<1>4. \A f \in expected' : (OnDisk(f) => OnDisk(f)') /\ (UnderWay(f) => UnderWay(f)')
  BY <1>1, <1>2, <1>3 DEF OnDisk, Exists, UnderWay, KeptInv, Carrying
<1>5. BlankInv'
  BY <1>1 DEF KeptInv, BlankInv, Carrying
<1> QED
  BY <1>1, <1>4, <1>5 DEF KeptInv

\* A file that was expected and still is keeps what it has when a writer opens
\* a file: its own, or one that is not expected any more.
LEMMA OpeningKeepsFiles ==
  ASSUME PoolInv, KeptInv, NEW w \in Writer, WriterOpens(w), blank' = blank,
         NEW f \in File, f \in expected', OnDisk(f) \/ UnderWay(f)
  PROVE  OnDisk(f)' \/ UnderWay(f)'
<1>1. SaveOpen(w)
  BY DEF WriterOpens
<1>2. /\ task[w].file \in File /\ w \in Carrying
      /\ wpc[w] = "save" /\ wpc' = [wpc EXCEPT ![w] = "write"] /\ UNCHANGED <<tasks, task>>
  BY <1>1, OpensFile
<1>3. /\ Carrying' = Carrying /\ wpc'[w] = "write"
      /\ \A v \in Writer : v # w => wpc'[v] = wpc[v]
  BY <1>2 DEF PoolInv, OwnInv, PlacesInv, Carrying
<1>4. /\ \A v \in Writer : v # w => stream'[v] = stream[v]
      /\ f # stream'[w] => disk'[f] = disk[f]
  <2>1. ASSUME NEW g \in File, OpenForWrite(w, g)
        PROVE  /\ \A v \in Writer : v # w => stream'[v] = stream[v]
               /\ stream'[w] = g /\ (f # g => disk'[f] = disk[f])
    BY <2>1 DEF OpenForWrite, PoolInv, FilesInv
  <2> QED
    BY <1>1, <2>1, OpensFile
<1>5. CASE stream'[w] = task[w].file /\ f = task[w].file
  BY <1>2, <1>3, <1>5 DEF UnderWay
<1>6. CASE stream'[w] = task[w].file /\ f # task[w].file
  BY <1>2, <1>3, <1>4, <1>6 DEF OnDisk, Exists, UnderWay, Carrying
<1>7. CASE stream'[w] # task[w].file
  <2>1. f # task[w].file /\ f # stream'[w]
    BY <1>7 DEF WriterOpens
  <2> QED
    BY <1>2, <1>3, <1>4, <2>1 DEF OnDisk, Exists, UnderWay, Carrying
<1> QED
  BY <1>5, <1>6, <1>7

\* Nor does it lose what it has when a writer writes: the write that fails is
\* for a file that is not expected any more.
LEMMA WritingKeepsFiles ==
  ASSUME PoolInv, KeptInv, NEW w \in Writer, WriterWrites(w), blank' = blank,
         NEW f \in File, f \in expected', OnDisk(f) \/ UnderWay(f)
  PROVE  OnDisk(f)' \/ UnderWay(f)'
<1>1. PICK r \in Results :
        SaveResult(w, r) /\ (~ r[1] => f # task[w].file /\ f # stream[w])
  BY DEF WriterWrites
<1>2. /\ w \in Carrying /\ wpc[w] = "write" /\ wpc' = [wpc EXCEPT ![w] = "count"]
      /\ UNCHANGED <<tasks, task>>
      /\ stream' = [stream EXCEPT ![w] = NoFile]
      /\ stream[w] # f => disk'[f] = disk[f]
      /\ stream[w] = f => /\ disk'[f] \in Seq(Upload)
                          /\ r[1] => disk'[f] # <<>> \/ task[w].len = 0
                          /\ disk[f] # <<>> => disk'[f] # <<>>
  BY <1>1, WritesOwnUpload
<1>3. /\ Carrying' = Carrying
      /\ \A v \in Carrying : v # w => wpc'[v] = wpc[v] /\ stream'[v] = stream[v]
  BY <1>2 DEF PoolInv, FilesInv, OwnInv, PlacesInv, Carrying
<1>4. CASE stream[w] # f
  BY <1>2, <1>3, <1>4, blank' = blank DEF OnDisk, Exists, UnderWay
<1>5. CASE stream[w] = f
  <2>1. r[1] /\ Exists(f)'
    BY <1>1, <1>2, <1>5, FileAssumption DEF Exists
  <2>2. CASE OnDisk(f)
    BY <1>2, <1>5, <2>1, <2>2 DEF OnDisk
  <2>3. CASE task[w].file = f
    <3>1. task[w].len = 0 => f \in blank
      BY <1>2, <2>3 DEF KeptInv, BlankInv
    <3> QED
      BY <1>2, <1>5, <2>1, <3>1 DEF OnDisk
  <2>4. CASE task[w].file # f /\ UnderWay(f)
    BY <1>2, <1>3, <2>4 DEF UnderWay
  <2> QED
    BY <2>2, <2>3, <2>4
<1> QED
  BY <1>4, <1>5

LEMMA WriterKeepsFiles ==
  ASSUME PoolInv, KeptInv, NEW w \in Writer, FileWriterStep(w)
  PROVE  KeptInv'
<1>1. /\ blank' = blank /\ expected' \subseteq expected
      /\ \/ CheckRunning(w) \/ PopNothing(w) \/ PopTask(w) \/ FreeTask(w)
         \/ WriterOpens(w) \/ WriterWrites(w)
  BY DEF FileWriterStep, WriterOpens, WriterWrites
<1>2. WriterStep(w) /\ stage' = stage
  <2>1. WriterStep(w)
    BY WriterIsPools
  <2> QED
    BY <2>1 DEF WriterStep, CheckRunning, PopTask, PopNothing, SaveOpen, SaveWrite, SaveResult,
                FreeTask, ownerVars
<1>3. CASE CheckRunning(w) \/ PopNothing(w)
  <2>1. /\ UNCHANGED <<disk, stream, tasks, task>> /\ wpc[w] \in {"loop", "pop"}
        /\ wpc'[w] \in {"loop", "pop", "finished"} /\ \A v \in Writer : v # w => wpc'[v] = wpc[v]
    BY <1>3 DEF CheckRunning, PopNothing, WriterAt, storageVars, PoolInv, OwnInv, PlacesInv
  <2>2. Carrying' = Carrying
    BY <2>1 DEF Carrying
  <2>3. BlankInv'
    BY <1>1, <2>1, <2>2 DEF KeptInv, BlankInv
  <2>4. \A f \in File : (OnDisk(f) => OnDisk(f)') /\ (UnderWay(f) => UnderWay(f)')
    BY <1>1, <2>1, <2>2 DEF OnDisk, Exists, UnderWay, Carrying
  <2> QED
    BY <1>1, <1>2, <2>3, <2>4 DEF KeptInv
<1>4. CASE PopTask(w)
  <2>1. /\ UNCHANGED <<disk, stream>> /\ wpc' = [wpc EXCEPT ![w] = "save"]
    BY <1>4 DEF PopTask, WriterAt, storageVars
  <2>2. /\ DOMAIN tasks' = DOMAIN tasks \ {Len(tasks)} /\ w \notin Carrying
        /\ \A i \in DOMAIN tasks' : tasks'[i] = tasks[i]
        /\ Carrying' = Carrying \cup {w} /\ \A v \in Writer : v # w => task'[v] = task[v]
        /\ Len(tasks) \in DOMAIN tasks /\ task'[w] = tasks[Len(tasks)]
    BY <1>4, PopTaskMoves DEF PoolInv
  <2>3. wpc'[w] = "save" /\ \A v \in Carrying : v # w /\ wpc'[v] = wpc[v] /\ task'[v] = task[v]
    BY <2>1, <2>2 DEF PoolInv, OwnInv, PlacesInv, Carrying
  <2>4. \A i \in DOMAIN tasks : i \in DOMAIN tasks' \/ task'[w] = tasks[i]
    BY <2>2
  <2>5. BlankInv'
    BY <1>1, <2>2, <2>3 DEF KeptInv, BlankInv
  <2>6. \A f \in File : (OnDisk(f) => OnDisk(f)') /\ (UnderWay(f) => UnderWay(f)')
    BY <1>1, <2>1, <2>2, <2>3, <2>4 DEF OnDisk, Exists, UnderWay
  <2> QED
    BY <1>1, <1>2, <2>5, <2>6 DEF KeptInv
<1>5. CASE FreeTask(w)
  <2>1. /\ UNCHANGED <<disk, stream>> /\ wpc[w] = "count" /\ wpc' = [wpc EXCEPT ![w] = "loop"]
    BY <1>5 DEF FreeTask, WriterAt, storageVars
  <2>2. tasks' = tasks /\ Carrying' = Carrying \ {w} /\ \A v \in Writer : v # w => task'[v] = task[v]
    BY <1>5, FreeTaskMoves DEF PoolInv
  <2>3. \A v \in Carrying : v # w => v \in Carrying' /\ wpc'[v] = wpc[v] /\ task'[v] = task[v]
    BY <2>1, <2>2 DEF PoolInv, OwnInv, PlacesInv, Carrying
  <2>4. BlankInv'
    BY <1>1, <2>2, <2>3 DEF KeptInv, BlankInv, Carrying
  <2>5. \A f \in File : (OnDisk(f) => OnDisk(f)') /\ (UnderWay(f) => UnderWay(f)')
    BY <1>1, <2>1, <2>2, <2>3 DEF OnDisk, Exists, UnderWay
  <2> QED
    BY <1>1, <1>2, <2>4, <2>5 DEF KeptInv
<1>6. CASE WriterOpens(w) \/ WriterWrites(w)
  <2>1. /\ w \in Carrying /\ UNCHANGED <<tasks, task>>
        /\ wpc[w] \in {"save", "write"} /\ \E p \in {"write", "count"} : wpc' = [wpc EXCEPT ![w] = p]
    BY <1>6, OpensFile, WritesOwnUpload DEF WriterOpens, WriterWrites
  <2>2. Carrying' = Carrying
    BY <2>1 DEF PoolInv, OwnInv, PlacesInv, Carrying
  <2>3. BlankInv'
    BY <1>1, <2>1, <2>2 DEF KeptInv, BlankInv
  <2> QED
    BY <1>1, <1>2, <1>6, <2>3, OpeningKeepsFiles, WritingKeepsFiles DEF KeptInv
<1> QED
  BY <1>1, <1>3, <1>4, <1>5, <1>6

LEMMA KeptNext ==
  ASSUME PoolInv, KeptInv, [FileNext]_fileVars
  PROVE  KeptInv'
<1>1. CASE \E c \in Caller : SaveAccepted(c) \/ Delete(c)
  BY <1>1, SaveAcceptedKeepsFiles, DeleteKeepsFiles
<1>2. CASE \E w \in Writer : FileWriterStep(w)
  BY <1>2, WriterKeepsFiles
<1>3. CASE ClearTasks /\ UNCHANGED history
  <2>1. stage' # "serving" /\ UNCHANGED <<expected, blank, wpc, task>> /\ tasks' = <<>>
    BY <1>3 DEF ClearTasks, history, writerVars
  <2>2. DOMAIN tasks' = {} /\ Carrying' = Carrying
    BY <2>1 DEF Carrying
  <2> QED
    BY <2>1, <2>2 DEF KeptInv, BlankInv
<1>4. CASE /\ UNCHANGED <<disk, stream, tasks, task, wpc, history>>
           /\ stage' = "serving" => stage = "serving"
  BY <1>4 DEF history, KeptInv, BlankInv, OnDisk, Exists, UnderWay, Carrying
<1> QED
  BY <1>1, <1>2, <1>3, <1>4, FileStepKinds

\* An upload that was answered with 201 is not forgotten: a file with an
\* accepted upload and nothing on its way exists and holds accepted data, as
\* long as no DELETE, failed write or stray writer has touched it since.
THEOREM KeepsAccepted == FileSpec => []AcceptedStays
<1>1. FileInit => KeptInv
  <2>1. FileInit => Carrying = {} /\ DOMAIN tasks = {} /\ expected = {}
    BY DEF FileInit, PoolInit, Carrying
  <2> QED
    BY <2>1 DEF KeptInv, BlankInv
<1>2. PoolInv /\ KeptInv /\ [FileNext]_fileVars => KeptInv'
  BY KeptNext
<1>3. AcceptedInv /\ KeptInv => AcceptedStays
  <2> SUFFICES ASSUME AcceptedInv, KeptInv, stage = "serving", NEW f \in expected,
                      \A i \in Queued \cup InHand : i.file # f
               PROVE  /\ Exists(f) /\ (disk[f] = <<>> => f \in blank)
                      /\ Range(disk[f]) \subseteq MayHold(f)
    BY DEF AcceptedStays
  <2>1. ~ UnderWay(f)
    BY DEF UnderWay, Queued, InHand, Carrying, Range
  <2>2. OnDisk(f) /\ f \in File
    BY <2>1 DEF KeptInv
  <2>3. \A k \in DOMAIN disk[f] : disk[f][k] \in MayHold(f)
    BY <2>2 DEF OnDisk, AcceptedInv, FilesAccepted
  <2> QED
    BY <2>2, <2>3 DEF OnDisk, Range
<1> QED
  BY <1>1, <1>2, <1>3, FileAccepts, PTL DEF FileSpec

-----------------------------------------------------------------------------
(* Senders.                                                                *)

Part == [kind : {"whole", "chunk", "final"}, body : Seq(Upload)]

\* g adds up the bodies of the parts.
Adds(g, parts) ==
  /\ g \in [1 .. Len(parts) -> Seq(Upload)]
  /\ g[1] = parts[1].body
  /\ \A i \in 1 .. Len(parts) - 1 : g[i + 1] = g[i] \o parts[i + 1].body

\* FlattenSeq is a recursive function, and there is but one solution of the
\* equation that it solves.
LEMMA FlattenUnfolds ==
  ASSUME NEW s, NEW g, Len(s) \in Nat \ {0}, g = [i \in 1 .. Len(s) |-> g[i]],
         g[1] = s[1], \A i \in 1 .. Len(s) - 1 : g[i + 1] = g[i] \o s[i + 1]
  PROVE  FlattenSeq(s) = g[Len(s)]
<1> DEFINE Eqn(f) == f = [i \in 1 .. Len(s) |-> IF i = 1 THEN s[i] ELSE f[i - 1] \o s[i]]
           h == CHOOSE f : Eqn(f)
           n == Len(s)
<1>1. FlattenSeq(s) = h[n]
  BY DEF FlattenSeq
<1>2. Eqn(g)
  <2>1. ASSUME NEW i \in 1 .. n, i # 1
        PROVE  g[i] = g[i - 1] \o s[i]
    <3>1. i - 1 \in 1 .. n - 1 /\ (i - 1) + 1 = i
      BY <2>1
    <3>2. g[(i - 1) + 1] = g[i - 1] \o s[(i - 1) + 1]
      BY <3>1
    <3> QED
      BY <3>1, <3>2
  <2>2. \A i \in 1 .. n : g[i] = IF i = 1 THEN s[i] ELSE g[i - 1] \o s[i]
    BY <2>1
  <2> QED
    BY <2>2
<1>3. Eqn(h)
  BY <1>2
<1> HIDE DEF h
<1> DEFINE S == {i \in 1 .. n : h[i] = g[i]}
<1>4. 1 \in S
  BY <1>2, <1>3
<1>5. ASSUME NEW i \in 1 .. n - 1, i \in S
      PROVE  i + 1 \in S
  <2>1. i + 1 \in 1 .. n /\ i + 1 # 1 /\ (i + 1) - 1 = i
    OBVIOUS
  <2>2. h[i + 1] = h[(i + 1) - 1] \o s[i + 1]
    BY <1>3, <2>1
  <2>3. g[i + 1] = g[(i + 1) - 1] \o s[i + 1]
    BY <1>2, <2>1
  <2> QED
    BY <1>5, <2>1, <2>2, <2>3
<1> HIDE DEF S
<1>6. 1 .. n \subseteq S
  BY <1>4, <1>5, InductionUpTo
<1>7. h[n] = g[n]
  BY <1>6 DEF S
<1> QED
  BY <1>1, <1>7

LEMMA BodyAdds ==
  ASSUME NEW parts \in Seq(Part), Len(parts) >= 1, NEW g, Adds(g, parts)
  PROVE  Body(parts) = g[Len(parts)]
<1> DEFINE n == Len(parts)
           s == [i \in DOMAIN parts |-> parts[i].body]
<1>1. n \in Nat \ {0} /\ DOMAIN parts = 1 .. n
  BY LenProperties
<1>2. \A i \in 1 .. n : parts[i] \in Part
  BY ElementOfSeq
<1>3. \A i \in 1 .. n : parts[i].body \in Seq(Upload)
  BY <1>2 DEF Part
<1>4. s = [i \in 1 .. n |-> parts[i].body]
  BY <1>1
<1>5. s \in Seq(Seq(Upload)) /\ Len(s) = n
  BY <1>1, <1>3
<1> HIDE DEF n
<1>6. 1 \in 1 .. n /\ \A i \in 1 .. n - 1 : i + 1 \in 1 .. n
  BY <1>1
<1>7. g[1] = s[1] /\ \A i \in 1 .. n - 1 : g[i + 1] = g[i] \o s[i + 1]
  BY <1>4, <1>6 DEF Adds, n
<1> HIDE DEF s
<1>8. FlattenSeq(s) = g[n]
  <2>1. g \in [1 .. n -> Seq(Upload)]
    BY DEF Adds, n
  <2>2. g = [i \in 1 .. n |-> g[i]]
    BY <2>1
  <2> QED
    BY <1>1, <1>5, <1>7, <2>2, FlattenUnfolds
<1> QED
  BY <1>8 DEF Body, s, n

LEMMA MinOfTwo ==
  ASSUME NEW a \in Int, NEW b \in Int
  PROVE  Min({a, b}) \in {a, b} /\ Min({a, b}) <= a /\ Min({a, b}) <= b
<1>1. \E x \in {a, b} : \A y \in {a, b} : x <= y
  <2>1. CASE a <= b
    BY <2>1
  <2>2. CASE ~ a <= b
    BY <2>2
  <2> QED
    BY <2>1, <2>2
<1>2. Min({a, b}) \in {a, b} /\ \A y \in {a, b} : Min({a, b}) <= y
  BY <1>1 DEF Min
<1> QED
  BY <1>2

BeforeImage == {"idle", "exists", "alloc", "save", "delete", "stat", "read"}

HasImage(c) == image[c] \in Seq(Upload) /\ Len(image[c]) = size[c]

\* What is on the wire: parts of which only the last can end the response,
\* and which add up to the image as far as it was sent.
OnTheWay(c) ==
  LET n == Len(wire[c])
  IN /\ n >= 1 /\ (n = 1 <=> sent[c] = 0)
     /\ sending[c] >= 1 /\ sent[c] + sending[c] <= size[c]
     /\ \A i \in 1 .. n - 1 : wire[c][i].kind = "chunk"
     /\ wire[c][n].kind = PartKind(c, sent[c], sending[c])
     /\ \E g : Adds(g, wire[c]) /\ g[n] = SubSeq(image[c], 1, sent[c] + sending[c])

\* The state of a connection's sender.
SenderInv(c) ==
  /\ image[c] = NoImage \/ HasImage(c)
  /\ phase[c] = "decide" => HasImage(c)
  /\ phase[c] \in BeforeImage => image[c] = NoImage
  /\ phase[c] \notin {"sending", "replying"} => wire[c] = <<>>
  /\ phase[c] # "sending" => sent[c] = 0
  /\ phase[c] = "sending" => HasImage(c) /\ OnTheWay(c)

SenderTypes ==
  /\ sent \in [Caller -> Nat]
  /\ sending \in [Caller -> 0 .. ChunkLimit]
  /\ wire \in [Caller -> Seq(Part)]
  /\ broken \in [Caller -> BOOLEAN]

AllSenders == \A c \in Caller : SenderInv(c)

\* A connection that a step does not concern.
Undisturbed(c) ==
  /\ phase'[c] = phase[c]
  /\ size'[c] = size[c]
  /\ image'[c] = image[c]
  /\ sent'[c] = sent[c]
  /\ sending'[c] = sending[c]
  /\ wire'[c] = wire[c]

LEMMA UndisturbedKeeps ==
  ASSUME NEW c \in Caller, Undisturbed(c), SenderInv(c)
  PROVE  SenderInv(c)'
BY DEF Undisturbed, SenderInv, HasImage, OnTheWay, PartKind, LastPart

LEMMA SendersInit == FileInit => SenderTypes /\ AllSenders
<1> SUFFICES ASSUME FileInit PROVE SenderTypes /\ AllSenders
  OBVIOUS
<1>1. ChunkLimit \in Nat /\ 0 \in 0 .. ChunkLimit
  BY FileServiceAssumption
<1>2. <<>> \in Seq(Part)
  OBVIOUS
<1>3. SenderTypes
  BY <1>1, <1>2 DEF FileInit, SenderTypes
<1>4. ASSUME NEW c \in Caller PROVE SenderInv(c)
  BY DEF FileInit, SenderInv
<1> QED
  BY <1>3, <1>4 DEF AllSenders

\* A part that is sent.
LEMMA NextPart ==
  ASSUME RequestInv, SenderTypes, NEW c \in Caller, HasImage(c), NEW from \in Nat, from < size[c],
         SendPart(c, from)
  PROVE  /\ sending' \in [Caller -> 0 .. ChunkLimit] /\ wire' \in [Caller -> Seq(Part)]
         /\ \A d \in Caller : d # c => sending'[d] = sending[d] /\ wire'[d] = wire[d]
         /\ sending'[c] >= 1 /\ from + sending'[c] <= size[c]
         /\ Len(wire'[c]) = Len(wire[c]) + 1
         /\ \A i \in 1 .. Len(wire[c]) : wire'[c][i] = wire[c][i]
         /\ wire'[c][Len(wire[c]) + 1].kind = PartKind(c, from, sending'[c])
         /\ wire'[c][Len(wire[c]) + 1].body = SubSeq(image[c], from + 1, from + sending'[c])
         /\ SubSeq(image[c], from + 1, from + sending'[c]) \in Seq(Upload)
<1> DEFINE n == PartLength(c, from)
           b == SubSeq(image[c], from + 1, from + n)
           k == PartKind(c, from, n)
           p == [kind |-> k, body |-> b]
<1>1. size[c] \in Nat /\ size[c] - from \in Int /\ ChunkLimit \in Int /\ ChunkLimit >= 1
  BY FileServiceAssumption DEF RequestInv
<1>2. /\ n \in {size[c] - from, ChunkLimit} /\ n <= size[c] - from /\ n <= ChunkLimit
  BY <1>1, MinOfTwo DEF PartLength
<1>3. sending' = [sending EXCEPT ![c] = n] /\ wire' = [wire EXCEPT ![c] = Append(@, p)]
  BY DEF SendPart
<1>4. k \in {"whole", "chunk", "final"}
  BY DEF PartKind
<1> HIDE DEF n
<1>5. n \in 0 .. ChunkLimit /\ n >= 1 /\ from + n <= size[c] /\ from + n \in Nat
  BY <1>1, <1>2
<1>6. \A i \in from + 1 .. from + n : image[c][i] \in Upload
  <2> SUFFICES ASSUME NEW i \in from + 1 .. from + n PROVE image[c][i] \in Upload
    OBVIOUS
  <2>1. i \in 1 .. Len(image[c])
    BY <1>5 DEF HasImage
  <2> QED
    BY <2>1, ElementOfSeq DEF HasImage
<1>7. b \in Seq(Upload)
  BY <1>5, <1>6, SubSeqProperties
<1> HIDE DEF b, k
<1>8. p \in Part /\ p.kind = k /\ p.body = b
  BY <1>4, <1>7 DEF Part
<1> HIDE DEF p
<1>9. wire[c] \in Seq(Part)
  BY DEF SenderTypes
<1>10. /\ Append(wire[c], p) \in Seq(Part) /\ Len(Append(wire[c], p)) = Len(wire[c]) + 1
       /\ \A i \in 1 .. Len(wire[c]) : Append(wire[c], p)[i] = wire[c][i]
       /\ Append(wire[c], p)[Len(wire[c]) + 1] = p
  BY <1>8, <1>9, AppendProperties
<1>11. sending'[c] = n /\ wire'[c] = Append(wire[c], p)
  BY <1>3 DEF SenderTypes
<1>12. /\ sending' \in [Caller -> 0 .. ChunkLimit] /\ wire' \in [Caller -> Seq(Part)]
       /\ \A d \in Caller : d # c => sending'[d] = sending[d] /\ wire'[d] = wire[d]
  BY <1>3, <1>5, <1>10 DEF SenderTypes
<1> QED
  BY <1>5, <1>7, <1>8, <1>10, <1>11, <1>12 DEF b, k

\* The first part of a response.
LEMMA FirstPart ==
  ASSUME RequestInv, SenderTypes, NEW c \in Caller, HasImage(c), size[c] > 0, wire[c] = <<>>,
         sent[c] = 0, UNCHANGED <<size, image, sent>>, SendPart(c, 0)
  PROVE  HasImage(c)' /\ OnTheWay(c)'
<1> DEFINE n == sending'[c]
<1>1. /\ n >= 1 /\ 0 + n <= size[c] /\ Len(wire[c]) = 0
      /\ Len(wire'[c]) = 1 /\ wire'[c][1].kind = PartKind(c, 0, n)
      /\ wire'[c][1].body = SubSeq(image[c], 1, n) /\ SubSeq(image[c], 1, n) \in Seq(Upload)
  <2>1. 0 \in Nat /\ 0 + 1 = 1 /\ Len(wire[c]) = 0
    OBVIOUS
  <2>2. sending'[c] \in Nat /\ 0 + sending'[c] = sending'[c]
    BY <2>1, NextPart, FileServiceAssumption
  <2> QED
    BY <2>1, <2>2, NextPart
<1>2. PartKind(c, 0, n) = PartKind(c, sent[c], sending[c])'
  BY DEF PartKind, LastPart
<1>3. n \in Nat /\ sent'[c] + n = n /\ sent'[c] = 0
  BY NextPart, FileServiceAssumption
<1> DEFINE g == [i \in 1 .. 1 |-> wire'[c][1].body]
<1>4. g \in [1 .. Len(wire'[c]) -> Seq(Upload)] /\ g[1] = wire'[c][1].body
  BY <1>1
<1>5. \A i \in 1 .. Len(wire'[c]) - 1 : FALSE
  BY <1>1
<1> HIDE DEF g
<1>6. Adds(g, wire'[c]) /\ g[1] = SubSeq(image'[c], 1, sent'[c] + n)
  BY <1>1, <1>3, <1>4, <1>5 DEF Adds
<1> HIDE DEF n
<1>7. OnTheWay(c)'
  BY <1>1, <1>2, <1>3, <1>5, <1>6 DEF OnTheWay, n
<1> QED
  BY <1>7 DEF HasImage

\* Every later part; until then the response is not complete.
LEMMA LaterPart ==
  ASSUME RequestInv, SenderTypes, NEW c \in Caller, HasImage(c), OnTheWay(c),
         Advance(c) < size[c], sent' = [sent EXCEPT ![c] = Advance(c)], UNCHANGED <<size, image>>,
         SendPart(c, Advance(c))
  PROVE  HasImage(c)' /\ OnTheWay(c)'
<1> DEFINE from == Advance(c)
           n == sending'[c]
           l == Len(wire[c])
<1>1. /\ sent[c] \in Nat /\ sending[c] \in Nat /\ size[c] \in Nat /\ from = sent[c] + sending[c]
      /\ from \in Nat /\ from >= 1 /\ from < size[c] /\ sent'[c] = from /\ l \in Nat /\ l >= 1
  BY FileServiceAssumption, LenProperties DEF Advance, RequestInv, SenderTypes, OnTheWay
<1>2. /\ n \in Nat /\ n >= 1 /\ from + n <= size[c] /\ Len(wire'[c]) = l + 1
      /\ \A i \in 1 .. l : wire'[c][i] = wire[c][i]
      /\ wire'[c][l + 1].kind = PartKind(c, from, n)
      /\ wire'[c][l + 1].body = SubSeq(image[c], from + 1, from + n)
      /\ SubSeq(image[c], from + 1, from + n) \in Seq(Upload)
  <2>1. from \in Nat /\ SendPart(c, from)
    BY <1>1
  <2> HIDE DEF from
  <2>2. n \in Nat
    BY <1>1, <2>1, NextPart, FileServiceAssumption
  <2> QED
    BY <1>1, <2>1, <2>2, NextPart
<1>3. wire[c][l].kind = "chunk"
  <2>1. ~ LastPart(c, sent[c], sending[c])
    BY <1>1 DEF LastPart
  <2> QED
    BY <2>1 DEF OnTheWay, PartKind
<1>4. \A i \in 1 .. l : wire'[c][i].kind = "chunk"
  <2> SUFFICES ASSUME NEW i \in 1 .. l PROVE wire[c][i].kind = "chunk"
    BY <1>2
  <2>1. CASE i = l
    BY <1>3, <2>1
  <2>2. CASE i # l
    <3>1. i \in 1 .. l - 1
      BY <1>1, <2>2
    <3> QED
      BY <3>1 DEF OnTheWay
  <2> QED
    BY <2>1, <2>2
<1>5. PartKind(c, from, n) = PartKind(c, sent[c], sending[c])'
  BY <1>1 DEF PartKind, LastPart
<1>6. PICK g : Adds(g, wire[c]) /\ g[l] = SubSeq(image[c], 1, from)
  BY <1>1 DEF OnTheWay
<1> DEFINE b == SubSeq(image[c], from + 1, from + n)
           h == [i \in 1 .. l + 1 |-> IF i <= l THEN g[i] ELSE g[l] \o b]
<1>7. Adds(h, wire'[c]) /\ h[l + 1] = g[l] \o b
  <2>1. g \in [1 .. l -> Seq(Upload)] /\ g[1] = wire[c][1].body
    BY <1>6 DEF Adds
  <2> HIDE DEF l, n, from
  <2>0. b \in Seq(Upload)
    BY <1>2
  <2> HIDE DEF b
  <2>9. 1 \in 1 .. l /\ l \in 1 .. l /\ g[l] \in Seq(Upload)
    BY <1>1, <2>1
  <2>2. g[l] \o b \in Seq(Upload)
    BY <2>0, <2>9, ConcatProperties
  <2>3. h \in [1 .. l + 1 -> Seq(Upload)]
    BY <1>1, <2>1, <2>2
  <2>4. h[l + 1] = g[l] \o b
    BY <1>1
  <2>5. \A i \in 1 .. l : h[i] = g[i]
    BY <1>1
  <2> HIDE DEF h
  <2>6. h[1] = wire'[c][1].body
    BY <1>2, <2>1, <2>5, <2>9
  <2>7. ASSUME NEW i \in 1 .. l
        PROVE  h[i + 1] = h[i] \o wire'[c][i + 1].body
    <3>1. CASE i = l
      BY <1>2, <2>4, <2>5, <3>1 DEF b
    <3>2. CASE i # l
      <4>1. i \in 1 .. l - 1 /\ i + 1 \in 1 .. l
        BY <1>1, <3>2
      <4>2. g[i + 1] = g[i] \o wire[c][i + 1].body
        BY <1>6, <4>1 DEF Adds, l
      <4> QED
        BY <1>2, <2>5, <4>1, <4>2
    <3> QED
      BY <3>1, <3>2
  <2>8. Len(wire'[c]) - 1 = l
    BY <1>1, <1>2
  <2> QED
    BY <1>2, <2>3, <2>4, <2>6, <2>7, <2>8 DEF Adds
<1>8. g[l] \o b = SubSeq(image[c], 1, from + n)
  <2>1. image[c] \in Seq(Upload) /\ Len(image[c]) = size[c]
    BY DEF HasImage
  <2> HIDE DEF l, n, from
  <2>2. size[c] \in Nat
    BY <1>1
  <2>3. 1 \in 1 .. size[c] + 1 /\ from \in 1 - 1 .. size[c] /\ from + n \in from .. size[c]
    <3>1. n \in Nat /\ n >= 1 /\ from + n <= size[c]
      BY <1>2
    <3>2. from \in Nat /\ from < size[c]
      BY <1>1
    <3> QED
      BY <2>2, <3>1, <3>2
  <2>4. SubSeq(image[c], 1, from) \o SubSeq(image[c], from + 1, from + n)
          = SubSeq(image[c], 1, from + n)
    BY <2>1, <2>3, ConcatAdjacentSubSeq
  <2> QED
    BY <1>6, <2>4
<1>9. Adds(h, wire'[c]) /\ h[l + 1] = SubSeq(image'[c], 1, sent'[c] + n)
  BY <1>1, <1>7, <1>8
<1> HIDE DEF h, n, l, from
<1>10. /\ Len(wire'[c]) >= 1 /\ Len(wire'[c]) # 1 /\ sent'[c] # 0 /\ Len(wire'[c]) = l + 1
       /\ Len(wire'[c]) - 1 = l /\ sent'[c] + n <= size'[c]
  <2>1. size' = size
    OBVIOUS
  <2>2. Len(wire'[c]) >= 1 /\ Len(wire'[c]) # 1 /\ Len(wire'[c]) - 1 = l
    <3>1. Len(wire'[c]) = l + 1
      BY <1>2
    <3>2. l \in Nat /\ l >= 1
      BY <1>1
    <3> QED
      BY <3>1, <3>2
  <2>3. sent'[c] # 0
    BY <1>1
  <2> QED
    BY <1>1, <1>2, <2>1, <2>2, <2>3
<1>11. OnTheWay(c)'
  BY <1>2, <1>4, <1>5, <1>9, <1>10 DEF OnTheWay, n
<1> QED
  BY <1>11 DEF HasImage

\* The steps of a request do not concern the other connections.
LEMMA OthersUndisturbed ==
  ASSUME RequestInv, FilesInv, SenderTypes, NEW c \in Caller, RequestStep(c)
  PROVE  \A d \in Caller : d # c => Undisturbed(d)
<1>1. CASE \/ CheckExists(c) \/ AllocFails(c) \/ AllocBody(c) \/ SaveAccepted(c)
           \/ SaveRefused(c) \/ Delete(c) \/ HeadersOnly(c)
  <2>1. UNCHANGED senderVars /\ \E p : phase' = [phase EXCEPT ![c] = p]
    BY <1>1 DEF CheckExists, AllocFails, AllocBody, SaveAccepted, SaveRefused, Delete, HeadersOnly,
                Goto, Reply
  <2> QED
    BY <2>1 DEF RequestInv, Undisturbed, senderVars
<1>2. CASE FillOrRefuse(c)
  BY <1>2 DEF FillOrRefuse, serviceVars, connectionVars, senderVars, Undisturbed
<1>3. CASE Stat(c)
  <2>1. /\ UNCHANGED <<image, sent, sending, wire>> /\ \E p : phase' = [phase EXCEPT ![c] = p]
        /\ size' = size \/ \E n : size' = [size EXCEPT ![c] = n]
    BY <1>3 DEF Stat, Goto, Reply
  <2> QED
    BY <2>1 DEF RequestInv, Undisturbed
<1>4. CASE Read(c)
  <2>1. /\ UNCHANGED <<size, sent, sending, wire>> /\ \E p : phase' = [phase EXCEPT ![c] = p]
        /\ image' = image \/ \E t : image' = [image EXCEPT ![c] = t]
    BY <1>4 DEF Read, Goto, Reply
  <2> QED
    BY <2>1 DEF RequestInv, Undisturbed
<1>5. CASE StartSender(c)
  <2>1. /\ UNCHANGED <<size, image, sent>> /\ \E p : phase' = [phase EXCEPT ![c] = p]
        /\ sending' = sending \/ \E n : sending' = [sending EXCEPT ![c] = n]
        /\ \E t : wire' = [wire EXCEPT ![c] = t]
    BY <1>5 DEF StartSender, SendPart, Goto
  <2> QED
    BY <2>1 DEF RequestInv, SenderTypes, Undisturbed
<1>6. ASSUME Finish(c)
      PROVE  \A d \in Caller : d # c => Undisturbed(d)
  BY <1>6 DEF Finish, RequestInv, SenderTypes, Undisturbed
<1>7. CASE Replied(c) \/ WriteFailed(c)
  BY <1>6, <1>7 DEF Replied, WriteFailed
<1>8. CASE HandleWrite(c)
  <2>1. ASSUME ~ Finish(c)
        PROVE  /\ UNCHANGED <<phase, size, image>> /\ sent' = [sent EXCEPT ![c] = Advance(c)]
               /\ \E n : sending' = [sending EXCEPT ![c] = n]
               /\ \E t : wire' = [wire EXCEPT ![c] = t]
    BY <1>8, <2>1 DEF HandleWrite, SendPart
  <2> QED
    BY <1>6, <2>1 DEF SenderTypes, Undisturbed
<1> QED
  BY <1>1, <1>2, <1>3, <1>4, <1>5, <1>7, <1>8 DEF RequestStep

\* A connection that finishes.
LEMMA FinishedSender ==
  ASSUME RequestInv, SenderTypes, NEW c \in Caller, Finish(c)
  PROVE  /\ SenderInv(c)'
         /\ sent' \in [Caller -> Nat] /\ sending' \in [Caller -> 0 .. ChunkLimit]
         /\ wire' \in [Caller -> Seq(Part)]
<1>1. /\ phase'[c] = "idle" /\ image'[c] = NoImage /\ wire'[c] = <<>> /\ sent'[c] = 0
  BY DEF Finish, RequestInv, SenderTypes
<1>2. 0 \in 0 .. ChunkLimit /\ <<>> \in Seq(Part)
  BY FileServiceAssumption
<1>3. /\ sent' \in [Caller -> Nat] /\ sending' \in [Caller -> 0 .. ChunkLimit]
      /\ wire' \in [Caller -> Seq(Part)]
  BY <1>2 DEF Finish, SenderTypes
<1> QED
  BY <1>1, <1>3 DEF SenderInv

\* The connection whose request makes a step.
LEMMA SenderStep ==
  ASSUME RequestInv, FilesInv, SenderTypes, NEW c \in Caller, SenderInv(c), RequestStep(c)
  PROVE  SenderTypes' /\ SenderInv(c)'
<1>1. CASE \/ CheckExists(c) \/ AllocFails(c) \/ AllocBody(c) \/ SaveAccepted(c)
           \/ SaveRefused(c) \/ Delete(c)
  <2>1. UNCHANGED <<senderVars, broken>>
    BY <1>1 DEF CheckExists, AllocFails, AllocBody, SaveAccepted, SaveRefused, Delete
  <2>2. /\ phase[c] \in {"exists", "alloc", "save", "delete"}
        /\ \E p \in {"alloc", "save", "replying"} : phase' = [phase EXCEPT ![c] = p]
    BY <1>1 DEF CheckExists, AllocFails, AllocBody, SaveAccepted, SaveRefused, Delete, Goto, Reply
  <2>3. phase'[c] \in {"alloc", "save", "replying"}
    BY <2>2 DEF RequestInv
  <2>4. image[c] = NoImage /\ wire[c] = <<>> /\ sent[c] = 0
    BY <2>2 DEF SenderInv, BeforeImage
  <2>5. SenderTypes'
    BY <2>1 DEF SenderTypes, senderVars
  <2> QED
    BY <2>1, <2>3, <2>4, <2>5 DEF SenderInv, senderVars
<1>2. CASE FillOrRefuse(c)
  <2>1. UNCHANGED <<phase, senderVars, broken>>
    BY <1>2 DEF FillOrRefuse, serviceVars, connectionVars
  <2>2. Undisturbed(c) /\ SenderTypes'
    BY <2>1 DEF senderVars, Undisturbed, SenderTypes
  <2> QED
    BY <2>2, UndisturbedKeeps
<1>3. CASE Stat(c)
  <2>1. /\ UNCHANGED <<image, sent, sending, wire, broken>> /\ phase[c] = "stat"
        /\ \E p \in {"read", "replying"} : phase' = [phase EXCEPT ![c] = p]
    BY <1>3 DEF Stat, Goto, Reply
  <2>2. phase'[c] \in {"read", "replying"}
    BY <2>1 DEF RequestInv
  <2>3. image[c] = NoImage /\ wire[c] = <<>> /\ sent[c] = 0
    BY <2>1 DEF SenderInv, BeforeImage
  <2> QED
    BY <2>1, <2>2, <2>3 DEF SenderInv, SenderTypes
<1>4. CASE Read(c)
  <2>1. /\ UNCHANGED <<size, sent, sending, wire, broken>> /\ phase[c] = "read"
    BY <1>4 DEF Read, Goto, Reply
  <2>2. image[c] = NoImage /\ wire[c] = <<>> /\ sent[c] = 0
    BY <2>1 DEF SenderInv, BeforeImage
  <2>3. SenderTypes'
    BY <2>1 DEF SenderTypes
  <2>4. \/ UNCHANGED image /\ phase' = [phase EXCEPT ![c] = "replying"]
        \/ /\ phase' = [phase EXCEPT ![c] = "decide"]
           /\ image'[c] \in Seq(Upload) /\ Len(image'[c]) = size[c]
    BY <1>4, ReadsBlocks
  <2>5. CASE UNCHANGED image /\ phase' = [phase EXCEPT ![c] = "replying"]
    <3>1. phase'[c] = "replying"
      BY <2>5 DEF RequestInv
    <3> QED
      BY <2>1, <2>2, <2>3, <2>5, <3>1 DEF SenderInv
  <2>6. CASE /\ phase' = [phase EXCEPT ![c] = "decide"]
             /\ image'[c] \in Seq(Upload) /\ Len(image'[c]) = size[c]
    <3>1. phase'[c] = "decide"
      BY <2>6 DEF RequestInv
    <3>2. HasImage(c)'
      BY <2>1, <2>6 DEF HasImage
    <3> QED
      BY <2>1, <2>2, <2>3, <3>1, <3>2 DEF SenderInv, BeforeImage
  <2> QED
    BY <2>4, <2>5, <2>6
<1>5. CASE HeadersOnly(c)
  <2>1. UNCHANGED <<senderVars, broken>> /\ phase[c] = "decide" /\ phase'[c] = "replying"
    BY <1>5 DEF HeadersOnly, Goto, Reply, RequestInv
  <2> QED
    BY <2>1 DEF SenderInv, SenderTypes, BeforeImage, HasImage, senderVars
<1>6. CASE StartSender(c)
  <2>1. UNCHANGED <<size, image, sent, broken>> /\ phase[c] = "decide"
    BY <1>6 DEF StartSender, Goto
  <2>2. HasImage(c) /\ wire[c] = <<>> /\ sent[c] = 0
    BY <2>1 DEF SenderInv
  <2>3. ASSUME size[c] = 0, phase' = [phase EXCEPT ![c] = "replying"], sending' = sending,
               wire' = [wire EXCEPT ![c] = <<[kind |-> "whole", body |-> <<>>]>>]
        PROVE  SenderTypes' /\ SenderInv(c)'
    <3>1. [kind |-> "whole", body |-> <<>>] \in Part
      BY DEF Part
    <3>2. <<[kind |-> "whole", body |-> <<>>]>> \in Seq(Part)
      BY <3>1
    <3>3. wire' \in [Caller -> Seq(Part)]
      BY <2>3, <3>2 DEF SenderTypes
    <3>4. phase'[c] = "replying"
      BY <2>3 DEF RequestInv
    <3> QED
      BY <2>1, <2>2, <2>3, <3>3, <3>4 DEF SenderTypes, SenderInv, HasImage, BeforeImage
  <2>4. ASSUME size[c] > 0, phase' = [phase EXCEPT ![c] = "sending"], SendPart(c, 0)
        PROVE  SenderTypes' /\ SenderInv(c)'
    <3>1. HasImage(c)' /\ OnTheWay(c)'
      BY <2>1, <2>2, <2>4, FirstPart
    <3>2. sending' \in [Caller -> 0 .. ChunkLimit] /\ wire' \in [Caller -> Seq(Part)]
      <4>1. 0 \in Nat /\ 0 < size[c]
        BY <2>4 DEF RequestInv
      <4> QED
        BY <2>2, <2>4, <4>1, NextPart
    <3>3. phase'[c] = "sending"
      BY <2>4 DEF RequestInv
    <3> QED
      BY <2>1, <3>1, <3>2, <3>3 DEF SenderTypes, SenderInv, BeforeImage
  <2> QED
    BY <1>6, <2>3, <2>4 DEF StartSender, Goto
<1>7. CASE Replied(c)
  BY <1>7, FinishedSender DEF Replied, SenderTypes
<1>8. CASE WriteFailed(c)
  <2>1. Finish(c) /\ broken' \in [Caller -> BOOLEAN]
    BY <1>8 DEF WriteFailed, SenderTypes
  <2> QED
    BY <2>1, FinishedSender DEF SenderTypes
<1>9. CASE HandleWrite(c)
  <2>1. phase[c] = "sending" /\ broken' = broken /\ HasImage(c) /\ OnTheWay(c)
    BY <1>9 DEF HandleWrite, SenderInv
  <2>2. CASE Finish(c)
    BY <2>1, <2>2, FinishedSender DEF SenderTypes
  <2>3. CASE /\ Advance(c) < size[c] /\ sent' = [sent EXCEPT ![c] = Advance(c)]
             /\ SendPart(c, Advance(c)) /\ UNCHANGED <<phase, size, image>>
    <3>1. HasImage(c)' /\ OnTheWay(c)'
      BY <2>1, <2>3, LaterPart
    <3>2. Advance(c) \in Nat
      BY FileServiceAssumption DEF Advance, SenderTypes
    <3>3. sending' \in [Caller -> 0 .. ChunkLimit] /\ wire' \in [Caller -> Seq(Part)]
      BY <2>1, <2>3, <3>2, NextPart
    <3>4. sent' \in [Caller -> Nat]
      BY <2>3, <3>2 DEF SenderTypes
    <3> QED
      BY <2>1, <2>3, <3>1, <3>3, <3>4 DEF SenderTypes, SenderInv, BeforeImage
  <2> QED
    BY <1>9, <2>2, <2>3 DEF HandleWrite
<1> QED
  BY <1>1, <1>2, <1>3, <1>4, <1>5, <1>6, <1>7, <1>8, <1>9 DEF RequestStep

LEMMA SendersNext ==
  ASSUME RequestInv, FilesInv, SenderTypes, AllSenders, [FileNext]_fileVars
  PROVE  SenderTypes' /\ AllSenders'
<1>1. ASSUME NEW c \in Caller, RequestStep(c) PROVE SenderTypes' /\ AllSenders'
  <2>1. SenderInv(c)
    BY DEF AllSenders
  <2>2. SenderTypes' /\ SenderInv(c)'
    BY <1>1, <2>1, SenderStep
  <2>3. ASSUME NEW d \in Caller, d # c PROVE SenderInv(d)'
    <3>1. Undisturbed(d)
      BY <1>1, <2>3, OthersUndisturbed
    <3> QED
      BY <3>1, UndisturbedKeeps DEF AllSenders
  <2> QED
    BY <2>2, <2>3 DEF AllSenders
<1>2. ASSUME NEW c \in Caller, NEW m \in Method, NEW f \in File, Request(c, m, f)
      PROVE  SenderTypes' /\ AllSenders'
  <2>1. /\ phase[c] = "idle" /\ phase' = [phase EXCEPT ![c] = FirstStep(m)]
        /\ broken' = [broken EXCEPT ![c] = FALSE] /\ UNCHANGED senderVars
    BY <1>2 DEF Request, Goto
  <2>2. FirstStep(m) \in {"stat", "exists", "delete"}
    BY DEF FirstStep, Method
  <2>3. SenderTypes'
    BY <2>1 DEF SenderTypes, senderVars
  <2>4. SenderInv(c)'
    <3>1. phase'[c] \in {"stat", "exists", "delete"}
      BY <2>1, <2>2 DEF RequestInv
    <3>2. image[c] = NoImage /\ wire[c] = <<>> /\ sent[c] = 0
      BY <2>1 DEF AllSenders, SenderInv, BeforeImage
    <3> QED
      BY <2>1, <3>1, <3>2 DEF SenderInv, senderVars
  <2>5. ASSUME NEW d \in Caller, d # c PROVE SenderInv(d)'
    <3>1. Undisturbed(d)
      BY <2>1, <2>5 DEF Undisturbed, senderVars, RequestInv
    <3> QED
      BY <3>1, UndisturbedKeeps DEF AllSenders
  <2> QED
    BY <2>3, <2>4, <2>5 DEF AllSenders
<1>3. CASE UNCHANGED connectionVars
  <2>1. \A c \in Caller : Undisturbed(c)
    BY <1>3 DEF connectionVars, senderVars, Undisturbed
  <2>2. SenderTypes'
    BY <1>3 DEF connectionVars, senderVars, SenderTypes
  <2> QED
    BY <2>1, <2>2, UndisturbedKeeps DEF AllSenders
<1> QED
  BY <1>1, <1>2, <1>3, WriterIsPools DEF FileNext, fileVars, serviceVars

SendInv == PoolInv /\ RequestInv /\ SenderTypes /\ AllSenders

LEMMA FileSends == FileSpec => []SendInv
<1>1. FileInit => SendInv
  BY PoolInvInit, RequestInvInit, SendersInit DEF SendInv
<1>2. SendInv /\ [FileNext]_fileVars => SendInv'
  <2> SUFFICES ASSUME SendInv, [FileNext]_fileVars PROVE SendInv'
    OBVIOUS
  <2>1. PoolInv' /\ RequestInv'
    BY PoolInvNext, RequestInvNext DEF SendInv, PoolInv
  <2>2. SenderTypes' /\ AllSenders'
    BY SendersNext DEF SendInv, PoolInv
  <2> QED
    BY <2>1, <2>2 DEF SendInv
<1> QED
  BY <1>1, <1>2, PTL DEF FileSpec

\* A sender whose connection ends without a failed write is at the end.
LEMMA EndsAtSize ==
  ASSUME SendInv, [FileNext]_fileVars, NEW c \in Caller,
         phase[c] = "sending", phase'[c] = "idle", ~ broken'[c]
  PROVE  Advance(c) >= size[c]
<1>1. ASSUME NEW d \in Caller, RequestStep(d) PROVE Advance(c) >= size[c]
  <2>1. d = c
    BY <1>1, OthersUndisturbed DEF SendInv, PoolInv, Undisturbed
  <2>2. WriteFailed(c) \/ HandleWrite(c)
    BY <1>1, <2>1 DEF RequestStep, Replied, CheckExists, AllocFails, AllocBody, FillOrRefuse,
                      SaveAccepted, SaveRefused, Delete, Stat, Read, HeadersOnly, StartSender,
                      Goto, Reply
  <2>3. ~ WriteFailed(c)
    BY DEF WriteFailed, SendInv, SenderTypes
  <2> QED
    BY <2>2, <2>3 DEF HandleWrite
<1>2. ASSUME NEW d \in Caller, NEW m \in Method, NEW f \in File, Request(d, m, f) PROVE FALSE
  <2>1. phase[d] = "idle" /\ phase' = [phase EXCEPT ![d] = FirstStep(m)]
    BY <1>2 DEF Request, Goto
  <2> QED
    BY <2>1 DEF SendInv, RequestInv
<1>3. ~ UNCHANGED connectionVars
  BY DEF connectionVars
<1> QED
  BY <1>1, <1>2, <1>3, WriterIsPools DEF FileNext, fileVars, serviceVars

\* A sender that finishes has sent the image it was created for, in order,
\* without a gap and marked so that the client knows where it ends.
THEOREM DeliversWhole == FileSpec => DeliveredWhole
<1>1. SendInv /\ [FileNext]_fileVars =>
        [\A c \in Caller :
           phase[c] = "sending" /\ phase'[c] = "idle" /\ ~ broken'[c] =>
             /\ Body(wire[c]) = image[c]
             /\ Last(wire[c]).kind = IF Len(wire[c]) = 1 THEN "whole" ELSE "final"
             /\ \A i \in 1 .. Len(wire[c]) - 1 : wire[c][i].kind = "chunk"]_fileVars
  <2> SUFFICES ASSUME SendInv, [FileNext]_fileVars, NEW c \in Caller,
                      phase[c] = "sending", phase'[c] = "idle", ~ broken'[c]
               PROVE  /\ Body(wire[c]) = image[c]
                      /\ Last(wire[c]).kind = IF Len(wire[c]) = 1 THEN "whole" ELSE "final"
                      /\ \A i \in 1 .. Len(wire[c]) - 1 : wire[c][i].kind = "chunk"
    OBVIOUS
  <2>1. HasImage(c) /\ OnTheWay(c)
    BY DEF SendInv, AllSenders, SenderInv
  <2>2. /\ sent[c] \in Nat /\ sending[c] \in Nat /\ size[c] \in Nat
        /\ Len(wire[c]) \in Nat /\ wire[c] \in Seq(Part)
    BY LenProperties, FileServiceAssumption DEF SendInv, SenderTypes, RequestInv
  <2>3. sent[c] + sending[c] >= size[c]
    BY EndsAtSize DEF Advance
  <2>4. sent[c] + sending[c] = size[c]
    <3>1. sent[c] + sending[c] <= size[c]
      BY <2>1 DEF OnTheWay
    <3> QED
      BY <2>2, <2>3, <3>1
  <2>5. Body(wire[c]) = image[c]
    <3>1. PICK g : /\ Adds(g, wire[c])
                   /\ g[Len(wire[c])] = SubSeq(image[c], 1, sent[c] + sending[c])
      BY <2>1 DEF OnTheWay
    <3>2. g[Len(wire[c])] = SubSeq(image[c], 1, Len(image[c]))
      BY <2>1, <2>4, <3>1 DEF HasImage
    <3>3. g[Len(wire[c])] = image[c]
      BY <2>1, <3>2, SubSeqFull DEF HasImage
    <3>4. Len(wire[c]) >= 1
      BY <2>1 DEF OnTheWay
    <3> QED
      BY <2>2, <3>1, <3>3, <3>4, BodyAdds
  <2>6. Last(wire[c]).kind = IF Len(wire[c]) = 1 THEN "whole" ELSE "final"
    <3>1. LastPart(c, sent[c], sending[c])
      BY <2>3 DEF LastPart
    <3>2. wire[c][Len(wire[c])].kind = IF sent[c] > 0 THEN "final" ELSE "whole"
      BY <2>1, <3>1 DEF OnTheWay, PartKind
    <3>3. sent[c] > 0 <=> Len(wire[c]) # 1
      BY <2>1, <2>2 DEF OnTheWay
    <3> QED
      BY <3>2, <3>3 DEF Last
  <2>7. \A i \in 1 .. Len(wire[c]) - 1 : wire[c][i].kind = "chunk"
    BY <2>1 DEF OnTheWay
  <2> QED
    BY <2>5, <2>6, <2>7
<1> QED
  BY <1>1, FileSends, PTL DEF FileSpec, DeliveredWhole

-----------------------------------------------------------------------------
(* The types of the service's variables.                                   *)

BookInv ==
  /\ method \in [Caller -> Method \cup {"none"}]
  /\ status \in [Caller -> {0, 200, 201, 304, 404, 500}]
  /\ accepted \in [File -> SUBSET Upload] /\ strayed \in [File -> SUBSET Upload]
  /\ blank \subseteq File /\ expected \subseteq File

LEMMA BookNext ==
  ASSUME PoolInv, RequestInv, BookInv, [FileNext]_fileVars
  PROVE  BookInv'
<1>1. ASSUME NEW c \in Caller, RequestStep(c) PROVE BookInv'
  <2>1. CASE CheckExists(c) \/ AllocFails(c) \/ AllocBody(c) \/ SaveRefused(c)
    <3>1. UNCHANGED <<method, history>>
      BY <2>1 DEF CheckExists, AllocFails, AllocBody, SaveRefused, requestVars
    <3>2. status' = status \/ \E s \in {404, 500} : status' = [status EXCEPT ![c] = s]
      BY <2>1 DEF CheckExists, AllocFails, AllocBody, SaveRefused, Reply
    <3> QED
      BY <3>1, <3>2 DEF BookInv, history
  <2>2. CASE Stat(c) \/ Read(c) \/ HeadersOnly(c) \/ StartSender(c)
    <3>1. UNCHANGED <<method, history>>
      BY <2>2 DEF Stat, Read, HeadersOnly, StartSender, requestVars
    <3>2. status' = status \/ \E s \in {200, 304, 500} : status' = [status EXCEPT ![c] = s]
      BY <2>2 DEF Stat, Read, HeadersOnly, StartSender, Reply
    <3> QED
      BY <3>1, <3>2 DEF BookInv, history
  <2>3. CASE FillOrRefuse(c)
    BY <2>3 DEF FillOrRefuse, serviceVars, connectionVars, requestVars, history, BookInv
  <2>4. CASE SaveAccepted(c)
    <3>1. /\ Accept(c) /\ method' = method /\ status' = [status EXCEPT ![c] = 201]
          /\ accepted' = [accepted EXCEPT ![item[c].file] = @ \cup {item[c].upload}]
          /\ blank' \in {blank, blank \cup {item[c].file}} /\ strayed' = strayed
          /\ expected' = expected \cup {item[c].file}
      BY <2>4 DEF SaveAccepted, Reply, requestVars
    <3>2. item[c] \in Item
      BY <3>1, AcceptMoves DEF PoolInv
    <3>3. item[c].file \in File /\ item[c].upload \in Upload
      BY <3>2 DEF Item
    <3> QED
      BY <3>1, <3>3 DEF BookInv
  <2>5. CASE Delete(c)
    <3>1. /\ UNCHANGED <<method, accepted, strayed, blank>> /\ status' = [status EXCEPT ![c] = 201]
          /\ expected' = expected \ {target[c]}
      BY <2>5 DEF Delete, Reply, requestVars
    <3> QED
      BY <3>1 DEF BookInv
  <2>6. CASE Replied(c) \/ WriteFailed(c) \/ HandleWrite(c)
    <3>1. Finish(c) \/ UNCHANGED <<method, status>>
      BY <2>6 DEF Replied, WriteFailed, HandleWrite, requestVars
    <3>2. UNCHANGED history
      BY <2>6 DEF Replied, WriteFailed, HandleWrite
    <3> QED
      BY <3>1, <3>2 DEF Finish, BookInv, history
  <2> QED
    BY <1>1, <2>1, <2>2, <2>3, <2>4, <2>5, <2>6 DEF RequestStep
<1>2. ASSUME NEW c \in Caller, NEW m \in Method, NEW f \in File, Request(c, m, f)
      PROVE  BookInv'
  BY <1>2 DEF Request, history, BookInv
<1>3. CASE UNCHANGED serviceVars
  BY <1>3 DEF serviceVars, connectionVars, requestVars, history, BookInv
<1>4. ASSUME NEW w \in Writer, FileWriterStep(w) PROVE BookInv'
  <2>1. UNCHANGED <<method, status, accepted, blank>> /\ expected' \subseteq expected
    BY <1>4 DEF FileWriterStep, WriterOpens, WriterWrites, connectionVars, requestVars
  <2>2. CASE UNCHANGED strayed
    BY <2>1, <2>2 DEF BookInv
  <2>3. CASE WriterOpens(w)
    <3>1. task[w].upload \in Upload
      BY <2>3, OpensFile DEF WriterOpens
    <3> QED
      BY <2>1, <2>3, <3>1 DEF WriterOpens, BookInv
  <2> QED
    BY <1>4, <2>2, <2>3 DEF FileWriterStep, WriterWrites
<1> QED
  BY <1>1, <1>2, <1>3, <1>4 DEF FileNext, fileVars

\* The DiskFile objects, with those that handlers are about to create.
Wanting == {d \in Caller : ImageWanted(d)}

ImagesInv == images \in Nat /\ images + Cardinality(Wanting) <= MaxImages

LEMMA CountWanting ==
  ASSUME IsFiniteSet(Caller)
  PROVE  /\ Cardinality(Wanting) \in Nat
         /\ \A c \in Caller \ Wanting : Cardinality(Wanting \cup {c}) = Cardinality(Wanting) + 1
         /\ \A c \in Wanting : Cardinality(Wanting \ {c}) = Cardinality(Wanting) - 1
<1>1. IsFiniteSet(Wanting)
  BY FS_Subset DEF Wanting
<1> QED
  BY <1>1, FS_CardinalityType, FS_AddElement, FS_RemoveElement

LEMMA ImagesNext ==
  ASSUME IsFiniteSet(Caller), RequestInv, ImagesInv, [FileNext]_fileVars
  PROVE  ImagesInv'
<1>1. ASSUME UNCHANGED images, NEW c \in Caller, phase[c] # "stat",
             \A d \in Caller : d # c => phase'[d] = phase[d], phase'[c] # "stat"
      PROVE  ImagesInv'
  <2>1. Wanting' = Wanting
    BY <1>1 DEF Wanting, ImageWanted
  <2> QED
    BY <1>1, <2>1 DEF ImagesInv
<1>2. ASSUME NEW c \in Caller, RequestStep(c), ~ Stat(c) PROVE ImagesInv'
  <2>1. CASE FillOrRefuse(c)
    BY <2>1 DEF FillOrRefuse, serviceVars, connectionVars, ImagesInv, Wanting, ImageWanted
  <2>2. CASE \/ CheckExists(c) \/ AllocFails(c) \/ AllocBody(c) \/ SaveAccepted(c)
             \/ SaveRefused(c) \/ Delete(c)
    <3>1. /\ phase[c] \in {"exists", "alloc", "save", "delete"} /\ UNCHANGED images
          /\ \E p \in {"alloc", "save", "replying"} : phase' = [phase EXCEPT ![c] = p]
      BY <2>2 DEF CheckExists, AllocFails, AllocBody, SaveAccepted, SaveRefused, Delete, Goto, Reply
    <3>2. phase'[c] # "stat" /\ \A d \in Caller : d # c => phase'[d] = phase[d]
      BY <3>1 DEF RequestInv
    <3> QED
      BY <1>1, <3>1, <3>2
  <2>3. CASE Read(c) \/ HeadersOnly(c) \/ StartSender(c)
    <3>1. /\ phase[c] \in {"read", "decide"} /\ UNCHANGED images
          /\ \E p \in {"decide", "sending", "replying"} : phase' = [phase EXCEPT ![c] = p]
      BY <2>3 DEF Read, HeadersOnly, StartSender, Goto, Reply
    <3>2. phase'[c] # "stat" /\ \A d \in Caller : d # c => phase'[d] = phase[d]
      BY <3>1 DEF RequestInv
    <3> QED
      BY <1>1, <3>1, <3>2
  <2>4. CASE Replied(c) \/ WriteFailed(c) \/ HandleWrite(c)
    <3>1. /\ phase[c] \in {"sending", "replying"} /\ UNCHANGED images
          /\ phase' = [phase EXCEPT ![c] = "idle"] \/ UNCHANGED phase
      BY <2>4 DEF Replied, WriteFailed, HandleWrite, Finish
    <3>2. phase'[c] # "stat" /\ \A d \in Caller : d # c => phase'[d] = phase[d]
      BY <3>1 DEF RequestInv
    <3> QED
      BY <1>1, <3>1, <3>2
  <2> QED
    BY <1>2, <2>1, <2>2, <2>3, <2>4 DEF RequestStep
<1>3. ASSUME NEW c \in Caller, Stat(c) PROVE ImagesInv'
  <2>1. /\ images' = images + 1 /\ phase[c] = "stat"
        /\ \E p \in {"read", "replying"} : phase' = [phase EXCEPT ![c] = p]
    BY <1>3 DEF Stat, Goto, Reply
  <2>2. c \in Wanting /\ Wanting' = Wanting \ {c}
    BY <2>1 DEF RequestInv, Wanting, ImageWanted
  <2>3. Cardinality(Wanting') = Cardinality(Wanting) - 1 /\ Cardinality(Wanting) \in Nat
    BY <2>2, CountWanting
  <2> QED
    BY <2>1, <2>3, FileServiceAssumption DEF ImagesInv
<1>4. ASSUME NEW c \in Caller, NEW m \in Method, NEW f \in File, Request(c, m, f)
      PROVE  ImagesInv'
  <2>1. /\ UNCHANGED images /\ phase[c] = "idle" /\ phase' = [phase EXCEPT ![c] = FirstStep(m)]
        /\ m \in {"GET", "HEAD"} => images + Cardinality(Wanting) < MaxImages
    BY <1>4 DEF Request, Goto, Wanting
  <2>2. CASE m \in {"GET", "HEAD"}
    <3>1. FirstStep(m) = "stat"
      BY <2>2 DEF FirstStep
    <3>2. c \in Caller \ Wanting /\ Wanting' = Wanting \cup {c}
      BY <2>1, <3>1 DEF RequestInv, Wanting, ImageWanted
    <3>3. Cardinality(Wanting') = Cardinality(Wanting) + 1 /\ Cardinality(Wanting) \in Nat
      BY <3>2, CountWanting
    <3> QED
      BY <2>1, <2>2, <3>3, FileServiceAssumption DEF ImagesInv
  <2>3. CASE m \notin {"GET", "HEAD"}
    <3>1. FirstStep(m) \in {"exists", "delete"}
      BY <2>3 DEF FirstStep, Method
    <3>2. phase'[c] # "stat" /\ \A d \in Caller : d # c => phase'[d] = phase[d]
      BY <2>1, <3>1 DEF RequestInv
    <3> QED
      BY <1>1, <2>1, <3>2
  <2> QED
    BY <2>2, <2>3
<1>5. CASE UNCHANGED connectionVars
  BY <1>5 DEF connectionVars, ImagesInv, Wanting, ImageWanted
<1> QED
  BY <1>2, <1>3, <1>4, <1>5, WriterIsPools DEF FileNext, fileVars, serviceVars

\* The variables of the service keep their types, and no more DiskFile
\* objects are created than were asked for.
THEOREM FileTypes ==
  ASSUME IsFiniteSet(Caller)
  PROVE  FileSpec => []FileTypeOK
<1>1. FileInit => BookInv /\ ImagesInv
  <2> SUFFICES ASSUME FileInit PROVE BookInv /\ ImagesInv
    OBVIOUS
  <2>1. BookInv
    BY DEF FileInit, BookInv
  <2>2. Wanting = {} /\ images = 0
    BY DEF FileInit, Wanting, ImageWanted
  <2> QED
    BY <2>1, <2>2, FS_EmptySet, FileServiceAssumption DEF ImagesInv
<1>2. SendInv /\ (BookInv /\ ImagesInv) /\ [FileNext]_fileVars => (BookInv /\ ImagesInv)'
  BY BookNext, ImagesNext DEF SendInv
<1>3. SendInv /\ BookInv /\ ImagesInv => FileTypeOK
  <2> SUFFICES ASSUME SendInv, BookInv, ImagesInv PROVE FileTypeOK
    OBVIOUS
  <2>1. images \in 0 .. MaxImages
    BY CountWanting, FileServiceAssumption DEF ImagesInv
  <2>2. \A c \in Caller : image[c] = NoImage \/ (image[c] \in Seq(Upload) /\ Len(image[c]) = size[c])
    BY DEF SendInv, AllSenders, SenderInv, HasImage
  <2>3. \A c \in Caller : wire[c] \in Seq([kind : {"whole", "chunk", "final"}, body : Seq(Upload)])
    BY DEF SendInv, SenderTypes, Part
  <2> QED
    BY <2>1, <2>2, <2>3 DEF FileTypeOK, BookInv, SendInv, RequestInv, SenderTypes, Phase
<1> QED
  BY <1>1, <1>2, <1>3, FileSends, PTL DEF FileSpec
=============================================================================
