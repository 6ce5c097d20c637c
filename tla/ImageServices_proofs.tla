------------------------- MODULE ImageServices_proofs ------------------------
(***************************************************************************)
(* Proofs about ImageServices: a handler answers once and gives back what  *)
(* it took, whichever way it goes; what it sends is what it rendered; and  *)
(* the promises of the storage pool survive handlers that free elements    *)
(* by themselves and render a second time.                                 *)
(***************************************************************************)
EXTENDS ImageServices, StoragePool_proofs

-----------------------------------------------------------------------------
(* The invariant.                                                          *)

Phase == {"idle", "check", "look", "read", "alloc", "create", "again", "bigger", "retry",
          "failed", "send", "release", "cleanup", "done", "thrown"}

TablesInv ==
  /\ phase \in [Caller -> Phase]
  /\ service \in [Caller -> Service \cup {"none"}]
  /\ reads \in [Caller -> 0 .. MaxKeys + 4]
  /\ live \in [Caller -> SUBSET Objects]
  /\ buffer \in [Caller -> Element \cup {NoBuffer}]
  /\ answered \in [Caller -> 0 .. 1]

\* A handler has an element from its allocation to its release, newBuffer is
\* the address of that element when it is rendered to or sent, and a handler
\* that has failed may have lost it already.
ElementInv(c) ==
  /\ phase[c] \in {"create", "again", "retry"} => at[c] = "fill"
  /\ phase[c] = "failed" => at[c] \in {"idle", "fill"}
  /\ phase[c] = "send" => at[c] = "push"
  /\ phase[c] = "release" => at[c] \in {"push", "refused"}
  /\ phase[c] \notin {"create", "again", "retry", "failed", "send", "release"} => at[c] = "idle"
  /\ phase[c] \in {"create", "retry", "send"} => buffer[c] = item[c].mem

\* A handler has answered, or left that to the server, when it releases its
\* element, and not before.
AnswerInv(c) ==
  answered[c] = IF phase[c] \in {"release", "cleanup", "done", "thrown"} THEN 1 ELSE 0

\* The objects that are there; the second ImageInfo of v2 comes with its
\* element.
LiveInv(c) ==
  /\ phase[c] = "idle" => reads[c] = 0
  /\ phase[c] # "idle" => service[c] # "none"
  /\ reads[c] <= MaxReads(service[c])
  /\ phase[c] = "check" =>
       live[c] \subseteq Strings \cup {Opers} /\ (Opers \in live[c] => service[c] = "v2")
  /\ phase[c] \in {"look", "done"} => live[c] \subseteq Strings
  /\ phase[c] \in {"read", "alloc"} => Extra \notin live[c]

RequestInv(c) == ElementInv(c) /\ AnswerInv(c) /\ LiveInv(c)

AllRequests == \A c \in Caller : RequestInv(c)

ImageInv == PoolInv /\ TablesInv /\ AllRequests

LEMMA ImageInvInit == ImageInit => ImageInv
<1> SUFFICES ASSUME ImageInit PROVE ImageInv
  OBVIOUS
<1>1. PoolInv
  BY PoolStartsInv DEF ImageInit
<1>2. MaxKeys + 4 \in Nat /\ 0 \in 0 .. MaxKeys + 4 /\ 0 \in 0 .. 1
  BY ImageAssumption
<1>3. TablesInv
  BY <1>2 DEF ImageInit, TablesInv, Phase
<1>4. \A c \in Caller : phase[c] = "idle" /\ at[c] = "idle" /\ answered[c] = 0
                        /\ live[c] = {} /\ reads[c] = 0 /\ service[c] = "none"
  BY DEF ImageInit, PoolInit
<1>5. ASSUME NEW c \in Caller PROVE RequestInv(c)
  BY <1>4 DEF RequestInv, ElementInv, AnswerInv, LiveInv, MaxReads
<1> QED
  BY <1>1, <1>3, <1>5 DEF ImageInv, AllRequests

-----------------------------------------------------------------------------
(* The storage pool under the services.                                    *)

\* To render is to fill the element: the address is the right one.
LEMMA RenderFills ==
  ASSUME ImageInv, NEW c \in Caller, Render(c)
  PROVE  Fill(c)
<1>1. at[c] = "fill" /\ buffer[c] = item[c].mem
  BY DEF ImageInv, AllRequests, RequestInv, ElementInv, Render
<1> QED
  BY <1>1 DEF Render, Fill

\* Elements are freed by a handler that has one.
LEMMA FreesOwnElement ==
  ASSUME ImageInv, NEW c \in Caller, FreeSmall(c) \/ FreeThumbnail(c) \/ SendFailure(c)
  PROVE  UNCHANGED poolVars \/ (FreeElement(c) /\ item[c] # NoItem)
<1>1. CASE SendFailure(c)
  BY <1>1 DEF SendFailure
<1>2. CASE FreeSmall(c) \/ FreeThumbnail(c)
  <2>1. FreeElement(c) /\ phase[c] \in {"again", "release"}
    BY <1>2 DEF FreeSmall, FreeThumbnail, Goto
  <2>2. at[c] # "idle"
    BY <2>1 DEF ImageInv, AllRequests, RequestInv, ElementInv
  <2> QED
    BY <2>1, <2>2 DEF ImageInv, PoolInv, OwnInv, PlacesInv
<1> QED
  BY <1>1, <1>2

LEMMA ServicesUsePool ==
  ASSUME ImageInv, [ImageNext]_<<poolVars, imageVars>>
  PROVE  [PoolNext]_poolVars \/ \E c \in Caller : FreeElement(c) /\ item[c] # NoItem
<1>1. ASSUME NEW c \in Caller, HandlerStep(c)
      PROVE  CallerStep(c) \/ UNCHANGED poolVars \/ (FreeElement(c) /\ item[c] # NoItem)
  <2>1. CASE \/ Reject(c) \/ Admit(c) \/ Finish(c) \/ Look(c) \/ Read(c) \/ ReadThrows(c)
             \/ NotFound(c) \/ Found(c) \/ AllocFails(c) \/ RenderFails(c) \/ AllocBiggerFails(c)
             \/ SendImage(c) \/ Cleanup(c)
    BY <2>1 DEF Reject, Admit, Finish, Look, Read, ReadThrows, NotFound, Found, AllocFails,
                RenderFails, AllocBiggerFails, SendImage, Cleanup
  <2>2. CASE AllocElement(c) \/ AllocBigger(c) \/ SaveThumbnail(c)
    BY <2>2 DEF AllocElement, AllocBigger, SaveThumbnail, CallerStep
  <2>3. CASE Render(c)
    BY <2>3, RenderFills DEF CallerStep
  <2>4. CASE FreeSmall(c) \/ FreeThumbnail(c) \/ SendFailure(c)
    BY <2>4, FreesOwnElement
  <2> QED
    BY <1>1, <2>1, <2>2, <2>3, <2>4 DEF HandlerStep
<1>2. ASSUME NEW c \in Caller, NEW s \in Service, Request(c, s) PROVE UNCHANGED poolVars
  BY <1>2 DEF Request
<1> QED
  BY <1>1, <1>2 DEF ImageNext, PoolNext

\* A caller that frees its element itself.
LEMMA FreeElementMoves ==
  ASSUME OwnInv, NEW c \in Caller, FreeElement(c), item[c] # NoItem
  PROVE  /\ item[c] \in Item /\ item[c].mem \in Element /\ c \in Offering
         /\ Offering' = Offering \ {c} /\ Carrying' = Carrying
         /\ tasks' = tasks /\ task' = task
         /\ \A d \in Offering' : item'[d] = item[d] /\ at'[d] = at[d]
<1>1. /\ at' = [at EXCEPT ![c] = "idle"] /\ item' = [item EXCEPT ![c] = NoItem]
      /\ tasks' = tasks /\ task' = task
  BY DEF FreeElement, writerVars
<1>2. item[c] \in Item /\ c \in Offering
  BY DEF OwnInv, ItemsInv, Offering
<1>3. /\ Offering' = Offering \ {c} /\ Carrying' = Carrying
      /\ \A d \in Offering' : item'[d] = item[d] /\ at'[d] = at[d]
  BY <1>1 DEF OwnInv, ItemsInv, PlacesInv, Offering, Carrying
<1> QED
  BY <1>1, <1>2, <1>3 DEF Item

LEMMA FreeElementInv ==
  ASSUME PoolInv, NEW c \in Caller, FreeElement(c), item[c] # NoItem
  PROVE  PoolInv'
<1>1. /\ free' = free \cup {item[c].mem} /\ at' = [at EXCEPT ![c] = "idle"]
      /\ item' = [item EXCEPT ![c] = NoItem]
      /\ UNCHANGED <<disk, stream, data, tasks, running, wpc, task, saved, saveFailed, discarded,
                     stage, joining>>
  BY DEF FreeElement, storageVars, writerVars, counters, ownerVars
<1>2. /\ item[c] \in Item /\ item[c].mem \in Element /\ c \in Offering
      /\ Offering' = Offering \ {c} /\ Carrying' = Carrying
      /\ \A d \in Offering' : item'[d] = item[d] /\ at'[d] = at[d]
  BY FreeElementMoves DEF PoolInv
<1>3. OwnInv'
  <2>1. ItemsInv' /\ PlacesInv'
    BY <1>1, <1>2 DEF PoolInv, OwnInv, ItemsInv, PlacesInv
  <2>2. ApartInv'
    BY <1>1, <1>2 DEF PoolInv, OwnInv, ApartInv
  <2>3. TakenInv'
    BY <1>1, <1>2 DEF PoolInv, OwnInv, ApartInv, TakenInv
  <2>4. DataInv'
    BY <1>1, <1>2 DEF PoolInv, OwnInv, DataInv
  <2> QED
    BY <2>1, <2>2, <2>3, <2>4 DEF OwnInv
<1>4. StopInv'
  BY <1>1 DEF PoolInv, StopInv
<1>5. UploadsApart'
  BY <1>1, <1>2 DEF PoolInv, UploadsApart
<1>6. FilesInv' /\ CountersInv' /\ ControlInv'
  BY <1>1 DEF PoolInv, FilesInv, CountersInv, ControlInv
<1> QED
  BY <1>3, <1>4, <1>5, <1>6 DEF PoolInv

LEMMA PoolInvNext == ImageInv /\ [ImageNext]_<<poolVars, imageVars>> => PoolInv'
BY ServicesUsePool, FreeElementInv, PoolKeepsInv DEF ImageInv

-----------------------------------------------------------------------------
(* Requests.                                                               *)

Undisturbed(c) ==
  /\ phase'[c] = phase[c] /\ service'[c] = service[c] /\ reads'[c] = reads[c]
  /\ live'[c] = live[c] /\ buffer'[c] = buffer[c] /\ answered'[c] = answered[c]
  /\ at'[c] = at[c] /\ item'[c] = item[c]

LEMMA UndisturbedKeeps ==
  ASSUME NEW c \in Caller, RequestInv(c), Undisturbed(c)
  PROVE  RequestInv(c)'
BY DEF Undisturbed, RequestInv, ElementInv, AnswerInv, LiveInv, MaxReads

\* What alloc does to the caller, and to nobody else.
LEMMA AllocGives ==
  ASSUME OwnInv, NEW c \in Caller, Alloc(c)
  PROVE  /\ at[c] = "idle" /\ at' = [at EXCEPT ![c] = "fill"]
         /\ item'[c] \in Item /\ item'[c].mem \in Element
         /\ \E i : item' = [item EXCEPT ![c] = i]
<1>1. PICK e \in free, f \in File, n \in 0 .. MaxLength, u \in Upload :
        item' = [item EXCEPT ![c] = [file |-> f, mem |-> e, len |-> n, upload |-> u]]
  BY DEF Alloc
<1> DEFINE new == [file |-> f, mem |-> e, len |-> n, upload |-> u]
<1>2. new \in Item /\ new.mem \in Element
  BY DEF OwnInv, ItemsInv, Item
<1> HIDE DEF new
<1>3. item' = [item EXCEPT ![c] = new]
  BY <1>1 DEF new
<1>4. item'[c] = new
  BY <1>3 DEF OwnInv, ItemsInv
<1> QED
  BY <1>2, <1>3, <1>4 DEF Alloc

\* The steps before there is an element, and the last ones.
Outside(c) ==
  \/ Reject(c) \/ Admit(c) \/ Finish(c) \/ Look(c) \/ Read(c) \/ ReadThrows(c) \/ NotFound(c)
  \/ Found(c) \/ AllocFails(c) \/ Cleanup(c)

LEMMA ImagesOfLive ==
  ASSUME TablesInv, NEW c \in Caller
  PROVE  live[c] \ (Images(c) \cup {Opers, Extra}) \subseteq Strings
BY DEF TablesInv, Objects, Images, Image

LEMMA OutsideConcernsOne ==
  ASSUME TablesInv, NEW c \in Caller, Outside(c)
  PROVE  \A d \in Caller : d # c => Undisturbed(d)
<1>1. UNCHANGED <<at, item>>
  BY DEF Outside, Reject, Admit, Finish, Look, Read, ReadThrows, NotFound, Found, AllocFails,
         Cleanup, poolVars, callerVars
<1>2. CASE Finish(c)
  BY <1>1, <1>2 DEF Finish, TablesInv, Undisturbed
<1>3. CASE ~ Finish(c)
  <2>1. UNCHANGED <<service, buffer>>
    BY <1>3 DEF Outside, Reject, Admit, Look, Read, ReadThrows, NotFound, Found, AllocFails,
                Cleanup, requestVars
  <2>2. /\ phase' = phase \/ \E p : phase' = [phase EXCEPT ![c] = p]
        /\ answered' = answered \/ \E n : answered' = [answered EXCEPT ![c] = n]
    BY <1>3 DEF Outside, Reject, Admit, Look, Read, ReadThrows, NotFound, Found, AllocFails,
                Cleanup, Goto, Answer
  <2>3. /\ reads' = reads \/ \E n : reads' = [reads EXCEPT ![c] = n]
        /\ live' = live \/ \E o : live' = [live EXCEPT ![c] = o]
    BY <1>3 DEF Outside, Reject, Admit, Look, Read, ReadThrows, NotFound, Found, AllocFails,
                Cleanup, Delete
  <2> QED
    BY <1>1, <2>1, <2>2, <2>3 DEF TablesInv, Undisturbed
<1> QED
  BY <1>2, <1>3

\* Answering is part of the steps to a phase that has answered.
LEMMA AnswersOnce ==
  ASSUME TablesInv, NEW c \in Caller, AnswerInv(c), Answer(c),
         phase[c] \notin {"release", "cleanup", "done", "thrown"}
  PROVE  answered'[c] = 1 /\ answered' \in [Caller -> 0 .. 1]
BY DEF TablesInv, AnswerInv, Answer

LEMMA OutsideKeeps ==
  ASSUME ImageInv, NEW c \in Caller, Outside(c)
  PROVE  TablesInv' /\ RequestInv(c)'
<1>1. RequestInv(c) /\ TablesInv
  BY DEF ImageInv, AllRequests
<1>2. UNCHANGED <<at, item>>
  BY DEF Outside, Reject, Admit, Finish, Look, Read, ReadThrows, NotFound, Found, AllocFails,
         Cleanup, poolVars, callerVars
<1>3. CASE Reject(c) \/ NotFound(c) \/ AllocFails(c)
  <2>1. /\ phase[c] \in {"check", "read", "alloc"} /\ phase' = [phase EXCEPT ![c] = "done"]
        /\ Answer(c) /\ UNCHANGED <<service, buffer, reads>>
    BY <1>3 DEF Reject, NotFound, AllocFails, Goto, requestVars
  <2>2. PICK o \in SUBSET Strings : live' = [live EXCEPT ![c] = o]
    <3>1. CASE Reject(c)
      <4>1. live' = [live EXCEPT ![c] = @ \ {Opers}] /\ phase[c] = "check"
        BY <3>1 DEF Reject, Delete, Goto
      <4>2. live[c] \ {Opers} \subseteq Strings
        BY <1>1, <4>1 DEF RequestInv, LiveInv
      <4> QED
        BY <4>1, <4>2
    <3>2. CASE NotFound(c) \/ AllocFails(c)
      <4>1. /\ phase[c] \in {"read", "alloc"}
            /\ live' = [live EXCEPT ![c] = @ \ (Images(c) \cup {Opers})]
        BY <3>2 DEF NotFound, AllocFails, Delete, Goto
      <4>2. live[c] \ (Images(c) \cup {Opers}) \subseteq Strings
        BY <1>1, <4>1, ImagesOfLive DEF RequestInv, LiveInv
      <4> QED
        BY <4>1, <4>2
    <3> QED
      BY <1>3, <3>1, <3>2
  <2>3. answered'[c] = 1 /\ answered' \in [Caller -> 0 .. 1]
    BY <1>1, <2>1, AnswersOnce DEF RequestInv
  <2>4. phase'[c] = "done" /\ live'[c] \subseteq Strings
    BY <1>1, <2>1, <2>2 DEF TablesInv
  <2>5. TablesInv'
    BY <1>1, <2>1, <2>2, <2>3 DEF TablesInv, Phase, Objects
  <2>6. at[c] = "idle"
    BY <1>1, <2>1 DEF RequestInv, ElementInv
  <2> QED
    BY <1>1, <1>2, <2>1, <2>3, <2>4, <2>5, <2>6
       DEF RequestInv, ElementInv, AnswerInv, LiveInv, MaxReads
<1>4. CASE Look(c)
  <2>1. /\ phase[c] = "look" /\ UNCHANGED <<service, buffer, reads, live>>
        /\ \/ phase' = [phase EXCEPT ![c] = "done"] /\ Answer(c)
           \/ phase' = [phase EXCEPT ![c] = "read"] /\ UNCHANGED answered
    BY <1>4 DEF Look, Goto, requestVars
  <2>2. at[c] = "idle" /\ live[c] \subseteq Strings /\ answered[c] = 0
    BY <1>1, <2>1 DEF RequestInv, ElementInv, AnswerInv, LiveInv
  <2>3. \/ phase'[c] = "done" /\ answered'[c] = 1
        \/ phase'[c] = "read" /\ answered'[c] = 0
    BY <1>1, <2>1, <2>2, AnswersOnce DEF RequestInv, TablesInv
  <2>4. TablesInv'
    BY <1>1, <2>1, AnswersOnce DEF RequestInv, TablesInv, Phase
  <2>5. Extra \notin live[c]
    BY <2>2 DEF Strings, Extra
  <2> QED
    BY <1>1, <1>2, <2>1, <2>2, <2>3, <2>4, <2>5
       DEF RequestInv, ElementInv, AnswerInv, LiveInv, MaxReads
<1>5. CASE ReadThrows(c)
  <2>1. /\ phase[c] \in {"look", "read"} /\ UNCHANGED <<service, buffer, reads, live>>
        /\ phase' = [phase EXCEPT ![c] = "thrown"] /\ Answer(c)
    BY <1>5 DEF ReadThrows, requestVars
  <2>2. at[c] = "idle"
    BY <1>1, <2>1 DEF RequestInv, ElementInv
  <2>3. phase'[c] = "thrown" /\ answered'[c] = 1
    BY <1>1, <2>1, AnswersOnce DEF RequestInv, TablesInv
  <2>4. TablesInv'
    BY <1>1, <2>1, AnswersOnce DEF RequestInv, TablesInv, Phase
  <2> QED
    BY <1>1, <1>2, <2>1, <2>2, <2>3, <2>4
       DEF RequestInv, ElementInv, AnswerInv, LiveInv, MaxReads
<1>6. CASE Admit(c)
  <2>1. /\ phase[c] = "check" /\ UNCHANGED <<service, buffer, reads, live, answered>>
        /\ phase' = [phase EXCEPT ![c] = FirstPhase(service[c])]
    BY <1>6 DEF Admit, Goto, requestVars
  <2>2. service[c] \in Service
    BY <1>1, <2>1 DEF RequestInv, LiveInv, TablesInv
  <2>3. /\ FirstPhase(service[c]) \in {"look", "alloc", "read"}
        /\ FirstPhase(service[c]) = "look" => service[c] # "v2"
    BY <2>2 DEF Service, FirstPhase
  <2>4. /\ at[c] = "idle" /\ answered[c] = 0
        /\ live[c] \subseteq Strings \cup {Opers} /\ (Opers \in live[c] => service[c] = "v2")
    BY <1>1, <2>1 DEF RequestInv, ElementInv, AnswerInv, LiveInv
  <2>5. TablesInv'
    BY <1>1, <2>1, <2>3 DEF TablesInv, Phase
  <2>6. phase'[c] = FirstPhase(service[c])
    BY <1>1, <2>1 DEF TablesInv
  <2>7. Extra \notin live[c] /\ (service[c] # "v2" => live[c] \subseteq Strings)
    BY <2>4 DEF Strings, Opers, Extra
  <2> QED
    BY <1>1, <1>2, <2>1, <2>3, <2>4, <2>5, <2>6, <2>7
       DEF RequestInv, ElementInv, AnswerInv, LiveInv, MaxReads
<1>7. CASE Finish(c)
  <2>1. /\ phase[c] \in {"done", "thrown"} /\ phase'[c] = "idle" /\ service'[c] = "none"
        /\ reads'[c] = 0 /\ answered'[c] = 0
    BY <1>1, <1>7 DEF Finish, TablesInv
  <2>2. at[c] = "idle"
    BY <1>1, <2>1 DEF RequestInv, ElementInv
  <2>3. 0 \in 0 .. MaxKeys + 4
    BY ImageAssumption
  <2>4. TablesInv'
    BY <1>1, <1>7, <2>3 DEF Finish, TablesInv, Phase
  <2> QED
    BY <1>2, <2>1, <2>2, <2>4 DEF RequestInv, ElementInv, AnswerInv, LiveInv, MaxReads
<1>8. CASE Read(c)
  <2>1. /\ phase[c] = "read" /\ UNCHANGED <<phase, service, buffer, answered>>
        /\ reads[c] < MaxReads(service[c]) /\ reads' = [reads EXCEPT ![c] = @ + 1]
        /\ live' = live \/ live' = [live EXCEPT ![c] = @ \cup {Image(reads[c] + 1)}]
    BY <1>8 DEF Read, ReadsOn, requestVars
  <2>2. /\ MaxReads(service[c]) \in 0 .. MaxKeys + 4 /\ reads[c] \in Nat
    BY <1>1, ImageAssumption DEF TablesInv, Service, MaxReads
  <2>3. /\ reads[c] + 1 \in 1 .. MaxKeys + 4 /\ reads[c] + 1 <= MaxReads(service[c])
    BY <2>1, <2>2, ImageAssumption
  <2>4. Image(reads[c] + 1) \in Objects /\ Image(reads[c] + 1) # Extra
    BY <2>3 DEF Objects, Image, Extra
  <2>5. TablesInv' /\ reads'[c] = reads[c] + 1
    <3>1. reads[c] + 1 \in 0 .. MaxKeys + 4
      BY <2>3
    <3>2. reads' \in [Caller -> 0 .. MaxKeys + 4] /\ reads'[c] = reads[c] + 1
      BY <1>1, <2>1, <3>1 DEF TablesInv
    <3>3. live' \in [Caller -> SUBSET Objects]
      BY <1>1, <2>1, <2>4 DEF TablesInv
    <3> QED
      BY <1>1, <2>1, <3>2, <3>3 DEF TablesInv
  <2>6. Extra \notin live[c]
    BY <1>1, <2>1 DEF RequestInv, LiveInv
  <2>7. Extra \notin live'[c]
    BY <1>1, <2>1, <2>4, <2>6 DEF TablesInv
  <2>8. ElementInv(c)' /\ AnswerInv(c)'
    BY <1>1, <1>2, <2>1 DEF RequestInv, ElementInv, AnswerInv
  <2>9. LiveInv(c)'
    <3>1. phase'[c] = "read" /\ service'[c] = service[c] /\ service[c] # "none"
      BY <1>1, <2>1 DEF RequestInv, LiveInv
    <3> QED
      BY <2>3, <2>5, <2>7, <3>1 DEF LiveInv, MaxReads
  <2> QED
    BY <2>5, <2>8, <2>9 DEF RequestInv
<1>9. CASE Found(c)
  <2>1. /\ phase[c] = "read" /\ UNCHANGED <<service, buffer, reads, live, answered>>
        /\ phase' = [phase EXCEPT ![c] = "alloc"]
    BY <1>9 DEF Found, Goto, requestVars
  <2>2. TablesInv' /\ phase'[c] = "alloc"
    BY <1>1, <2>1 DEF TablesInv, Phase
  <2> QED
    BY <1>1, <1>2, <2>1, <2>2 DEF RequestInv, ElementInv, AnswerInv, LiveInv, MaxReads
<1>10. CASE Cleanup(c)
  <2>1. /\ phase[c] = "cleanup" /\ UNCHANGED <<service, buffer, reads, answered>>
        /\ phase' = [phase EXCEPT ![c] = "done"]
        /\ live' = [live EXCEPT ![c] = @ \ (Images(c) \cup {Opers, Extra})]
    BY <1>10 DEF Cleanup, Goto, Delete, requestVars
  <2>2. PICK o \in SUBSET Strings : live' = [live EXCEPT ![c] = o]
    BY <1>1, <2>1, ImagesOfLive
  <2>3. TablesInv' /\ phase'[c] = "done" /\ live'[c] \subseteq Strings
    BY <1>1, <2>1, <2>2 DEF TablesInv, Phase, Objects
  <2> QED
    BY <1>1, <1>2, <2>1, <2>3 DEF RequestInv, ElementInv, AnswerInv, LiveInv, MaxReads
<1> QED
  BY <1>3, <1>4, <1>5, <1>6, <1>7, <1>8, <1>9, <1>10 DEF Outside

\* The steps of a handler that has, or is getting, an element.
Inside(c) ==
  \/ AllocElement(c) \/ Render(c) \/ RenderFails(c) \/ FreeSmall(c) \/ AllocBigger(c)
  \/ AllocBiggerFails(c) \/ SendFailure(c) \/ SendImage(c) \/ SaveThumbnail(c) \/ FreeThumbnail(c)

LEMMA InsideConcernsOne ==
  ASSUME ImageInv, NEW c \in Caller, Inside(c)
  PROVE  /\ UNCHANGED <<service, reads>>
         /\ \A d \in Caller : d # c => Undisturbed(d)
<1>1. UNCHANGED <<service, reads>>
  BY DEF Inside, AllocElement, Render, RenderFails, FreeSmall, AllocBigger, AllocBiggerFails,
         SendFailure, SendImage, SaveThumbnail, FreeThumbnail, requestVars
<1>2. /\ phase' = phase \/ \E p : phase' = [phase EXCEPT ![c] = p]
      /\ answered' = answered \/ \E n : answered' = [answered EXCEPT ![c] = n]
  BY DEF Inside, AllocElement, Render, RenderFails, FreeSmall, AllocBigger, AllocBiggerFails,
         SendFailure, SendImage, SaveThumbnail, FreeThumbnail, Goto, Answer
<1>3. /\ live' = live \/ \E o : live' = [live EXCEPT ![c] = o]
      /\ buffer' = buffer \/ \E e : buffer' = [buffer EXCEPT ![c] = e]
  BY DEF Inside, AllocElement, Render, RenderFails, FreeSmall, AllocBigger, AllocBiggerFails,
         SendFailure, SendImage, SaveThumbnail, FreeThumbnail, requestVars
<1>4. /\ at' = at \/ \E p : at' = [at EXCEPT ![c] = p]
      /\ item' = item \/ \E i : item' = [item EXCEPT ![c] = i]
  <2>1. CASE AllocElement(c) \/ AllocBigger(c)
    <3>1. Alloc(c)
      BY <2>1 DEF AllocElement, AllocBigger
    <3> QED
      BY <3>1, AllocGives DEF ImageInv, PoolInv
  <2>2. CASE ~ (AllocElement(c) \/ AllocBigger(c))
    BY <2>2 DEF Inside, Render, RenderFails, FreeSmall, AllocBiggerFails, SendFailure, SendImage,
                SaveThumbnail, FreeThumbnail, FreeElement, Accept, Refuse, Discard, poolVars,
                callerVars
  <2> QED
    BY <2>1, <2>2
<1> QED
  BY <1>1, <1>2, <1>3, <1>4
     DEF ImageInv, TablesInv, PoolInv, OwnInv, ItemsInv, PlacesInv, Undisturbed

\* An inside step changes the tables within their types, and what LiveInv
\* says of the phases that it leads to is little.
LEMMA InsideTables ==
  ASSUME ImageInv, NEW c \in Caller, Inside(c)
  PROVE  TablesInv' /\ LiveInv(c)'
<1>1. RequestInv(c) /\ TablesInv
  BY DEF ImageInv, AllRequests
<1>2. UNCHANGED <<service, reads>>
  BY InsideConcernsOne
<1>3. \E p \in {"create", "again", "bigger", "retry", "failed", "send", "release", "cleanup"} :
        phase' = [phase EXCEPT ![c] = p]
  <2>1. CASE SaveThumbnail(c) /\ Refuse(c) /\ UNCHANGED phase /\ phase[c] = "release"
    BY <1>1, <2>1 DEF TablesInv
  <2>2. CASE ~ (SaveThumbnail(c) /\ Refuse(c) /\ UNCHANGED phase /\ phase[c] = "release")
    BY <2>2 DEF Inside, AllocElement, Render, RenderFails, FreeSmall, AllocBigger,
                AllocBiggerFails, SendFailure, SendImage, SaveThumbnail, FreeThumbnail, Goto
  <2> QED
    BY <2>1, <2>2
<1>4. phase' \in [Caller -> Phase]
      /\ phase'[c] \in {"create", "again", "bigger", "retry", "failed", "send", "release",
                        "cleanup"}
  BY <1>1, <1>3 DEF TablesInv, Phase
<1>5. phase[c] # "idle"
  BY DEF Inside, AllocElement, Render, RenderFails, FreeSmall, AllocBigger, AllocBiggerFails,
         SendFailure, SendImage, SaveThumbnail, FreeThumbnail, Goto
<1>6. live' \in [Caller -> SUBSET Objects]
  <2>1. live' = live \/ live' = [live EXCEPT ![c] = @ \cup {Extra}]
    BY DEF Inside, AllocElement, Render, RenderFails, FreeSmall, AllocBigger, AllocBiggerFails,
           SendFailure, SendImage, SaveThumbnail, FreeThumbnail
  <2> QED
    BY <1>1, <2>1 DEF TablesInv, Objects
<1>7. buffer' \in [Caller -> Element \cup {NoBuffer}]
  <2>1. CASE AllocElement(c) \/ AllocBigger(c)
    <3>1. Alloc(c) /\ buffer' = [buffer EXCEPT ![c] = item'[c].mem]
      BY <2>1 DEF AllocElement, AllocBigger
    <3>2. item'[c].mem \in Element
      BY <3>1, AllocGives DEF ImageInv, PoolInv
    <3> QED
      BY <1>1, <3>1, <3>2 DEF TablesInv
  <2>2. CASE ~ (AllocElement(c) \/ AllocBigger(c))
    <3>1. buffer' = buffer \/ buffer' = [buffer EXCEPT ![c] = NoBuffer]
      BY <2>2 DEF Inside, Render, RenderFails, FreeSmall, AllocBiggerFails, SendFailure, SendImage,
                  SaveThumbnail, FreeThumbnail, requestVars
    <3> QED
      BY <1>1, <3>1 DEF TablesInv
  <2> QED
    BY <2>1, <2>2
<1>8. answered' \in [Caller -> 0 .. 1]
  <2>1. CASE SendFailure(c) \/ SendImage(c)
    BY <1>1, <2>1, AnswersOnce DEF SendFailure, SendImage, Goto, RequestInv
  <2>2. CASE ~ (SendFailure(c) \/ SendImage(c))
    BY <1>1, <2>2
       DEF TablesInv, Inside, AllocElement, Render, RenderFails, FreeSmall, AllocBigger,
           AllocBiggerFails, SaveThumbnail, FreeThumbnail
  <2> QED
    BY <2>1, <2>2
<1>9. LiveInv(c)'
  BY <1>1, <1>2, <1>4, <1>5 DEF RequestInv, LiveInv, MaxReads
<1> QED
  BY <1>1, <1>2, <1>4, <1>6, <1>7, <1>8, <1>9 DEF TablesInv

LEMMA InsideKeeps ==
  ASSUME ImageInv, NEW c \in Caller, Inside(c)
  PROVE  ElementInv(c)' /\ AnswerInv(c)'
<1>1. RequestInv(c) /\ TablesInv /\ ItemsInv /\ PlacesInv
  BY DEF ImageInv, AllRequests, PoolInv, OwnInv
<1>2. CASE AllocElement(c) \/ AllocBigger(c)
  <2>1. /\ Alloc(c) /\ buffer' = [buffer EXCEPT ![c] = item'[c].mem] /\ UNCHANGED answered
        /\ phase[c] \in {"alloc", "bigger"}
        /\ \E p \in {"create", "retry"} : phase' = [phase EXCEPT ![c] = p]
    BY <1>2 DEF AllocElement, AllocBigger, Goto
  <2>2. at' = [at EXCEPT ![c] = "fill"]
    BY <1>1, <2>1 DEF Alloc
  <2>3. at'[c] = "fill" /\ buffer'[c] = item'[c].mem /\ phase'[c] \in {"create", "retry"}
    BY <1>1, <2>1, <2>2 DEF TablesInv, PlacesInv
  <2> QED
    BY <1>1, <2>1, <2>3 DEF RequestInv, ElementInv, AnswerInv
<1>3. CASE Render(c)
  <2>1. /\ at'[c] = "push" /\ phase'[c] = "send" /\ phase[c] \in {"create", "retry"}
        /\ UNCHANGED <<item, buffer, answered>>
    BY <1>1, <1>3 DEF Render, TablesInv, PlacesInv, requestVars
  <2> QED
    BY <1>1, <2>1 DEF RequestInv, ElementInv, AnswerInv
<1>4. CASE RenderFails(c)
  <2>1. /\ phase'[c] \in {"failed", "again"} /\ phase[c] \in {"create", "retry"}
        /\ UNCHANGED <<at, answered>>
    BY <1>1, <1>4 DEF RenderFails, TablesInv, Goto, poolVars, callerVars
  <2> QED
    BY <1>1, <2>1 DEF RequestInv, ElementInv, AnswerInv
<1>5. CASE AllocBiggerFails(c)
  <2>1. phase'[c] = "failed" /\ phase[c] = "bigger" /\ UNCHANGED <<at, answered>>
    BY <1>1, <1>5 DEF AllocBiggerFails, TablesInv, Goto, poolVars, callerVars
  <2> QED
    BY <1>1, <2>1 DEF RequestInv, ElementInv, AnswerInv
<1>6. CASE FreeSmall(c) \/ FreeThumbnail(c)
  <2>1. /\ at'[c] = "idle" /\ UNCHANGED answered
        /\ \/ phase[c] = "again" /\ phase'[c] = "bigger"
           \/ phase[c] = "release" /\ phase'[c] = "cleanup"
    BY <1>1, <1>6 DEF FreeSmall, FreeThumbnail, FreeElement, TablesInv, PlacesInv, Goto
  <2> QED
    BY <1>1, <2>1 DEF RequestInv, ElementInv, AnswerInv
<1>7. CASE SendFailure(c)
  <2>1. /\ phase[c] = "failed" /\ phase'[c] = "cleanup" /\ Answer(c)
        /\ at'[c] = "idle" \/ (item[c] = NoItem /\ at'[c] = at[c])
    BY <1>1, <1>7
       DEF SendFailure, FreeElement, TablesInv, PlacesInv, Goto, poolVars, callerVars
  <2>2. at'[c] = "idle"
    BY <1>1, <2>1 DEF PlacesInv
  <2>3. answered'[c] = 1
    BY <1>1, <2>1, AnswersOnce DEF RequestInv
  <2> QED
    BY <2>1, <2>2, <2>3 DEF ElementInv, AnswerInv
<1>8. CASE SendImage(c)
  <2>1. phase[c] = "send" /\ phase'[c] = "release" /\ Answer(c) /\ UNCHANGED <<at, item>>
    BY <1>1, <1>8 DEF SendImage, TablesInv, Goto, poolVars, callerVars
  <2>2. answered'[c] = 1
    BY <1>1, <2>1, AnswersOnce DEF RequestInv
  <2> QED
    BY <1>1, <2>1, <2>2 DEF RequestInv, ElementInv, AnswerInv
<1>9. CASE SaveThumbnail(c)
  <2>1. /\ phase[c] = "release" /\ UNCHANGED answered
        /\ \/ phase'[c] = "cleanup" /\ at'[c] = "idle"
           \/ phase'[c] = "release" /\ at'[c] = "refused"
    BY <1>1, <1>9 DEF SaveThumbnail, Accept, Discard, Refuse, TablesInv, PlacesInv, Goto
  <2> QED
    BY <1>1, <2>1 DEF RequestInv, ElementInv, AnswerInv
<1> QED
  BY <1>2, <1>3, <1>4, <1>5, <1>6, <1>7, <1>8, <1>9 DEF Inside

LEMMA ArrivalKeeps ==
  ASSUME ImageInv, NEW c \in Caller, NEW s \in Service, Request(c, s)
  PROVE  TablesInv' /\ AllRequests'
<1>1. TablesInv /\ AllRequests
  BY DEF ImageInv
<1>2. /\ phase[c] = "idle" /\ phase' = [phase EXCEPT ![c] = "check"]
      /\ service' = [service EXCEPT ![c] = s]
      /\ UNCHANGED <<reads, buffer, answered, at, item>>
  BY DEF Request, Goto, poolVars, callerVars
<1>3. PICK objects \in Parsing(s) : live' = [live EXCEPT ![c] = objects]
  BY DEF Request
<1>4. objects \subseteq Strings \cup {Opers} /\ (Opers \in objects => s = "v2")
  BY <1>3 DEF Parsing, Strings
<1>5. TablesInv'
  BY <1>1, <1>2, <1>3, <1>4 DEF TablesInv, Phase, Objects
<1>6. ASSUME NEW d \in Caller, d # c PROVE RequestInv(d)'
  <2>1. Undisturbed(d)
    BY <1>1, <1>2, <1>3, <1>6 DEF TablesInv, Undisturbed
  <2> QED
    BY <1>1, <2>1, UndisturbedKeeps DEF AllRequests
<1>7. RequestInv(c)'
  <2>1. /\ phase'[c] = "check" /\ service'[c] = s /\ reads'[c] = reads[c]
        /\ live'[c] \subseteq Strings \cup {Opers} /\ (Opers \in live'[c] => s = "v2")
    BY <1>1, <1>2, <1>3, <1>4 DEF TablesInv
  <2>2. RequestInv(c) /\ reads[c] = 0 /\ at[c] = "idle" /\ answered[c] = 0
    BY <1>1, <1>2 DEF AllRequests, RequestInv, ElementInv, AnswerInv, LiveInv
  <2>3. MaxReads(s) >= 0 /\ s # "none"
    BY ImageAssumption DEF MaxReads, Service
  <2> QED
    BY <1>2, <2>1, <2>2, <2>3 DEF RequestInv, ElementInv, AnswerInv, LiveInv, MaxReads
<1> QED
  BY <1>5, <1>6, <1>7 DEF AllRequests

LEMMA ImageInvNext == ImageInv /\ [ImageNext]_<<poolVars, imageVars>> => ImageInv'
<1> SUFFICES ASSUME ImageInv, [ImageNext]_<<poolVars, imageVars>>
             PROVE  TablesInv' /\ AllRequests'
  BY PoolInvNext DEF ImageInv
<1>1. ASSUME NEW c \in Caller, NEW s \in Service, Request(c, s)
      PROVE  TablesInv' /\ AllRequests'
  BY <1>1, ArrivalKeeps
<1>2. ASSUME NEW c \in Caller, HandlerStep(c) PROVE TablesInv' /\ AllRequests'
  <2>1. Outside(c) \/ Inside(c)
    BY <1>2 DEF HandlerStep, Outside, Inside
  <2>2. TablesInv' /\ RequestInv(c)'
    BY <2>1, OutsideKeeps, InsideTables, InsideKeeps DEF RequestInv
  <2>3. \A d \in Caller : d # c => Undisturbed(d)
    BY <2>1, OutsideConcernsOne, InsideConcernsOne DEF ImageInv
  <2>4. ASSUME NEW d \in Caller PROVE RequestInv(d)'
    BY <2>2, <2>3, UndisturbedKeeps DEF ImageInv, AllRequests
  <2> QED
    BY <2>2, <2>4 DEF AllRequests
<1>3. CASE UNCHANGED imageVars /\ UNCHANGED <<at, item>>
  <2>1. TablesInv'
    BY <1>3 DEF ImageInv, TablesInv, imageVars
  <2>2. ASSUME NEW d \in Caller PROVE RequestInv(d)'
    <3>1. Undisturbed(d)
      BY <1>3 DEF Undisturbed, imageVars
    <3> QED
      BY <3>1, UndisturbedKeeps DEF ImageInv, AllRequests
  <2> QED
    BY <2>1, <2>2 DEF AllRequests
<1>4. ASSUME NEW w \in Writer, WriterStep(w) PROVE UNCHANGED <<at, item>>
  BY <1>4 DEF WriterStep, CheckRunning, PopTask, PopNothing, SaveOpen, SaveWrite, SaveResult,
              FreeTask, callerVars
<1>5. ASSUME Destroy \/ OwnerStep \/ Terminated PROVE UNCHANGED <<at, item>>
  BY <1>5 DEF Destroy, OwnerStep, Terminated, Joined, ClearTasks, callerVars, poolVars
<1>6. CASE UNCHANGED <<poolVars, imageVars>>
  BY <1>3, <1>6 DEF poolVars, callerVars
<1> QED
  BY <1>1, <1>2, <1>3, <1>4, <1>5, <1>6 DEF ImageNext

\* The invariant holds in every state of the services.
THEOREM ImagesKeepInv == ImageSpec => []ImageInv
BY ImageInvInit, ImageInvNext, PTL DEF ImageSpec

-----------------------------------------------------------------------------
(* What the services promise.                                              *)

LEMMA TypesFromTables == TablesInv /\ AllRequests => ImageTypeOK
<1> SUFFICES ASSUME TablesInv, AllRequests PROVE ImageTypeOK
  OBVIOUS
<1>1. \A c \in Caller : reads[c] <= MaxReads(service[c])
  BY DEF AllRequests, RequestInv, LiveInv
<1>2. answered \in [Caller -> 0 .. 2]
  BY DEF TablesInv
<1> QED
  BY <1>1, <1>2 DEF TablesInv, ImageTypeOK, Phase

\* A handler keeps its tables in order, and reads no more images than its
\* service needs.
THEOREM ImageTypes == ImageSpec => []ImageTypeOK
BY TypesFromTables, ImagesKeepInv, PTL DEF ImageInv

\* A request is answered once, and a handler that returns has deleted its
\* images, its operators and its extra info: of what it allocated, only the
\* strings it has copied are left.
THEOREM HandlersSettle == ImageSpec => []HandlerSettles
<1>1. ImageInv => HandlerSettles
  BY DEF ImageInv, AllRequests, RequestInv, AnswerInv, LiveInv, HandlerSettles
<1> QED
  BY <1>1, ImagesKeepInv, PTL

\* The response is copied from the bytes that were rendered for it.
THEOREM SendsItsOwn == ImageSpec => []SendsOwnImage
<1>1. ASSUME ImageInv, NEW c \in Caller, phase[c] = "send"
      PROVE  data[buffer[c]] = item[c].upload
  <2>1. at[c] = "push" /\ buffer[c] = item[c].mem
    BY <1>1 DEF ImageInv, AllRequests, RequestInv, ElementInv
  <2>2. c \in Offering
    BY <1>1, <2>1 DEF ImageInv, PoolInv, OwnInv, PlacesInv, Offering
  <2> QED
    BY <1>1, <2>1, <2>2 DEF ImageInv, PoolInv, OwnInv, DataInv
<1>2. ImageInv => SendsOwnImage
  BY <1>1 DEF SendsOwnImage
<1> QED
  BY <1>2, ImagesKeepInv, PTL

\* Handlers that free elements themselves, and that get a second one, do no
\* harm to the elements of others.
THEOREM ImagesKeepElements ==
  ImageSpec => [](PoolTypeOK /\ ElementHasOneUser /\ QueuedDataIntact)
BY InvGivesPromises, ImagesKeepInv, PTL DEF ImageInv

\* Nor do they lose one, whatever fails on the way.
THEOREM ImagesLoseNothing ==
  ASSUME Freeing = Caller
  PROVE  ImageSpec => []NoElementLost
<1>1. ASSUME ImageInv, Accounted, NEW c \in Caller, FreeElement(c), item[c] # NoItem
      PROVE  Accounted'
  <2>1. /\ Offering' = Offering \ {c} /\ Carrying' = Carrying /\ tasks' = tasks /\ task' = task
        /\ \A d \in Offering' : item'[d] = item[d]
    BY <1>1, FreeElementMoves DEF ImageInv, PoolInv
  <2>2. free' = free \cup {item[c].mem}
    BY <1>1 DEF FreeElement
  <2> QED
    BY <1>1, <2>1, <2>2 DEF Accounted
<1>2. ImageInv /\ Accounted /\ [ImageNext]_<<poolVars, imageVars>> => Accounted'
  BY <1>1, AccountedNext, ServicesUsePool DEF ImageInv, PoolInv
<1>3. ImageInit => Accounted
  BY AccountedInit DEF ImageInit
<1>4. ImageInv /\ Accounted => NoElementLost
  BY NoneLostFromAccounts DEF ImageInv, PoolInv
<1> QED
  BY <1>2, <1>3, <1>4, ImagesKeepInv, PTL DEF ImageSpec

\* What they hand over is settled as the ledger says.
THEOREM ImagesSettleUploads == ImageSpec => ImplementsSaveLedger
<1>1. ImageInit => Ledger!LedgerInit
  BY LedgerStart DEF ImageInit
<1>2. ImageInv /\ [ImageNext]_<<poolVars, imageVars>>
        => [Ledger!LedgerNext]_(Ledger!ledgerVars)
  <2> SUFFICES ASSUME ImageInv, [ImageNext]_<<poolVars, imageVars>>
               PROVE  [Ledger!LedgerNext]_(Ledger!ledgerVars)
    OBVIOUS
  <2>1. CASE [PoolNext]_poolVars
    BY <2>1, InvGivesLedger DEF ImageInv
  <2>2. ASSUME NEW c \in Caller, FreeElement(c) PROVE UNCHANGED Ledger!ledgerVars
    <3>1. UNCHANGED <<tasks, wpc, task, saved, saveFailed, stage>>
      BY <2>2 DEF FreeElement, writerVars, counters, ownerVars
    <3> QED
      BY <3>1 DEF Ledger!ledgerVars, OpenUploads, Saving, Settled
  <2> QED
    BY <2>1, <2>2, ServicesUsePool
<1> QED
  BY <1>1, <1>2, ImagesKeepInv, PTL DEF ImageSpec, ImplementsSaveLedger, Ledger!LedgerSpec
=============================================================================
