---------------------------- MODULE ImageServices ---------------------------
(***************************************************************************)
(* The services that make images, on top of the storage pool:              *)
(* cropService.cpp ("crop"), cropServiceV2.cpp ("v2"), montageService.cpp  *)
(* and rainbowService.cpp.  A caller of the storage pool is here a thread  *)
(* of the server, which runs one request to its end.                       *)
(*                                                                         *)
(* They share one protocol: read the images that are needed, take an       *)
(* element, let the image library render into it, answer, give everything  *)
(* back.  crop and v2 try a second time with a larger element if the first *)
(* was too small, and crop hands the element to the storage pool.          *)
(***************************************************************************)
EXTENDS StoragePool

CONSTANTS
  MaxKeys,   \* bound: the images of a montage
  Throws,    \* does getImage throw for an image that it cannot read?
  NoBuffer   \* NULL

ASSUME ImageAssumption ==
  /\ MaxKeys \in Nat \ {0}
  /\ Throws \in BOOLEAN

Service == {"crop", "v2", "montage", "rainbow"}

VARIABLES
  phase,     \* where the request of each thread is
  service,   \* the service that handles it
  reads,     \* how often it has called getImage
  live,      \* the objects that it has allocated and not deleted
  buffer,    \* newBuffer
  answered   \* history: the responses that were sent for it

imageVars   == <<phase, service, reads, live, buffer, answered>>
requestVars == <<service, buffer>>

Image(i) == <<"image", i>>
Opers == <<"opers", 0>>   \* the ImageOperator of v2
Extra == <<"extra", 0>>   \* the ExtraImageInfo of v2
\* What strdup made of the path of a request and of its query.
Strings == {<<"path", 0>>, <<"query", 0>>}
Objects == {Opers, Extra} \cup Strings \cup {Image(i) : i \in 1 .. MaxKeys + 4}

\* crop asks for the original up to four times, v2 once, montage for each key.
MaxReads(s) ==
  CASE s = "crop" -> 4
    [] s = "v2" -> 1
    [] s = "montage" -> MaxKeys
    [] s \in {"rainbow", "none"} -> 0

ImageTypeOK ==
  /\ phase \in [Caller -> {"idle", "check", "look", "read", "alloc", "create", "again", "bigger",
                           "retry", "failed", "send", "release", "cleanup", "done", "thrown"}]
  /\ service \in [Caller -> Service \cup {"none"}]
  /\ reads \in [Caller -> 0 .. MaxKeys + 4]
  /\ \A c \in Caller : reads[c] <= MaxReads(service[c])
  /\ live \in [Caller -> SUBSET Objects]
  /\ buffer \in [Caller -> Element \cup {NoBuffer}]
  /\ answered \in [Caller -> 0 .. 2]

ImageInit ==
  /\ PoolInit
  /\ phase = [c \in Caller |-> "idle"]
  /\ service = [c \in Caller |-> "none"]
  /\ reads = [c \in Caller |-> 0]
  /\ live = [c \in Caller |-> {}]
  /\ buffer = [c \in Caller |-> NoBuffer]
  /\ answered = [c \in Caller |-> 0]

-----------------------------------------------------------------------------
(* The beginning and the end of a request.                                 *)

Goto(c, here, next) ==
  /\ phase[c] = here
  /\ phase' = [phase EXCEPT ![c] = next]

Answer(c) == answered' = [answered EXCEPT ![c] = @ + 1]

Delete(c, objects) == live' = [live EXCEPT ![c] = @ \ objects]

\* A request arrives.  v2, if it is ready, copies the path to parse it, which
\* may fail, then creates its operator object and copies the query; it frees
\* neither copy.
Parsing(s) == IF s = "v2" THEN {{}, {<<"path", 0>>}, Strings \cup {Opers}} ELSE {{}}

Request(c, s) ==
  /\ stage = "serving"
  /\ Goto(c, "idle", "check")
  /\ service' = [service EXCEPT ![c] = s]
  /\ \E objects \in Parsing(s) : live' = [live EXCEPT ![c] = objects]
  /\ UNCHANGED <<poolVars, reads, buffer, answered>>

\* A bad request, or an original, to which v2 redirects the client.
Reject(c) ==
  /\ Goto(c, "check", "done")
  /\ Answer(c)
  /\ Delete(c, {Opers})
  /\ UNCHANGED <<poolVars, requestVars, reads>>

FirstPhase(s) ==
  CASE s = "crop" -> "look"
    [] s = "rainbow" -> "alloc"
    [] s \in {"v2", "montage"} -> "read"

Admit(c) ==
  /\ service[c] = "v2" => Opers \in live[c]
  /\ Goto(c, "check", FirstPhase(service[c]))
  /\ UNCHANGED <<poolVars, requestVars, reads, live, answered>>

\* The handler returns, or the server has answered its exception.  What is in
\* live then nobody will delete.
Finish(c) ==
  /\ phase[c] \in {"done", "thrown"}
  /\ phase' = [phase EXCEPT ![c] = "idle"]
  /\ service' = [service EXCEPT ![c] = "none"]
  /\ reads' = [reads EXCEPT ![c] = 0]
  /\ live' = [live EXCEPT ![c] = {}]
  /\ buffer' = [buffer EXCEPT ![c] = NoBuffer]
  /\ answered' = [answered EXCEPT ![c] = 0]
  /\ UNCHANGED poolVars

-----------------------------------------------------------------------------
(* Reading.                                                                *)

Images(c) == {o \in live[c] : o[1] = "image"}

\* crop looks for the result, or a favicon, in the storage first.  If it is
\* there, it is sent and freed.  A favicon that is not there is answered with
\* the default icon or status 404; another image has to be made.
Look(c) ==
  /\ \/ Goto(c, "look", "done") /\ Answer(c)
     \/ Goto(c, "look", "read") /\ UNCHANGED answered
  /\ UNCHANGED <<poolVars, requestVars, reads, live>>

\* montage reads every key, the others stop at the first image.
Wanted(c) == service[c] = "montage" \/ Images(c) = {}

ReadsTooOften(c) == Wanted(c) /\ reads[c] <= MaxReads(service[c])  \* (mistake: off by one)
ReadsOn(c) == Wanted(c) /\ reads[c] < MaxReads(service[c])

\* getImage: an image, or NULL.
Read(c) ==
  /\ phase[c] = "read"
  /\ ReadsOn(c)
  /\ reads' = [reads EXCEPT ![c] = @ + 1]
  /\ \/ live' = [live EXCEPT ![c] = @ \cup {Image(reads[c] + 1)}]
     \/ UNCHANGED live
  /\ UNCHANGED <<poolVars, phase, requestVars, answered>>

\* getImage throws: the handler is left as it stands, and the server answers.
ReadThrows(c) ==
  /\ Throws
  /\ phase[c] \in {"look", "read"}
  /\ phase[c] = "read" => ReadsOn(c)
  /\ phase' = [phase EXCEPT ![c] = "thrown"]
  /\ Answer(c)
  /\ UNCHANGED <<poolVars, requestVars, reads, live>>

\* There is no image: status 404 (crop), 400 (montage), or a redirection to
\* the image for that (v2).
KeepOpers(c) ==  \* (mistake: forgets the operators)
  /\ Goto(c, "read", "done")
  /\ ~ ReadsOn(c) /\ Images(c) = {}
  /\ Answer(c)
  /\ UNCHANGED <<poolVars, requestVars, reads, live>>

NotFound(c) ==
  /\ Goto(c, "read", "done")
  /\ ~ ReadsOn(c) /\ Images(c) = {}
  /\ Answer(c)
  /\ Delete(c, {Opers})
  /\ UNCHANGED <<poolVars, requestVars, reads>>

Found(c) ==
  /\ Goto(c, "read", "alloc")
  /\ ~ ReadsOn(c) /\ Images(c) # {}
  /\ UNCHANGED <<poolVars, requestVars, reads, live, answered>>

-----------------------------------------------------------------------------
(* The element and what is rendered into it.                               *)

\* alloc and getElementAddress.  v2 creates an ExtraImageInfo if it is asked.
AllocElement(c) ==
  /\ Goto(c, "alloc", "create")
  /\ Alloc(c)
  /\ buffer' = [buffer EXCEPT ![c] = item'[c].mem]
  /\ \/ service[c] = "v2" /\ live' = [live EXCEPT ![c] = @ \cup {Extra}]
     \/ UNCHANGED live
  /\ UNCHANGED <<service, reads, answered>>

AllocFails(c) ==
  /\ Goto(c, "alloc", "done")
  /\ Answer(c)
  /\ Delete(c, Images(c) \cup {Opers})
  /\ UNCHANGED <<poolVars, requestVars, reads>>

\* The library renders the image and copies it to the buffer ...
Render(c) ==
  /\ phase[c] \in {"create", "retry"}
  /\ phase' = [phase EXCEPT ![c] = "send"]
  /\ at' = [at EXCEPT ![c] = "push"]
  /\ data' = [data EXCEPT ![buffer[c]] = item[c].upload]
  /\ UNCHANGED <<storageVars, free, item, tasks, writerVars, counters, ownerVars,
                 requestVars, reads, live, answered>>

\* ... or fails, or finds the buffer too small.  The latter is a failure
\* for montage and rainbow, and for anybody who tries a second time.
RenderFails(c) ==
  /\ \/ phase[c] \in {"create", "retry"} /\ phase' = [phase EXCEPT ![c] = "failed"]
     \/ service[c] \in {"crop", "v2"} /\ Goto(c, "create", "again")
  /\ UNCHANGED <<poolVars, requestVars, reads, live, answered>>

\* freeNode, by the thread that got the element.
FreeElement(c) ==
  /\ free' = free \cup {item[c].mem}
  /\ at' = [at EXCEPT ![c] = "idle"]
  /\ item' = [item EXCEPT ![c] = NoItem]
  /\ UNCHANGED <<storageVars, data, tasks, writerVars, counters, ownerVars>>

\* The element that was too small goes back before the larger one is asked
\* for: others can get it in between.
FreeSmall(c) ==
  /\ Goto(c, "again", "bigger")
  /\ FreeElement(c)
  /\ UNCHANGED <<requestVars, reads, live, answered>>

KeepAddress(c) ==  \* (mistake: does not ask for the new element's address)
  /\ Goto(c, "bigger", "retry")
  /\ Alloc(c)
  /\ UNCHANGED <<requestVars, reads, live, answered>>

AllocBigger(c) ==
  /\ Goto(c, "bigger", "retry")
  /\ Alloc(c)
  /\ buffer' = [buffer EXCEPT ![c] = item'[c].mem]
  /\ UNCHANGED <<service, reads, live, answered>>

AllocBiggerFails(c) ==
  /\ Goto(c, "bigger", "failed")
  /\ buffer' = [buffer EXCEPT ![c] = NoBuffer]
  /\ UNCHANGED <<poolVars, service, reads, live, answered>>

-----------------------------------------------------------------------------
(* The answer.                                                             *)

\* Nothing was rendered: crop and v2 send the original, the others status
\* 500.  The element goes back, if there is one.
KeepElement(c) ==  \* (mistake: forgets the element)
  /\ Goto(c, "failed", "cleanup")
  /\ Answer(c)
  /\ at' = [at EXCEPT ![c] = "idle"]
  /\ item' = [item EXCEPT ![c] = NoItem]
  /\ UNCHANGED <<storageVars, memoryVars, tasks, writerVars, counters, ownerVars,
                 requestVars, reads, live>>

SendFailure(c) ==
  /\ Goto(c, "failed", "cleanup")
  /\ Answer(c)
  /\ \/ item[c] # NoItem /\ FreeElement(c)
     \/ item[c] = NoItem /\ UNCHANGED poolVars
  /\ UNCHANGED <<requestVars, reads, live>>

\* The writer copies the buffer, and sends it.
SendImage(c) ==
  /\ Goto(c, "send", "release")
  /\ Answer(c)
  /\ UNCHANGED <<poolVars, requestVars, reads, live>>

\* crop passes the element to saveImage, and frees it only if it is refused.
SaveThumbnail(c) ==
  /\ service[c] = "crop"
  /\ \/ Goto(c, "release", "cleanup") /\ (Accept(c) \/ Discard(c))
     \/ phase[c] = "release" /\ Refuse(c) /\ UNCHANGED phase
  /\ UNCHANGED <<requestVars, reads, live, answered>>

\* v2 has its saveImage commented out; like the others it only frees.
FreeThumbnail(c) ==
  /\ service[c] # "crop"
  /\ Goto(c, "release", "cleanup")
  /\ FreeElement(c)
  /\ UNCHANGED <<requestVars, reads, live, answered>>

\* The images and the other objects are freed.
Cleanup(c) ==
  /\ Goto(c, "cleanup", "done")
  /\ Delete(c, Images(c) \cup {Opers, Extra})
  /\ UNCHANGED <<poolVars, requestVars, reads, answered>>

-----------------------------------------------------------------------------
(* The services and the storage pool behind them.                          *)

HandlerStep(c) ==
  \/ Reject(c) \/ Admit(c) \/ Finish(c) \/ Look(c) \/ Read(c) \/ ReadThrows(c)
  \/ NotFound(c) \/ Found(c) \/ AllocElement(c) \/ AllocFails(c) \/ Render(c) \/ RenderFails(c)
  \/ FreeSmall(c) \/ AllocBigger(c) \/ AllocBiggerFails(c) \/ SendFailure(c) \/ SendImage(c)
  \/ SaveThumbnail(c) \/ FreeThumbnail(c) \/ Cleanup(c)

ImageNext ==
  \/ \E c \in Caller, s \in Service : Request(c, s)
  \/ \E c \in Caller : HandlerStep(c)
  \/ \E w \in Writer : WriterStep(w) /\ UNCHANGED imageVars
  \/ (\A c \in Caller : phase[c] = "idle") /\ Destroy /\ UNCHANGED imageVars
  \/ OwnerStep /\ UNCHANGED imageVars
  \/ Terminated /\ UNCHANGED imageVars

ImageSpec == ImageInit /\ [][ImageNext]_<<poolVars, imageVars>>

-----------------------------------------------------------------------------
(* Properties.                                                             *)

\* What a thread sends is what it rendered for its request: from the second
\* attempt to the queue, nobody else gets to write to the buffer that the
\* response is copied from.
SendsOwnImage ==
  \A c \in Caller : phase[c] = "send" => data[buffer[c]] = item[c].upload

\* A request is answered once, by its handler or by the server, and a handler
\* that returns has deleted its images ("we need invoke freeImage to release
\* image instance"), its ImageOperator and its ExtraImageInfo, whichever way it
\* took.  The strings it has copied stay, and an exception of getImage leaves
\* the rest as well.
HandlerSettles ==
  \A c \in Caller :
    /\ answered[c] <= 1
    /\ phase[c] \in {"done", "thrown"} => answered[c] = 1
    /\ phase[c] = "done" => live[c] \subseteq Strings
=============================================================================
