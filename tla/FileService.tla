----------------------------- MODULE FileService ----------------------------
(***************************************************************************)
(* The service for whole files: webservice/src/fileService.cpp on top of   *)
(* the storage pool.  A caller of the storage pool is here a connection,   *)
(* which has one request at a time.                                        *)
(*                                                                         *)
(* PUT and POST look whether the file exists, copy the body into an        *)
(* element and queue it (the Caller actions of StoragePool).  DELETE       *)
(* removes the file at once.  GET and HEAD read the file, size first and   *)
(* content second, past the queue; a GET is answered by a FileSender,      *)
(* which writes one chunk, and from the callback of that write the next.   *)
(***************************************************************************)
EXTENDS StoragePool

CONSTANTS
  ChunkLimit,  \* m_max_chunk_size, in blocks
  MaxImages,   \* bound: the DiskFile objects that are ever created
  NoImage      \* the request has read no image

ASSUME FileServiceAssumption ==
  /\ ChunkLimit \in Nat \ {0}
  /\ MaxImages \in Nat

VARIABLES
  phase,     \* where the request of each connection is
  method,    \* its method
  target,    \* its file
  status,    \* the status of the response
  size,      \* _len of the DiskFile, once update has run
  image,     \* the content of the DiskFile, once read has run
  sent,      \* m_bytes_sent
  sending,   \* m_file_bytes_to_send
  wire,      \* the parts of the body that were handed to the connection
  broken,    \* did the last write fail (LIFECYCLE_CLOSE)?
  images,    \* the DiskFile objects that have not been deleted
  accepted,  \* history: the uploads that were accepted for each file
  strayed,   \* history: those that a writer opened this file for, though accepted for another
  blank,     \* history: the files for which an upload without a body was accepted
  expected   \* history: the files with an accepted upload and nothing since that spoils it

requestVars == <<method, target>>
senderVars  == <<size, image, sent, sending, wire>>
history     == <<accepted, strayed, blank, expected>>
connectionVars == <<phase, requestVars, status, senderVars, broken, images>>
serviceVars == <<connectionVars, history>>
fileVars    == <<poolVars, serviceVars>>

Method == {"GET", "HEAD", "PUT", "POST", "DELETE"}

FileTypeOK ==
  /\ phase \in [Caller -> {"idle", "exists", "alloc", "save", "delete", "stat", "read",
                           "decide", "sending", "replying"}]
  /\ method \in [Caller -> Method \cup {"none"}]
  /\ target \in [Caller -> File \cup {NoFile}]
  /\ status \in [Caller -> {0, 200, 201, 304, 404, 500}]
  /\ size \in [Caller -> Nat]
  /\ \A c \in Caller : image[c] = NoImage \/ (image[c] \in Seq(Upload) /\ Len(image[c]) = size[c])
  /\ sent \in [Caller -> Nat]
  /\ sending \in [Caller -> 0 .. ChunkLimit]
  /\ \A c \in Caller : wire[c] \in Seq([kind : {"whole", "chunk", "final"}, body : Seq(Upload)])
  /\ broken \in [Caller -> BOOLEAN]
  /\ images \in 0 .. MaxImages
  /\ accepted \in [File -> SUBSET Upload]
  /\ strayed \in [File -> SUBSET Upload]
  /\ blank \subseteq File /\ expected \subseteq File

FileInit ==
  /\ PoolInit
  /\ phase = [c \in Caller |-> "idle"]
  /\ method = [c \in Caller |-> "none"]
  /\ target = [c \in Caller |-> NoFile]
  /\ status = [c \in Caller |-> 0]
  /\ size = [c \in Caller |-> 0]
  /\ image = [c \in Caller |-> NoImage]
  /\ sent = [c \in Caller |-> 0]
  /\ sending = [c \in Caller |-> 0]
  /\ wire = [c \in Caller |-> <<>>]
  /\ broken = [c \in Caller |-> FALSE]
  /\ images = 0
  /\ accepted = [f \in File |-> {}]
  /\ strayed = [f \in File |-> {}]
  /\ blank = {} /\ expected = {}

-----------------------------------------------------------------------------
(* A request.                                                              *)

Goto(c, here, next) ==
  /\ phase[c] = here
  /\ phase' = [phase EXCEPT ![c] = next]

\* The response is complete and is written: writer->send().
Reply(c, here, code) ==
  /\ Goto(c, here, "replying")
  /\ status' = [status EXCEPT ![c] = code]

FirstStep(m) ==
  CASE m \in {"GET", "HEAD"} -> "stat"
    [] m \in {"PUT", "POST"} -> "exists"
    [] m = "DELETE" -> "delete"

ImageWanted(c) == phase[c] = "stat"

\* A request arrives on an idle connection, or on a new one in its place.
Request(c, m, f) ==
  /\ stage = "serving"
  /\ m \in {"GET", "HEAD"} => images + Cardinality({d \in Caller : ImageWanted(d)}) < MaxImages
  /\ Goto(c, "idle", FirstStep(m))
  /\ method' = [method EXCEPT ![c] = m]
  /\ target' = [target EXCEPT ![c] = f]
  /\ broken' = [broken EXCEPT ![c] = FALSE]
  /\ UNCHANGED <<poolVars, status, senderVars, images, history>>

\* The connection finishes; the writer and the sender are gone.
Finish(c) ==
  /\ phase' = [phase EXCEPT ![c] = "idle"]
  /\ method' = [method EXCEPT ![c] = "none"]
  /\ target' = [target EXCEPT ![c] = NoFile]
  /\ status' = [status EXCEPT ![c] = 0]
  /\ size' = [size EXCEPT ![c] = 0]
  /\ image' = [image EXCEPT ![c] = NoImage]
  /\ sent' = [sent EXCEPT ![c] = 0]
  /\ sending' = [sending EXCEPT ![c] = 0]
  /\ wire' = [wire EXCEPT ![c] = <<>>]

\* A response other than a sender's has been written, or could not be: its
\* writer calls finish either way.
Replied(c) ==
  /\ stage = "serving"
  /\ phase[c] = "replying"
  /\ Finish(c)
  /\ UNCHANGED <<poolVars, broken, images, history>>

-----------------------------------------------------------------------------
(* PUT, POST and DELETE.                                                   *)

\* (mistake: a POST removes the old file first)
RemovesFirst(c) ==
  /\ \/ /\ Reply(c, "exists", 404)
        /\ method[c] = "PUT" /\ Exists(target[c])
        /\ UNCHANGED storageVars
     \/ /\ Goto(c, "exists", "alloc")
        /\ ~ (method[c] = "PUT" /\ Exists(target[c]))
        /\ RemoveFile(target[c])
        /\ UNCHANGED status
  /\ UNCHANGED <<memoryVars, callerVars, tasks, writerVars, counters, ownerVars,
                 requestVars, senderVars, broken, images, history>>

\* headImage, and the answer to a PUT of a file that exists.
CheckExists(c) ==
  /\ \/ /\ Reply(c, "exists", 404)
        /\ method[c] = "PUT" /\ Exists(target[c])
     \/ /\ Goto(c, "exists", "alloc")
        /\ ~ (method[c] = "PUT" /\ Exists(target[c]))
        /\ UNCHANGED status
  /\ UNCHANGED <<poolVars, requestVars, senderVars, broken, images, history>>

\* alloc returns MP_NULL: no element is left, or the body fits none.
AllocFails(c) ==
  /\ Reply(c, "alloc", 500)
  /\ UNCHANGED <<poolVars, requestVars, senderVars, broken, images, history>>

AllocBody(c) ==
  /\ Goto(c, "alloc", "save")
  /\ Alloc(c)
  /\ item'[c].file = target[c]
  /\ item'[c].upload \notin UNION Range(accepted)
  /\ UNCHANGED <<requestVars, status, senderVars, broken, images, history>>

\* memcpy, and pushTask for an item that does not fit.
FillOrRefuse(c) ==
  /\ phase[c] = "save"
  /\ Fill(c) \/ Refuse(c)
  /\ UNCHANGED serviceVars

SaveAccepted(c) ==
  /\ Reply(c, "save", 201)
  /\ Accept(c)
  /\ accepted' = [accepted EXCEPT ![item[c].file] = @ \cup {item[c].upload}]
  /\ blank' = IF item[c].len = 0 THEN blank \cup {item[c].file} ELSE blank
  /\ expected' = expected \cup {item[c].file}
  /\ UNCHANGED <<requestVars, senderVars, broken, images, strayed>>

NoAnswer(c) ==  \* (mistake: returns without sending the response)
  /\ phase[c] = "save"
  /\ Discard(c)
  /\ UNCHANGED serviceVars

SaveRefused(c) ==
  /\ Reply(c, "save", 500)
  /\ Discard(c)
  /\ UNCHANGED <<requestVars, senderVars, broken, images, history>>

Delete(c) ==
  /\ Reply(c, "delete", 201)
  /\ RemoveFile(target[c])
  /\ expected' = expected \ {target[c]}
  /\ UNCHANGED <<memoryVars, callerVars, tasks, writerVars, counters, ownerVars,
                 requestVars, senderVars, broken, images, accepted, strayed, blank>>

-----------------------------------------------------------------------------
(* GET and HEAD: LocalStorage::getImage.                                   *)

\* A DiskFile is created, and its update asks for the size of the file.  The
\* exception of a file that does not exist reaches the server, which answers
\* with status 500.
Stat(c) ==
  /\ images' = images + 1
  /\ \/ /\ Goto(c, "stat", "read")
        /\ Exists(target[c])
        /\ size' = [size EXCEPT ![c] = Len(disk[target[c]])]
        /\ UNCHANGED status
     \/ /\ Reply(c, "stat", 500)
        /\ ~ Exists(target[c])
        /\ UNCHANGED size
  /\ UNCHANGED <<poolVars, requestVars, image, sent, sending, wire, broken, history>>

\* As many blocks as the size said; a file that was removed or truncated in
\* the meantime is an exception.
Readable(f, n) == Exists(f) /\ Len(disk[f]) >= n
UpToEnd(f, n) == disk[f]  \* (mistake: not as many as the size said)
BlocksRead(f, n) == SubSeq(disk[f], 1, n)

Read(c) ==
  /\ \/ /\ Goto(c, "read", "decide")
        /\ Readable(target[c], size[c])
        /\ image' = [image EXCEPT ![c] = BlocksRead(target[c], size[c])]
        /\ UNCHANGED status
     \/ /\ Reply(c, "read", 500)
        /\ ~ Readable(target[c], size[c])
        /\ UNCHANGED image
  /\ UNCHANGED <<poolVars, requestVars, size, sent, sending, wire, broken, images, history>>

\* If-Modified-Since names the file's time, or this is a HEAD: headers only.
HeadersOnly(c) ==
  /\ \/ Reply(c, "decide", 304)
     \/ method[c] = "HEAD" /\ Reply(c, "decide", 200)
  /\ UNCHANGED <<poolVars, requestVars, senderVars, broken, images, history>>

-----------------------------------------------------------------------------
(* FileSender.                                                             *)

PastEnd(c, from, n) == from + n > size[c]  \* (mistake: off by one)
LastPart(c, from, n) == from + n >= size[c]

PartKind(c, from, n) ==
  IF ~ LastPart(c, from, n) THEN "chunk" ELSE IF from > 0 THEN "final" ELSE "whole"

Unlimited(c, from) == size[c] - from  \* (mistake: no limit)
PartLength(c, from) == Min({size[c] - from, ChunkLimit})

\* send: the next part of the image goes to the connection.
SendPart(c, from) ==
  LET n == PartLength(c, from)
  IN /\ sending' = [sending EXCEPT ![c] = n]
     /\ wire' = [wire EXCEPT ![c] = Append(@,
                   [kind |-> PartKind(c, from, n), body |-> SubSeq(image[c], from + 1, from + n)])]

\* A GET creates the sender and calls its send.  With nothing to send the
\* writer's own callback finishes the connection.
StartSender(c) ==
  /\ method[c] = "GET"
  /\ status' = [status EXCEPT ![c] = 200]
  /\ \/ /\ size[c] = 0
        /\ Goto(c, "decide", "replying")
        /\ wire' = [wire EXCEPT ![c] = <<[kind |-> "whole", body |-> <<>>]>>]
        /\ UNCHANGED sending
     \/ /\ size[c] > 0
        /\ Goto(c, "decide", "sending")
        /\ SendPart(c, 0)
  /\ UNCHANGED <<poolVars, requestVars, size, image, sent, broken, images, history>>

\* handle_write after a write that failed.
WriteFailed(c) ==
  /\ stage = "serving"
  /\ phase[c] = "sending"
  /\ broken' = [broken EXCEPT ![c] = TRUE]
  /\ Finish(c)
  /\ UNCHANGED <<poolVars, images, history>>

\* handle_write after a write that succeeded: finish, or send the next part.
Advance(c) == sent[c] + sending[c]

HandleWrite(c) ==
  /\ stage = "serving"
  /\ phase[c] = "sending"
  /\ \/ /\ Advance(c) >= size[c]
        /\ Finish(c)
     \/ /\ Advance(c) < size[c]
        /\ sent' = [sent EXCEPT ![c] = Advance(c)]
        /\ SendPart(c, Advance(c))
        /\ UNCHANGED <<phase, requestVars, status, size, image>>
  /\ UNCHANGED <<poolVars, broken, images, history>>

-----------------------------------------------------------------------------
(* The service and the storage pool behind it.                             *)

\* A writer opens a file, its task's or, if the bucket's name is gone, another
\* one.  In that case, or if no file could be opened, nothing is to be expected
\* of the file of the task, nor of the one that was truncated in its place.
WriterOpens(w) ==
  LET mine == task[w].file
      opened == stream'[w]
  IN /\ SaveOpen(w)
     /\ \/ opened = mine /\ UNCHANGED <<expected, strayed>>
        \/ /\ opened # mine
           /\ expected' = expected \ {mine, opened}
           /\ strayed' = [f \in File |->
                           IF f = opened THEN strayed[f] \cup {task[w].upload} ELSE strayed[f]]

\* A write that fails leaves nothing to be expected either.
WriterWrites(w) ==
  /\ \E r \in Results :
       /\ SaveResult(w, r)
       /\ expected' = IF r[1] THEN expected ELSE expected \ {task[w].file, stream[w]}
  /\ UNCHANGED strayed

\* WriterStep, with what it does to the histories.
FileWriterStep(w) ==
  /\ \/ CheckRunning(w) /\ UNCHANGED <<expected, strayed>>
     \/ PopTask(w) /\ UNCHANGED <<expected, strayed>>
     \/ PopNothing(w) /\ UNCHANGED <<expected, strayed>>
     \/ WriterOpens(w)
     \/ WriterWrites(w)
     \/ FreeTask(w) /\ UNCHANGED <<expected, strayed>>
  /\ UNCHANGED <<connectionVars, accepted, blank>>

RequestStep(c) ==
  \/ Replied(c) \/ CheckExists(c) \/ AllocFails(c) \/ AllocBody(c) \/ FillOrRefuse(c)
  \/ SaveAccepted(c) \/ SaveRefused(c) \/ Delete(c) \/ Stat(c) \/ Read(c) \/ HeadersOnly(c)
  \/ StartSender(c) \/ WriteFailed(c) \/ HandleWrite(c)

\* destroy follows the end of the server: no handler is running any more, and
\* callbacks of writes do not come.
InHandler(c) == phase[c] \notin {"idle", "sending", "replying"}

FileNext ==
  \/ \E c \in Caller, m \in Method, f \in File : Request(c, m, f)
  \/ \E c \in Caller : RequestStep(c)
  \/ \E w \in Writer : FileWriterStep(w)
  \/ (\A c \in Caller : ~ InHandler(c)) /\ Destroy /\ UNCHANGED serviceVars
  \/ OwnerStep /\ UNCHANGED serviceVars
  \/ Terminated /\ UNCHANGED serviceVars

FileSpec == FileInit /\ [][FileNext]_fileVars

\* Handlers that run go on, the writes of a connection end one way or the
\* other, and so do the threads of the pool.  No request has to come.
FileFairSpec ==
  /\ FileSpec
  /\ \A c \in Caller : WF_fileVars(RequestStep(c))
  /\ \A w \in Writer : WF_fileVars(FileWriterStep(w))
  /\ WF_fileVars(OwnerStep /\ UNCHANGED serviceVars)

-----------------------------------------------------------------------------
(* Properties.                                                             *)

\* What the parts on the wire add up to.
Body(parts) == FlattenSeq([i \in DOMAIN parts |-> parts[i].body])

\* A sender that finishes has sent the image it was created for, in order and
\* without a gap, and the client can tell: one response with the whole body,
\* or chunks of which exactly the last is marked final.
DeliveredWhole ==
  [][\A c \in Caller :
       phase[c] = "sending" /\ phase'[c] = "idle" /\ ~ broken'[c] =>
         /\ Body(wire[c]) = image[c]
         /\ Last(wire[c]).kind = IF Len(wire[c]) = 1 THEN "whole" ELSE "final"
         /\ \A i \in 1 .. Len(wire[c]) - 1 : wire[c][i].kind = "chunk"]_fileVars

\* What a file may hold: the uploads that were accepted for it or strayed to it.
MayHold(f) == accepted[f] \cup strayed[f]

\* What a client gets from a file was accepted for that file, or a writer had
\* opened this file for it under a bucket name that was gone: elements that
\* change hands, the queue, the writers and the reading handler never show the
\* body of a refused or unfinished upload, or that of another file.
ServedWasAccepted ==
  \A c \in Caller : image[c] # NoImage => Range(image[c]) \subseteq MayHold(target[c])

\* An upload that was answered with 201 is not forgotten: once nothing for
\* its file is on its way, the file exists and holds accepted data, empty only
\* if an empty body was accepted for it.  Only a DELETE, a failed open or
\* write, or a writer misled by the name of the bucket since then excuses it.
AcceptedStays ==
  stage = "serving" => \A f \in expected :
    (\A i \in Queued \cup InHand : i.file # f)
      => /\ Exists(f) /\ (disk[f] = <<>> => f \in blank)
         /\ Range(disk[f]) \subseteq MayHold(f)

\* A client that reads a file gets what was saved under its name ("save a
\* image under async mode"), not the upload of another file.
ServedUnderItsName ==
  \A c \in Caller : image[c] # NoImage => Range(image[c]) \subseteq accepted[target[c]]

\* Every request is answered and its connection finished, while the server
\* runs.
EveryRequestEnds ==
  \A c \in Caller : phase[c] # "idle" ~> phase[c] = "idle" \/ stage # "serving"
=============================================================================
