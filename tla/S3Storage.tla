------------------------------ MODULE S3Storage -----------------------------
(***************************************************************************)
(* webservice/src/s3Storage.cpp.  getImage and saveImage give libs3 a set  *)
(* of callbacks and return when libs3 has called the last one.  libs3 and  *)
(* S3 are not part of the repository: they answer a GET with the length of *)
(* the file, then with its blocks in order, and end it at any point, with  *)
(* or without an error.  Unlike that of GridFS, each image has a buffer.   *)
(***************************************************************************)
EXTENDS RemoteFiles

CONSTANT Nothing   \* no request to S3

VARIABLES
  s3Images,  \* the images that were read, in order
  s3Get,     \* the GET that libs3 works on, with the image it fills
  s3Put      \* the PUT that libs3 works on

s3Vars == <<s3Images, s3Get, s3Put>>

\* The members of an S3Image that its constructor leaves behind.
NewImage == [len |-> 0, memory |-> NoMemory, memoryLen |-> InitialLen, offset |-> 0]

S3Init ==
  /\ s3Images = <<>>
  /\ s3Get = Nothing
  /\ s3Put = Nothing

-----------------------------------------------------------------------------
(* GET.                                                                    *)

\* getImage calls S3_get_object.
S3GetStart(v) ==
  /\ s3Get = Nothing
  /\ s3Get' = [version |-> v, image |-> NewImage, answered |-> FALSE]
  /\ UNCHANGED <<remote, s3Images, s3Put>>

\* S3Image::reInit
Reinit(image, n) ==
  LET grown == n > image.memoryLen
      size == IF grown THEN image.memoryLen + n ELSE image.memoryLen
  IN [len |-> n, memoryLen |-> size, offset |-> image.offset,
      memory |-> IF grown \/ image.memory = NoMemory THEN Fresh(size) ELSE image.memory]

\* getObjectPropertiesCallback
S3GetProperties ==
  /\ s3Get # Nothing /\ ~ s3Get.answered
  /\ s3Get' = [s3Get EXCEPT !.answered = TRUE, !.image = Reinit(@, s3Get.version[2])]
  /\ UNCHANGED <<remote, s3Images, s3Put>>

\* S3Image::readData of the next n blocks of the file.
ReadData(image, v, n) ==
  [len |-> image.len, memoryLen |-> image.memoryLen, offset |-> image.offset + n,
   memory |-> [i \in DOMAIN image.memory |->
                 IF i \in image.offset + 1 .. image.offset + n
                 THEN <<v[1], i>> ELSE image.memory[i]]]

\* getObjectDataCallback
S3GetData ==
  /\ s3Get # Nothing /\ s3Get.answered
  /\ \E n \in 1 .. s3Get.version[2] - s3Get.image.offset :
       s3Get' = [s3Get EXCEPT !.image = ReadData(@, s3Get.version, n)]
  /\ UNCHANGED <<remote, s3Images, s3Put>>

\* S3Image::isCompelete, as getObjectCompleteCallback asks it
AnyLength(image) == TRUE  \* (mistake: the length is not compared)
IsComplete(image) == image.offset = image.len

\* libs3 reports success, and getObjectCompleteCallback does not correct it:
\* getImage returns the image.
S3GetDone ==
  /\ s3Get # Nothing /\ s3Get.answered
  /\ IsComplete(s3Get.image)
  /\ s3Images' = Append(s3Images, s3Get.image)
  /\ s3Get' = Nothing
  /\ UNCHANGED <<remote, s3Put>>

\* An error of libs3, or a body that is incomplete: getImage returns NULL and
\* nobody has the image any more.
S3GetFailed ==
  /\ s3Get # Nothing
  /\ s3Get' = Nothing
  /\ UNCHANGED <<remote, s3Images, s3Put>>

\* freeImage of every image that was read
S3Free ==
  /\ s3Images' = <<>>
  /\ UNCHANGED <<remote, s3Get, s3Put>>

-----------------------------------------------------------------------------
(* PUT.                                                                    *)

\* saveImage calls S3_put_object.
S3PutStart(k, u) ==
  /\ s3Put = Nothing
  /\ s3Put' = [key |-> k, upload |-> u, offset |-> 0]
  /\ UNCHANGED <<remote, s3Images, s3Get>>

\* putObjectDataCallback gives at most what is left of the image.
S3PutData(room) ==
  /\ s3Put # Nothing
  /\ LET left == Blocks[s3Put.upload] - s3Put.offset
     IN s3Put' = [s3Put EXCEPT !.offset = @ + (IF room > left THEN left ELSE room)]
  /\ s3Put' # s3Put
  /\ UNCHANGED <<remote, s3Images, s3Get>>

\* putObjectCompleteCallback: whether the status that is left to saveImage is
\* S3StatusOK.  If not, saveImage logs an error; it returns 0 in any case.
StatusOfLibrary(ok) == ok  \* (mistake: the offset is not compared)
PutStatusOK(ok) == ok /\ s3Put.offset = Blocks[s3Put.upload]

\* S3 keeps what it was sent, or not; whether it did, the answer of libs3 says
\* (an answer that is lost says no).
S3PutEnds(kept) ==
  /\ s3Put # Nothing
  /\ remote' = IF kept THEN [remote EXCEPT ![s3Put.key] = {<<s3Put.upload, s3Put.offset>>}]
                       ELSE remote
  /\ s3Put' = Nothing
  /\ UNCHANGED <<s3Images, s3Get>>
=============================================================================
