----------------------------- MODULE CropRequest ----------------------------
(***************************************************************************)
(* A thread of the server with its clone of a remote storage: requests to  *)
(* CropServiceS3 from the query to the answer, requests to MontageService, *)
(* and what a writer thread saves.  Every thread has the same state, and   *)
(* only the remote files are shared, so one thread stands for all.         *)
(*                                                                         *)
(* Elements of the memory pool, and the objects a handler has to delete,   *)
(* are the matter of ImageServices.                                        *)
(***************************************************************************)
EXTENDS GridFSStorage, S3Storage, Thumbnailer, CropQuery

CONSTANTS
  Backends,        \* of "gridfs" and "s3", those that are configured
  Path,            \* the paths that clients ask for, with a bucket and a key
  MaxQuery,        \* bound: the parts of a query
  MaxKeys,         \* bound: the images of a request
  MaxSaves,        \* bound: how often something is saved
  Sizes,           \* the widths and heights of pictures
  Detected(_, _),  \* the lists of faces that OpenCV may find in a picture of that size
  InitialFiles,    \* what the storage holds at first
  NoPicture

ASSUME RequestAssumption ==
  /\ Backends \subseteq {"gridfs", "s3"}
  /\ Sizes \subseteq Size
  /\ \A w \in Sizes, h \in Sizes : Detected(w, h) \subseteq Seq(Rectangle)
  /\ \A path \in Path : Len(path) >= 2 /\ ~ PathRefused(path) => KeyOf(path) \in Key
  /\ InitialFiles \in [Key -> SUBSET Version]
  /\ MaxKeys \in Nat \ {0} /\ MaxQuery \in Nat /\ MaxSaves \in Nat

VARIABLES
  backend,   \* the storage that is configured
  phase,     \* where the request is
  service,   \* "crop", "montage" or "save"
  keys,      \* the names of files that are still to be read
  images,    \* history: which version each image that was read is, and whether
             \* the storage gave all of it
  attempt,   \* how often an element was asked for
  picture,   \* the decoded picture: its size, its tag and how it is shown
  crop,      \* the crop rectangle, and the face it was made for
  saves,     \* how often something was saved
  saved      \* history: the last save, its result, and whether an error was logged

requestVars == <<backend, service, saves>>
pictureVars == <<attempt, picture, crop>>
allVars == <<remote, gridVars, s3Vars, queryVars, requestVars, phase, keys, images,
             pictureVars, saved>>

NoCrop == [rect |-> NoFace, face |-> NoFace]

CropInit ==
  /\ remote = InitialFiles
  /\ GridInit /\ S3Init /\ QueryInit
  /\ backend \in Backends
  /\ phase = "idle" /\ service = "none"
  /\ keys = <<>> /\ images = <<>>
  /\ attempt = 0 /\ picture = NoPicture /\ crop = NoCrop
  /\ saves = 0 /\ saved = Nothing

CropTypeOK ==
  /\ RemoteTypeOK /\ GridTypeOK /\ QueryTypeOK
  /\ phase \in {"idle", "parse", "fetch", "alloc", "decode", "crop", "write", "compose",
                "original", "save", "saved", "answered"}
  /\ service \in {"none", "crop", "montage", "save"}
  /\ keys \in Seq(Key) /\ Len(images) <= MaxKeys
  /\ backend = "gridfs" => Len(images) = Len(gridLens) /\ s3Images = <<>>
  /\ backend = "s3" => Len(images) = Len(s3Images) /\ gridLens = <<>>
  /\ attempt \in 0 .. 2
  /\ picture # NoPicture => picture.w \in Size /\ picture.h \in Size
  /\ crop.rect \in Rectangle /\ crop.face \in Rectangle

Goto(here, next) == phase = here /\ phase' = next

-----------------------------------------------------------------------------
(* A request arrives.                                                      *)

\* A path that is refused is answered at once.
RequestCrop(path, q) ==
  /\ Goto("idle", IF PathRefused(path) THEN "answered" ELSE "parse")
  /\ service' = "crop"
  /\ keys' = IF Len(path) < 2 \/ PathRefused(path) THEN <<>> ELSE <<KeyOf(path)>>
  /\ IF PathRefused(path) THEN UNCHANGED queryVars ELSE ParseStart(q)
  /\ UNCHANGED <<remote, gridVars, s3Vars, backend, saves, images, pictureVars, saved>>

Parse ==
  /\ phase = "parse"
  /\ ParsePair \/ ParseMalformed
  /\ UNCHANGED <<remote, gridVars, s3Vars, requestVars, phase, keys, images, pictureVars, saved>>

\* There is no key or no bucket (400), or nothing to do (a redirection to the
\* original), or the original is read.
Decide ==
  /\ ParseEnded
  /\ Goto("parse", IF keys = <<>> \/ ShouldOriginalImage THEN "answered" ELSE "fetch")
  /\ ForgetQuery
  /\ UNCHANGED <<remote, gridVars, s3Vars, requestVars, keys, images, pictureVars, saved>>

RequestMontage(wanted) ==
  /\ Goto("idle", "fetch")
  /\ service' = "montage"
  /\ keys' = wanted
  /\ UNCHANGED <<remote, gridVars, s3Vars, queryVars, backend, saves, images, pictureVars, saved>>

-----------------------------------------------------------------------------
(* getImage of the first of the keys.                                      *)

Reading == phase = "fetch" /\ keys # <<>> /\ s3Get = Nothing

GotImage(v, whole) ==
  /\ images' = Append(images, [version |-> v, whole |-> whole])
  /\ keys' = Tail(keys)

\* The storage has no such file, or cannot be reached.
ReadNothing ==
  /\ Reading
  /\ keys' = Tail(keys)
  /\ UNCHANGED <<remote, gridVars, s3Vars, queryVars, requestVars, phase, images, pictureVars,
                 saved>>

ReadGridFS ==
  /\ Reading /\ backend = "gridfs"
  /\ \E v \in remote[Head(keys)] :
       \/ \E got \in 0 .. v[2] : GridGet(v, got) /\ GotImage(v, got = v[2])
       \/ GridGetNoMemory(v) /\ GotImage(v, FALSE)
  /\ UNCHANGED <<s3Vars, queryVars, requestVars, phase, pictureVars, saved>>

ReadS3 ==
  /\ Reading /\ backend = "s3"
  /\ \E v \in remote[Head(keys)] : S3GetStart(v)
  /\ UNCHANGED <<gridVars, queryVars, requestVars, phase, keys, images, pictureVars, saved>>

S3Callback ==
  /\ phase = "fetch"
  /\ \/ (S3GetProperties \/ S3GetData) /\ UNCHANGED <<keys, images>>
     \/ S3GetDone /\ GotImage(s3Get.version, TRUE)
     \/ S3GetFailed /\ keys' = Tail(keys) /\ UNCHANGED images
  /\ UNCHANGED <<gridVars, queryVars, requestVars, phase, pictureVars, saved>>

\* Without an image: a redirection (crop) or status 400 (montage).
ReadAll ==
  /\ keys = <<>>
  /\ Goto("fetch", IF images = <<>> THEN "answered" ELSE "alloc")
  /\ UNCHANGED <<remote, gridVars, s3Vars, queryVars, requestVars, keys, images, pictureVars,
                 saved>>

-----------------------------------------------------------------------------
(* The thumbnail.                                                          *)

\* An element for the result: 1.5 times the length of the original, and
\* twice the first element's.  If there is none, the handler gives up (500),
\* or sends the original if that was the second time.
AllocElement ==
  /\ phase = "alloc"
  /\ phase' \in {IF service = "crop" THEN "decode" ELSE "compose",
                 IF attempt = 0 THEN "answered" ELSE "original"}
  /\ attempt' = attempt + 1
  /\ UNCHANGED <<remote, gridVars, s3Vars, queryVars, requestVars, keys, images, picture, crop,
                 saved>>

\* image.read and autoOrientImage: the picture has its size, and a tag.
Pictures ==
  {[w |-> IF AutoOrient(tag).swap THEN h ELSE w, h |-> IF AutoOrient(tag).swap THEN w ELSE h,
    tag |-> tag, view |-> AutoOrient(tag)] : w \in Sizes, h \in Sizes, tag \in Tag}

Decode ==
  /\ Goto("decode", "crop")
  /\ IF picture = NoPicture THEN picture' \in Pictures ELSE UNCHANGED picture
  /\ UNCHANGED <<remote, gridVars, s3Vars, queryVars, requestVars, keys, images, attempt, crop,
                 saved>>

\* Anything the library throws: the original is sent.
DecodeFails ==
  /\ Goto("decode", "original")
  /\ UNCHANGED <<remote, gridVars, s3Vars, queryVars, requestVars, keys, images, pictureVars,
                 saved>>

\* OpenCV looks at the picture as it is stored, so nobody asks for its faces if
\* it was turned.
DetectAlways == params["crop"] = Faces  \* (mistake: also if the picture was turned)
ShouldFaceDetect == params["crop"] = Faces /\ picture.tag = "TopLeft"

\* The faces are found in the picture as it is stored.
FaceLists ==
  IF ShouldFaceDetect
  THEN LET W == IF picture.view.swap THEN picture.h ELSE picture.w
           H == IF picture.view.swap THEN picture.w ELSE picture.h
       IN {<<>>} \cup {l \in Detected(W, H) : \A i \in DOMAIN l : Inside(l[i], W, H)}
  ELSE {<<>>}

\* cropImage: the ratio of the target, and the best face in it.
Crop ==
  /\ Goto("crop", "write")
  /\ \E target \in TargetSizes(picture.w, picture.h, params["w"], params["h"]) :
     \E r \in CropGeometries(picture.w, picture.h, target[1], target[2]) :
     \E faces \in FaceLists :
       crop' = [face |-> BestFace(faces),
                rect |-> IF faces = <<>> THEN r ELSE AdjustGeoByFace(r, BestFace(faces))]
  /\ UNCHANGED <<remote, gridVars, s3Vars, queryVars, requestVars, keys, images, attempt, picture,
                 saved>>

\* Resized, changed by the operators and written to the element, which may be
\* too small: then there is a second attempt.  Or the library throws.
Write ==
  /\ phase = "write"
  /\ phase' \in {"answered", "original"} \cup (IF attempt = 1 THEN {"alloc"} ELSE {})
  /\ crop' = NoCrop
  /\ UNCHANGED <<remote, gridVars, s3Vars, queryVars, requestVars, keys, images, attempt, picture,
                 saved>>

\* The original, or the montage of all images, is sent.
SendOriginal ==
  /\ phase \in {"original", "compose"}
  /\ phase' = "answered"
  /\ UNCHANGED <<remote, gridVars, s3Vars, queryVars, requestVars, keys, images, pictureVars,
                 saved>>

\* The images are freed and the handler returns.
Finish ==
  /\ Goto("answered", "idle")
  /\ service' = "none"
  /\ keys' = <<>> /\ images' = <<>>
  /\ IF backend = "gridfs" THEN GridFree /\ UNCHANGED s3Vars ELSE S3Free /\ UNCHANGED gridVars
  /\ attempt' = 0 /\ picture' = NoPicture /\ crop' = NoCrop
  /\ params' = [n \in Name |-> Default(n)]
  /\ UNCHANGED <<query, again, left, asked, backend, saves, saved>>

-----------------------------------------------------------------------------
(* Saving.                                                                 *)

\* saveImage2Mongo cannot create the file, or writes n blocks.
SaveGridFS(k, u) ==
  /\ backend = "gridfs" /\ Goto("idle", "saved")
  /\ \/ /\ UNCHANGED <<remote, gridVars>>
        /\ saved' = [key |-> k, upload |-> u, result |-> -1, logged |-> TRUE]
     \/ \E n \in 0 .. Blocks[u] : \E count \in WrittenCount(u, n) :
          /\ GridSave(k, u, n)
          /\ saved' = [key |-> k, upload |-> u, result |-> GridResult(count),
                       logged |-> count <= 0]
  /\ UNCHANGED s3Vars

SaveS3(k, u) ==
  /\ backend = "s3" /\ Goto("idle", "save")
  /\ S3PutStart(k, u)
  /\ UNCHANGED <<gridVars, saved>>

Save(k, u) ==
  /\ saves < MaxSaves
  /\ saves' = saves + 1
  /\ service' = "save"
  /\ SaveGridFS(k, u) \/ SaveS3(k, u)
  /\ UNCHANGED <<queryVars, backend, keys, images, pictureVars>>

SendBody ==
  /\ phase = "save"
  /\ \E room \in 1 .. Blocks[s3Put.upload] + 1 : S3PutData(room)
  /\ UNCHANGED <<gridVars, queryVars, requestVars, phase, keys, images, pictureVars, saved>>

BodySent ==
  /\ Goto("save", "saved")
  /\ \E kept \in BOOLEAN, ok \in BOOLEAN :
       /\ ok => kept
       /\ S3PutEnds(kept)
       /\ saved' = [key |-> s3Put.key, upload |-> s3Put.upload, result |-> 0,
                    logged |-> ~ PutStatusOK(ok)]
  /\ UNCHANGED <<gridVars, queryVars, requestVars, keys, images, pictureVars>>

SaveReturns ==
  /\ Goto("saved", "idle")
  /\ service' = "none"
  /\ saved' = Nothing
  /\ UNCHANGED <<remote, gridVars, s3Vars, queryVars, backend, saves, keys, images, pictureVars>>

-----------------------------------------------------------------------------

CropNext ==
  \/ \E path \in Path, n \in 0 .. MaxQuery : \E q \in [1 .. n -> Part] : RequestCrop(path, q)
  \/ \E n \in 0 .. MaxKeys : \E wanted \in [1 .. n -> Key] : RequestMontage(wanted)
  \/ \E k \in Key, u \in Upload : Save(k, u)
  \/ Parse \/ Decide \/ ReadNothing \/ ReadGridFS \/ ReadS3 \/ S3Callback \/ ReadAll
  \/ AllocElement \/ Decode \/ DecodeFails \/ Crop \/ Write \/ SendOriginal \/ Finish
  \/ SendBody \/ BodySent \/ SaveReturns

CropSpec == CropInit /\ [][CropNext]_allVars

-----------------------------------------------------------------------------
(* Properties.                                                             *)

Using == phase \in {"decode", "crop", "write", "compose", "original"}

LastIsOwn ==
  images # <<>> /\ images[Len(images)].whole /\ backend = "gridfs" =>
    LET v == images[Len(images)].version IN Bytes(memory, v[2]) = Content(v)

AllInside ==
  \A i \in DOMAIN gridLens : memory # NoMemory => gridLens[i] <= Len(memory)

AllOwn ==
  \A i \in DOMAIN s3Images :
    LET v == images[i].version
    IN Bytes(s3Images[i].memory, s3Images[i].len) = Content(v)

\* What a handler passes to the image library, or sends, is the image it has
\* asked for.  On S3 every image of a montage is, block for block; on GridFS
\* only the one that was read last, if the stream gave all of it, and the
\* others are at least no longer than the memory they lead to.
UsesOwnImage == Using => LastIsOwn /\ AllInside /\ AllOwn

\* What the log of S3Storage tells can be relied on: unless saveImage has logged
\* an error, the whole upload can be read under its name, into however many
\* pieces libs3 has cut it and even if libs3 was content with less.
SilentPutIsStored ==
  phase = "saved" /\ backend = "s3" /\ ~ saved.logged =>
    Whole(saved.upload) \in remote[saved.key]

\* The loop of parseQueryString, with its strtok_r that may begin again and its
\* limit, leaves what the query means: the last value of each parameter before
\* the first part that is not a pair.
ParsedAsMeant ==
  phase = "parse" /\ ParseEnded => \A n \in Name : params[n] = Meant(n)

\* autoOrientImage shows a picture upright, whichever way it was stored.  This
\* holds of all but the two tags whose picture it turns by 180 degrees.
ShownUpright ==
  picture # NoPicture /\ picture.tag \notin {"LeftTop", "RightBottom"} =>
    picture.view = Upright[picture.tag]

\* The crop rectangle lies in the picture, also after it was moved to a face.
CropInside == phase = "write" => Inside(crop.rect, picture.w, picture.h)

\* The largest face stays in the crop if it is smaller than that.  A column may
\* be lost where an exact quotient came out below: then the offset is 0 although
\* the width can move.
KeepsFace ==
  phase = "write" /\ crop.face # NoFace
    /\ crop.face.w < crop.rect.w /\ crop.face.h < crop.rect.h =>
      \/ Within(crop.face, crop.rect)
      \/ /\ crop.rect.x = 0 /\ crop.rect.w = picture.w - 1
         /\ Within(crop.face, [x |-> 0, y |-> crop.rect.y, w |-> picture.w, h |-> crop.rect.h])
=============================================================================
