----------------------------- MODULE Thumbnailer ----------------------------
(***************************************************************************)
(* The geometry of thumbnail/src/imagickThumbnailer.cpp, and the choice of *)
(* a face in facedetect/src/faceDetector.cpp.  A rectangle is given by its *)
(* left upper corner and its size; the pixels belong to ImageMagick.       *)
(*                                                                         *)
(* The code computes in double and truncates.  For sizes below 2^20 this   *)
(* is the integer quotient, except that an exact quotient may come out     *)
(* just below and lose one: 49 * (1 / 49.0) is less than 1.                *)
(***************************************************************************)
EXTENDS Integers, Sequences

Size == Nat \ {0}

Rectangle == [x : Int, y : Int, w : Nat, h : Nat]

Inside(r, w, h) == r.x >= 0 /\ r.y >= 0 /\ r.x + r.w <= w /\ r.y + r.h <= h

Within(r, s) == /\ r.x >= s.x /\ r.x + r.w <= s.x + s.w
                /\ r.y >= s.y /\ r.y + r.h <= s.y + s.h

\* (int)(n / d), computed in double
Truncated(n, d) == {q \in 0 .. n : q * d <= n /\ n <= (q + 1) * d}

-----------------------------------------------------------------------------
(* autoOrientImage.                                                        *)

\* How a picture is shown: whether rows and columns are exchanged, and which
\* of the axes then runs backwards.
View == [swap : BOOLEAN, left : BOOLEAN, up : BOOLEAN]
AsStored == [swap |-> FALSE, left |-> FALSE, up |-> FALSE]

Flop(v) == [swap |-> v.swap, left |-> ~ v.left, up |-> v.up]
Flip(v) == [swap |-> v.swap, left |-> v.left, up |-> ~ v.up]
Rotate90(v) == [swap |-> ~ v.swap, left |-> ~ v.up, up |-> v.left]
Rotate180(v) == Flip(Flop(v))
Rotate270(v) == [swap |-> ~ v.swap, left |-> v.up, up |-> ~ v.left]

\* The tags of EXIF, and the view in which a picture so tagged is upright.
Upright ==
  [TopLeft     |-> AsStored,
   TopRight    |-> [swap |-> FALSE, left |-> TRUE, up |-> FALSE],
   BottomRight |-> [swap |-> FALSE, left |-> TRUE, up |-> TRUE],
   BottomLeft  |-> [swap |-> FALSE, left |-> FALSE, up |-> TRUE],
   LeftTop     |-> [swap |-> TRUE, left |-> FALSE, up |-> FALSE],
   RightTop    |-> [swap |-> TRUE, left |-> TRUE, up |-> FALSE],
   RightBottom |-> [swap |-> TRUE, left |-> TRUE, up |-> TRUE],
   LeftBottom  |-> [swap |-> TRUE, left |-> FALSE, up |-> TRUE]]

Tag == DOMAIN Upright

SwapTurns(tag) ==  \* (mistake: the turns of RightTop and LeftBottom are exchanged)
  CASE tag = "TopLeft" -> AsStored
    [] tag = "TopRight" -> Flop(AsStored)
    [] tag = "BottomRight" -> Rotate180(AsStored)
    [] tag = "BottomLeft" -> Flip(AsStored)
    [] tag = "LeftTop" -> Flip(Rotate90(AsStored))
    [] tag = "LeftBottom" -> Rotate90(AsStored)
    [] tag = "RightBottom" -> Flip(Rotate270(AsStored))
    [] tag = "RightTop" -> Rotate270(AsStored)

AutoOrient(tag) ==
  CASE tag = "TopLeft" -> AsStored
    [] tag = "TopRight" -> Flop(AsStored)
    [] tag = "BottomRight" -> Rotate180(AsStored)
    [] tag = "BottomLeft" -> Flip(AsStored)
    [] tag = "LeftTop" -> Flip(Rotate90(AsStored))
    [] tag = "RightTop" -> Rotate90(AsStored)
    [] tag = "RightBottom" -> Flip(Rotate270(AsStored))
    [] tag = "LeftBottom" -> Rotate270(AsStored)

-----------------------------------------------------------------------------
(* Cropping.                                                               *)

\* create: the size of the thumbnail of a W x H image.  A size that was not
\* asked for follows from the other.
TargetSizes(W, H, w, h) ==
  IF w <= 0 /\ h <= 0 THEN {<<W, H>>}
  ELSE IF w <= 0 THEN {<<q, h>> : q \in Truncated(W * h, H)}
  ELSE IF h <= 0 THEN {<<w, q>> : q \in Truncated(H * w, W)}
  ELSE {<<w, h>>}

\* getCropGeometry: the whole width or the whole height of the image, and as
\* much of the other as the ratio of the target leaves, from the middle.
Middle(whole, part) == whole \div 2 - part \div 2

CropGeometries(W, H, w, h) ==
  IF W * h < w * H
  THEN {[x |-> 0, y |-> Middle(H, q), w |-> W, h |-> q] : q \in Truncated(W * h, w)}
  ELSE {[x |-> Middle(W, q), y |-> 0, w |-> q, h |-> H] : q \in Truncated(H * w, h)}

\* The offset of an interval of the given length, moved so far that it has
\* the interval of the face in it.
SlideBack(offset, length, face, faceLength) ==  \* (mistake: only to the left)
  IF offset > face THEN face ELSE offset

Slide(offset, length, face, faceLength) ==
  IF offset > face THEN face
  ELSE IF length + offset < faceLength + face THEN face + faceLength - length
  ELSE offset

\* adjustGeoByFace.  An offset 0 tells which way the crop can move.
AdjustGeoByFace(r, f) ==
  IF r.x = 0
  THEN IF r.h > f.h THEN [r EXCEPT !.y = Slide(@, r.h, f.y, f.h)] ELSE r
  ELSE IF r.y = 0 /\ r.w > f.w THEN [r EXCEPT !.x = Slide(@, r.w, f.x, f.w)] ELSE r

\* getBestFace: the first of the largest faces; the detector may also report
\* rectangles without area.
Area(r) == r.w * r.h
NoFace == [x |-> 0, y |-> 0, w |-> 0, h |-> 0]

IsBest(faces, i) ==
  /\ Area(faces[i]) > 0
  /\ \A j \in DOMAIN faces : Area(faces[j]) <= Area(faces[i])
  /\ \A j \in 1 .. i - 1 : Area(faces[j]) < Area(faces[i])

BestFace(faces) ==
  IF \E i \in DOMAIN faces : IsBest(faces, i)
  THEN faces[CHOOSE i \in DOMAIN faces : IsBest(faces, i)]
  ELSE NoFace
=============================================================================
