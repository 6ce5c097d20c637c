-------------------------- MODULE CropRequest_proofs -------------------------
(***************************************************************************)
(* Proofs about CropRequest: for pictures, queries and faces of any size,  *)
(* the crop rectangle lies in the picture.  Then which bytes an image      *)
(* leads to, and what a PUT to S3 that logs no error has left there.  At   *)
(* last the types, with how often a request reads and asks for memory.     *)
(***************************************************************************)
EXTENDS CropRequest, SequenceTheorems, TLAPS

-----------------------------------------------------------------------------
(* The geometry.                                                           *)

\* A quotient is no larger than what the dividend is a multiple of at most.
LEMMA TruncatedBound ==
  ASSUME NEW n \in Nat, NEW d \in Nat \ {0}, NEW m \in Nat, n <= m * d, NEW q \in Truncated(n, d)
  PROVE  q \in Nat /\ q <= m
<1>1. q \in Nat /\ q * d <= n
  BY DEF Truncated
<1>2. SUFFICES ASSUME q >= m + 1 PROVE FALSE
  BY <1>1
<1>3. q * d >= (m + 1) * d
  BY <1>1, <1>2
<1>4. (m + 1) * d = m * d + d
  OBVIOUS
<1> QED
  BY <1>1, <1>3, <1>4

\* The part fits the whole when it is put in the middle (getCropGeometry).
LEMMA MiddleFits ==
  ASSUME NEW whole \in Nat, NEW part \in Nat, part <= whole
  PROVE  Middle(whole, part) \in Nat /\ Middle(whole, part) + part <= whole
BY DEF Middle

LEMMA MiddleAtZero ==
  ASSUME NEW whole \in Nat, NEW part \in Nat, part <= whole, Middle(whole, part) = 0
  PROVE  part = whole \/ part = whole - 1
<1>1. PICK a \in Nat : a = part \div 2 /\ (part = 2 * a \/ part = 2 * a + 1)
  OBVIOUS
<1>2. PICK b \in Nat : b = whole \div 2 /\ (whole = 2 * b \/ whole = 2 * b + 1)
  OBVIOUS
<1>3. a = b
  BY <1>1, <1>2 DEF Middle
<1> QED
  BY <1>1, <1>2, <1>3

\* create never asks for a thumbnail without width and without height.
LEMMA TargetIsProper ==
  ASSUME NEW W \in Size, NEW H \in Size, NEW w \in Int, NEW h \in Int,
         NEW t \in TargetSizes(W, H, w, h)
  PROVE  t[1] \in Nat /\ t[2] \in Nat /\ (t[1] > 0 \/ t[2] > 0)
<1>1. CASE w <= 0 /\ h <= 0
  BY <1>1 DEF TargetSizes, Size
<1>2. CASE w <= 0 /\ h > 0
  <2>1. PICK q \in Truncated(W * h, H) : t = <<q, h>>
    BY <1>2 DEF TargetSizes
  <2>2. W * h \in Nat
    BY <1>2 DEF Size
  <2> QED
    BY <1>2, <2>1, <2>2 DEF Truncated
<1>3. CASE w > 0 /\ h <= 0
  <2>1. PICK q \in Truncated(H * w, W) : t = <<w, q>>
    BY <1>3 DEF TargetSizes
  <2>2. H * w \in Nat
    BY <1>3 DEF Size
  <2> QED
    BY <1>3, <2>1, <2>2 DEF Truncated
<1>4. CASE w > 0 /\ h > 0
  BY <1>4 DEF TargetSizes
<1> QED
  BY <1>1, <1>2, <1>3, <1>4

\* The rectangle of getCropGeometry lies in the image and has its width or its
\* height.
LEMMA GeometryFits ==
  ASSUME NEW W \in Size, NEW H \in Size, NEW w \in Nat, NEW h \in Nat, w > 0 \/ h > 0,
         NEW r \in CropGeometries(W, H, w, h)
  PROVE  r \in Rectangle /\ Inside(r, W, H)
<1>1. CASE W * h < w * H
  <2>1. PICK q \in Truncated(W * h, w) :
          r = [x |-> 0, y |-> Middle(H, q), w |-> W, h |-> q]
    BY <1>1 DEF CropGeometries
  <2>2. w # 0
    BY <1>1 DEF Size
  <2>3. W * h \in Nat /\ W * h <= H * w
    BY <1>1 DEF Size
  <2>4. q \in Nat /\ q <= H
    BY <2>2, <2>3, TruncatedBound DEF Size
  <2>5. Middle(H, q) \in Nat /\ Middle(H, q) + q <= H
    BY <2>4, MiddleFits DEF Size
  <2> QED
    BY <2>1, <2>4, <2>5 DEF Rectangle, Inside, Size
<1>2. CASE ~ (W * h < w * H)
  <2>1. PICK q \in Truncated(H * w, h) :
          r = [x |-> Middle(W, q), y |-> 0, w |-> q, h |-> H]
    BY <1>2 DEF CropGeometries
  <2>2. h # 0
    <3>1. SUFFICES ASSUME h = 0 PROVE FALSE
      OBVIOUS
    <3>2. W * h = 0 /\ w > 0
      BY <3>1 DEF Size
    <3>3. w * H > 0
      BY <3>2 DEF Size
    <3> QED
      BY <1>2, <3>2, <3>3
  <2>3. H * w \in Nat /\ H * w <= W * h
    BY <1>2 DEF Size
  <2>4. q \in Nat /\ q <= W
    BY <2>2, <2>3, TruncatedBound DEF Size
  <2>5. Middle(W, q) \in Nat /\ Middle(W, q) + q <= W
    BY <2>4, MiddleFits DEF Size
  <2> QED
    BY <2>1, <2>4, <2>5 DEF Rectangle, Inside, Size
<1> QED
  BY <1>1, <1>2

\* An interval that is longer than the face stays in the whole when it slides
\* to a face that is in there.
LEMMA SlideFits ==
  ASSUME NEW whole \in Nat, NEW offset \in Nat, NEW length \in Nat, offset + length <= whole,
         NEW face \in Nat, NEW faceLength \in Nat, face + faceLength <= whole,
         length > faceLength
  PROVE  /\ Slide(offset, length, face, faceLength) \in Nat
         /\ Slide(offset, length, face, faceLength) + length <= whole
BY DEF Slide

\* adjustGeoByFace keeps the rectangle in the picture.
LEMMA AdjustFits ==
  ASSUME NEW W \in Nat, NEW H \in Nat, NEW r \in Rectangle, Inside(r, W, H),
         NEW f \in Rectangle, Inside(f, W, H)
  PROVE  AdjustGeoByFace(r, f) \in Rectangle /\ Inside(AdjustGeoByFace(r, f), W, H)
<1> DEFINE y == Slide(r.y, r.h, f.y, f.h)
           x == Slide(r.x, r.w, f.x, f.w)
<1>1. /\ r.x \in Nat /\ r.y \in Nat /\ r.w \in Nat /\ r.h \in Nat
      /\ f.x \in Nat /\ f.y \in Nat /\ f.w \in Nat /\ f.h \in Nat
      /\ r.x + r.w <= W /\ r.y + r.h <= H /\ f.x + f.w <= W /\ f.y + f.h <= H
      /\ r = [x |-> r.x, y |-> r.y, w |-> r.w, h |-> r.h]
  BY DEF Rectangle, Inside
<1>2. CASE r.x = 0 /\ r.h > f.h
  <2>1. y \in Nat /\ y + r.h <= H
    BY <1>1, <1>2, SlideFits
  <2>2. AdjustGeoByFace(r, f) = [x |-> r.x, y |-> y, w |-> r.w, h |-> r.h]
    BY <1>1, <1>2 DEF AdjustGeoByFace
  <2> QED
    BY <1>1, <2>1, <2>2 DEF Rectangle, Inside
<1>3. CASE r.x # 0 /\ r.y = 0 /\ r.w > f.w
  <2>1. x \in Nat /\ x + r.w <= W
    BY <1>1, <1>3, SlideFits
  <2>2. AdjustGeoByFace(r, f) = [x |-> x, y |-> r.y, w |-> r.w, h |-> r.h]
    BY <1>1, <1>3 DEF AdjustGeoByFace
  <2> QED
    BY <1>1, <2>1, <2>2 DEF Rectangle, Inside
<1>4. CASE ~ (r.x = 0 /\ r.h > f.h) /\ ~ (r.x # 0 /\ r.y = 0 /\ r.w > f.w)
  BY <1>4 DEF AdjustGeoByFace
<1> QED
  BY <1>2, <1>3, <1>4

\* Each crop keeps a face that is smaller than it, but for the column that
\* KeepsFace speaks of.
LEMMA FaceStays ==
  ASSUME NEW W \in Size, NEW H \in Size, NEW w \in Nat, NEW h \in Nat, w > 0 \/ h > 0,
         NEW r \in CropGeometries(W, H, w, h), NEW f \in Rectangle, Inside(f, W, H),
         f.w < r.w, f.h < r.h, NEW c, c = AdjustGeoByFace(r, f)
  PROVE  \/ Within(f, c)
         \/ /\ c.x = 0 /\ c.w = W - 1
            /\ Within(f, [x |-> 0, y |-> c.y, w |-> W, h |-> c.h])
<1>1. r \in Rectangle /\ Inside(r, W, H)
  BY GeometryFits
<1>2. \/ r.x = 0 /\ r.w = W
      \/ r.y = 0 /\ r.h = H /\ r.x = Middle(W, r.w)
  <2>1. CASE W * h < w * H
    <3>1. PICK q \in Truncated(W * h, w) :
            r = [x |-> 0, y |-> Middle(H, q), w |-> W, h |-> q]
      BY <2>1 DEF CropGeometries
    <3> QED
      BY <3>1
  <2>2. CASE ~ (W * h < w * H)
    <3>1. PICK q \in Truncated(H * w, h) :
            r = [x |-> Middle(W, q), y |-> 0, w |-> q, h |-> H]
      BY <2>2 DEF CropGeometries
    <3> QED
      BY <3>1
  <2> QED
    BY <2>1, <2>2
<1>3. /\ r.x \in Nat /\ r.y \in Nat /\ r.w \in Nat /\ r.h \in Nat
      /\ f.x \in Nat /\ f.y \in Nat /\ f.w \in Nat /\ f.h \in Nat
      /\ r.x + r.w <= W /\ r.y + r.h <= H /\ f.x + f.w <= W /\ f.y + f.h <= H
      /\ r = [x |-> r.x, y |-> r.y, w |-> r.w, h |-> r.h]
  BY <1>1 DEF Rectangle, Inside
<1>4. W \in Nat /\ H \in Nat
  BY DEF Size
<1>5. CASE r.x = 0
  <2> DEFINE y == Slide(r.y, r.h, f.y, f.h)
  <2>1. y \in Int /\ f.y >= y /\ f.y + f.h <= y + r.h
    BY <1>3 DEF Slide
  <2>2. c = [x |-> 0, y |-> y, w |-> r.w, h |-> r.h]
    BY <1>3, <1>5 DEF AdjustGeoByFace
  <2>3. r.w = W \/ r.w = W - 1
    <3>1. CASE r.w = W
      BY <3>1
    <3>2. CASE r.w # W
      <4>1. Middle(W, r.w) = 0
        BY <1>2, <1>5, <3>2
      <4>2. r.w <= W
        BY <1>3, <1>4, <1>5
      <4> QED
        BY <1>3, <1>4, <4>1, <4>2, MiddleAtZero
    <3> QED
      BY <3>1, <3>2
  <2>4. CASE r.w = W
    BY <1>3, <2>1, <2>2, <2>4 DEF Within
  <2>5. CASE r.w = W - 1
    BY <1>3, <1>4, <2>1, <2>2, <2>5 DEF Within
  <2> QED
    BY <2>3, <2>4, <2>5
<1>6. CASE r.x # 0
  <2> DEFINE x == Slide(r.x, r.w, f.x, f.w)
  <2>1. x \in Int /\ f.x >= x /\ f.x + f.w <= x + r.w
    BY <1>3 DEF Slide
  <2>2. r.y = 0 /\ r.h = H
    BY <1>2, <1>6
  <2>3. c = [x |-> x, y |-> 0, w |-> r.w, h |-> H]
    BY <1>3, <1>6, <2>2 DEF AdjustGeoByFace
  <2> QED
    <3>1. c.x = x /\ c.y = 0 /\ c.w = r.w /\ c.h = H
      BY <2>3
    <3> QED
      BY <1>3, <1>4, <2>1, <3>1 DEF Within
<1> QED
  BY <1>5, <1>6

-----------------------------------------------------------------------------
(* The faces and the turns.                                                *)

\* getBestFace returns one of the faces, or none.
LEMMA BestFaceIsFound ==
  ASSUME NEW faces \in Seq(Rectangle)
  PROVE  \/ BestFace(faces) = NoFace
         \/ \E i \in DOMAIN faces : BestFace(faces) = faces[i]
<1>1. CASE \E i \in DOMAIN faces : IsBest(faces, i)
  <2>1. (CHOOSE i \in DOMAIN faces : IsBest(faces, i)) \in DOMAIN faces
    BY <1>1
  <2> QED
    BY <1>1, <2>1 DEF BestFace
<1>2. CASE ~ \E i \in DOMAIN faces : IsBest(faces, i)
  BY <1>2 DEF BestFace
<1> QED
  BY <1>1, <1>2

LEMMA NoFaceInNone == BestFace(<<>>) = NoFace
BY DEF BestFace

\* A picture whose tag is not one of the two that are turned the wrong way.
LEMMA OrientedUpright ==
  ASSUME NEW tag \in Tag, tag \notin {"LeftTop", "RightBottom"}
  PROVE  AutoOrient(tag) = Upright[tag]
<1>1. tag \in {"TopLeft", "TopRight", "BottomRight", "BottomLeft", "RightTop", "LeftBottom"}
  BY DEF Tag, Upright
<1>2. CASE tag = "TopLeft"
  BY <1>2 DEF Upright, AutoOrient
<1>3. CASE tag = "TopRight"
  BY <1>3 DEF Upright, AutoOrient, AsStored, Flop
<1>4. CASE tag = "BottomRight"
  BY <1>4 DEF Upright, AutoOrient, AsStored, Flop, Flip, Rotate180
<1>5. CASE tag = "BottomLeft"
  BY <1>5 DEF Upright, AutoOrient, AsStored, Flip
<1>6. CASE tag = "RightTop"
  BY <1>6 DEF Upright, AutoOrient, AsStored, Rotate90
<1>7. CASE tag = "LeftBottom"
  BY <1>7 DEF Upright, AutoOrient, AsStored, Rotate270
<1> QED
  BY <1>1, <1>2, <1>3, <1>4, <1>5, <1>6, <1>7

-----------------------------------------------------------------------------
(* parseQueryString.                                                       *)

\* Parts before the next one say of a name what they said, unless the next one
\* has that name.
LEMMA NextPartSays ==
  ASSUME NEW n, NEW k \in Nat
  PROVE  LastSaid(n, 1 .. k + 1) =
           IF asked[k + 1].name = n THEN asked[k + 1].value ELSE LastSaid(n, 1 .. k)
<1> DEFINE before == {i \in 1 .. k : asked[i].name = n}
           given == {i \in 1 .. k + 1 : asked[i].name = n}
<1>1. CASE asked[k + 1].name = n
  <2>1. k + 1 \in given /\ \A j \in given : j <= k + 1
    BY <1>1
  <2>2. \A i \in given : (\A j \in given : j <= i) => i = k + 1
    BY <2>1
  <2>3. (CHOOSE i \in given : \A j \in given : j <= i) = k + 1
    BY <2>1, <2>2
  <2>4. given # {}
    BY <2>1
  <2>5. LastSaid(n, 1 .. k + 1) =
          asked[CHOOSE i \in given : \A j \in given : j <= i].value
    BY <2>4 DEF LastSaid
  <2> QED
    BY <1>1, <2>3, <2>5
<1>2. CASE asked[k + 1].name # n
  <2>1. given = before
    BY <1>2
  <2>2. LastSaid(n, 1 .. k + 1) =
          IF given = {} THEN Default(n)
          ELSE asked[CHOOSE i \in given : \A j \in given : j <= i].value
    BY Zenon DEF LastSaid
  <2>3. LastSaid(n, 1 .. k) =
          IF before = {} THEN Default(n)
          ELSE asked[CHOOSE i \in before : \A j \in before : j <= i].value
    BY Zenon DEF LastSaid
  <2> QED
    BY <1>2, <2>1, <2>2, <2>3, Zenon
<1> QED
  BY <1>1, <1>2

\* The loop has taken the first k parts, which are pairs; if it met one that is
\* not a pair, then behind them.
Parsed(k) ==
  /\ k <= Len(asked)
  /\ \A i \in 1 .. k : Pair(asked[i])
  /\ \A n \in Name : params[n] = LastSaid(n, 1 .. k)
  /\ again = NoPart =>
       /\ left = MaxParse - k
       /\ Len(query) = Len(asked) - k
       /\ \A i \in 1 .. Len(query) : query[i] = asked[k + i]
  /\ again # NoPart => k < MaxParse /\ k < Len(asked) /\ ~ Pair(asked[k + 1])

QueryInv ==
  /\ query \in Seq(Part) /\ asked \in Seq(Part) /\ left \in 0 .. MaxParse
  /\ again \in {NoPart, Bare, [form |-> "ended"]}
  /\ \A n \in Numeric : params[n] \in Int

ParseInv == phase = "parse" => \E k \in 0 .. MaxParse : Parsed(k)

\* The parts that are understood are the ones the loop has taken.
LEMMA ParsedIsUnderstood ==
  ASSUME QueryInv, ParseEnded, NEW k \in 0 .. MaxParse, Parsed(k)
  PROVE  Understood = 1 .. k
<1>1. MaxParse \in Nat
  BY QueryAssumption
<1>2. Len(asked) \in Nat /\ DOMAIN asked = 1 .. Len(asked)
  BY DEF QueryInv
<1>3. 1 .. k \subseteq Understood
  <2>1. k <= Len(asked) /\ \A i \in 1 .. k : Pair(asked[i])
    BY DEF Parsed
  <2>2. SUFFICES ASSUME NEW i \in 1 .. k PROVE i \in Understood
    OBVIOUS
  <2>3. i \in DOMAIN asked /\ i <= MaxParse
    BY <1>1, <1>2, <2>1
  <2>4. \A j \in 1 .. i : Pair(asked[j])
    BY <1>1, <2>1
  <2> QED
    BY <2>3, <2>4 DEF Understood
<1>4. ASSUME NEW i \in Understood PROVE i \in 1 .. k
  <2>1. i \in Nat \ {0} /\ i <= Len(asked) /\ i <= MaxParse /\ \A j \in 1 .. i : Pair(asked[j])
    BY <1>2 DEF Understood
  <2>2. SUFFICES ASSUME i >= k + 1 PROVE FALSE
    BY <2>1
  <2>3. CASE again = NoPart
    <3>1. left = MaxParse - k /\ Len(query) = Len(asked) - k
      BY <2>3 DEF Parsed
    <3>2. left > 0 /\ Len(query) > 0
      BY <1>1, <1>2, <2>1, <2>2, <3>1
    <3> QED
      BY <2>3, <3>2 DEF ParseEnded, NoPart
  <2>4. CASE again # NoPart
    <3>1. k + 1 \in 1 .. i
      BY <2>1, <2>2
    <3> QED
      BY <2>1, <2>4, <3>1 DEF Parsed
  <2> QED
    BY <2>3, <2>4
<1> QED
  BY <1>3, <1>4

\* One part more keeps the loop in step with the query.
LEMMA ParseStep ==
  ASSUME QueryInv, NEW k \in 0 .. MaxParse, Parsed(k), ParsePair \/ ParseMalformed
  PROVE  QueryInv' /\ \E m \in 0 .. MaxParse : Parsed(m)'
<1>1. MaxParse \in Nat /\ Len(asked) \in Nat /\ Len(query) \in Nat /\ left \in Nat
  BY QueryAssumption DEF QueryInv
<1>2. CASE ParsePair
  <2>1. /\ again = NoPart /\ query # <<>> /\ Pair(Head(query)) /\ left > 0
        /\ params' = WithPair(Head(query)) /\ query' = Tail(query) /\ left' = left - 1
        /\ again' = again /\ asked' = asked
    BY <1>2 DEF ParsePair
  <2>2. /\ Len(query) > 0 /\ Head(query) = query[1] /\ Head(query) \in Part
        /\ Len(query') = Len(query) - 1 /\ query' \in Seq(Part)
        /\ \A i \in 1 .. Len(query') : query'[i] = query[i + 1]
    BY <2>1 DEF QueryInv
  <2>3. Head(query) = asked[k + 1] /\ Pair(asked[k + 1]) /\ k + 1 <= Len(asked)
    BY <1>1, <2>1, <2>2 DEF Parsed
  <2>4. k + 1 \in 0 .. MaxParse
    BY <1>1, <2>1 DEF Parsed
  <2>5. QueryInv'
    <3>1. \A n \in Numeric : params'[n] \in Int
      <4>1. SUFFICES ASSUME NEW n \in Numeric PROVE WithPair(Head(query))[n] \in Int
        BY <2>1
      <4>2. n \in Name /\ params[n] \in Int
        BY DEF Name, QueryInv
      <4>3. Head(query).name = n => Head(query).value \in Int
        BY <2>1, <2>2, <4>2, QueryAssumption
      <4> QED
        BY <4>2, <4>3 DEF WithPair
    <3> QED
      BY <1>1, <2>1, <2>2, <3>1 DEF QueryInv
  <2>6. \A n \in Name : params'[n] = LastSaid(n, 1 .. k + 1)
    <3>1. SUFFICES ASSUME NEW n \in Name PROVE params'[n] = LastSaid(n, 1 .. k + 1)
      OBVIOUS
    <3>2. params[n] = LastSaid(n, 1 .. k)
      BY DEF Parsed
    <3>3. params'[n] = IF asked[k + 1].name = n THEN asked[k + 1].value ELSE params[n]
      BY <2>1, <2>3 DEF WithPair
    <3> QED
      BY <3>2, <3>3, NextPartSays
  <2>7. \A n : LastSaid(n, 1 .. k + 1)' = LastSaid(n, 1 .. k + 1)
    BY <2>1 DEF LastSaid
  <2>8. Parsed(k + 1)'
    <3>1. \A i \in 1 .. k + 1 : Pair(asked[i])
      BY <1>1, <2>3 DEF Parsed
    <3>2. /\ left' = MaxParse - (k + 1) /\ Len(query') = Len(asked) - (k + 1)
          /\ \A i \in 1 .. Len(query') : query'[i] = asked[k + 1 + i]
      <4>1. /\ left = MaxParse - k /\ Len(query) = Len(asked) - k
            /\ \A i \in 1 .. Len(query) : query[i] = asked[k + i]
        BY <2>1 DEF Parsed
      <4>2. left' = MaxParse - (k + 1) /\ Len(query') = Len(asked) - (k + 1)
        BY <1>1, <2>1, <2>2, <4>1
      <4>3. ASSUME NEW i \in 1 .. Len(query') PROVE query'[i] = asked[k + 1 + i]
        <5>1. i + 1 \in 1 .. Len(query) /\ query'[i] = query[i + 1] /\ k + (i + 1) = k + 1 + i
          BY <1>1, <2>2
        <5> QED
          BY <4>1, <5>1
      <4> QED
        BY <4>2, <4>3
    <3> QED
      BY <2>1, <2>3, <2>6, <2>7, <3>1, <3>2 DEF Parsed
  <2> QED
    BY <2>4, <2>5, <2>8
<1>3. CASE ParseMalformed
  <2>1. /\ query' = <<>> /\ left' = left - 1 /\ left > 0 /\ params' = params /\ asked' = asked
        /\ again' \in {Bare, [form |-> "ended"]}
    BY <1>3 DEF ParseMalformed, Remains
  <2>2. QueryInv'
    BY <1>1, <2>1 DEF QueryInv
  <2>3. again' # NoPart
    BY <2>1 DEF NoPart, Bare
  <2>4. k < MaxParse /\ k < Len(asked) /\ ~ Pair(asked[k + 1])
    <3>1. CASE again = NoPart
      <4>1. query # <<>> /\ ~ Pair(Head(query))
        BY <1>3, <3>1 DEF ParseMalformed, NoPart, Bare
      <4>2. Len(query) > 0 /\ Head(query) = query[1]
        BY <4>1 DEF QueryInv
      <4> QED
        BY <1>1, <2>1, <3>1, <4>1, <4>2 DEF Parsed
    <3>2. CASE again # NoPart
      BY <3>2 DEF Parsed
    <3> QED
      BY <3>1, <3>2
  <2>5. \A n : LastSaid(n, 1 .. k)' = LastSaid(n, 1 .. k)
    BY <2>1 DEF LastSaid
  <2>6. Parsed(k)'
    BY <2>1, <2>3, <2>4, <2>5 DEF Parsed
  <2> QED
    BY <2>2, <2>6
<1> QED
  BY <1>2, <1>3

-----------------------------------------------------------------------------
(* The invariant.                                                          *)

\* A picture that was decoded is shown as autoOrientImage turned it.
Oriented(p) ==
  /\ p.w \in Sizes /\ p.h \in Sizes
  /\ p.tag \in Tag /\ p.view = AutoOrient(p.tag)

PictureInv ==
  /\ picture = NoPicture \/ Oriented(picture)
  /\ phase \in {"crop", "write"} => Oriented(picture)

CropInv ==
  /\ crop.rect \in Rectangle /\ crop.face \in Rectangle
  /\ CropInside /\ KeepsFace

\* The defaults of the numbers are numbers.
LEMMA DefaultsAreNumbers ==
  ASSUME NEW n \in Numeric
  PROVE  n \in Name /\ Default(n) \in Int
BY DEF Name, Numeric, Textual, Default

LEMMA NothingToCrop == NoCrop.rect \in Rectangle /\ NoCrop.face \in Rectangle
BY DEF NoCrop, NoFace, Rectangle

IInv == QueryInv /\ ParseInv /\ PictureInv /\ CropInv

\* Steps that leave the query, the picture and the crop alone.
LEMMA OtherStep ==
  ASSUME IInv, UNCHANGED <<queryVars, picture, crop>>,
         phase' = phase \/ phase' \notin {"parse", "crop", "write"}
  PROVE  IInv'
<1>1. /\ query' = query /\ again' = again /\ left' = left /\ params' = params /\ asked' = asked
      /\ picture' = picture /\ crop' = crop
  BY DEF queryVars
<1>2. QueryInv'
  BY <1>1 DEF IInv, QueryInv
<1>3. ParseInv'
  <2>1. SUFFICES ASSUME phase' = "parse" PROVE \E k \in 0 .. MaxParse : Parsed(k)'
    BY DEF ParseInv
  <2>2. PICK k \in 0 .. MaxParse : Parsed(k)
    BY <2>1 DEF IInv, ParseInv
  <2>3. \A n : LastSaid(n, 1 .. k)' = LastSaid(n, 1 .. k)
    BY <1>1 DEF LastSaid
  <2> QED
    BY <1>1, <2>2, <2>3 DEF Parsed
<1>4. PictureInv'
  BY <1>1 DEF IInv, PictureInv, Oriented
<1>5. CropInv'
  BY <1>1 DEF IInv, CropInv, CropInside, KeepsFace
<1> QED
  BY <1>2, <1>3, <1>4, <1>5 DEF IInv

\* autoOrientImage: what Decode starts from.
LEMMA PicturesAreOriented ==
  ASSUME NEW p \in Pictures
  PROVE  Oriented(p)
<1>1. PICK w \in Sizes, h \in Sizes, tag \in Tag :
        p = [w |-> IF AutoOrient(tag).swap THEN h ELSE w,
             h |-> IF AutoOrient(tag).swap THEN w ELSE h,
             tag |-> tag, view |-> AutoOrient(tag)]
  BY DEF Pictures
<1> QED
  BY <1>1 DEF Oriented

\* cropImage with any of the faces that may be found.
LEMMA CropStep ==
  ASSUME QueryInv, Oriented(picture), Crop
  PROVE  CropInv'
<1>1. PICK target \in TargetSizes(picture.w, picture.h, params["w"], params["h"]) :
      \E r \in CropGeometries(picture.w, picture.h, target[1], target[2]) :
      \E faces \in FaceLists :
        crop' = [face |-> BestFace(faces),
                 rect |-> IF faces = <<>> THEN r ELSE AdjustGeoByFace(r, BestFace(faces))]
  BY DEF Crop
<1>2. PICK r \in CropGeometries(picture.w, picture.h, target[1], target[2]),
           faces \in FaceLists :
        crop' = [face |-> BestFace(faces),
                 rect |-> IF faces = <<>> THEN r ELSE AdjustGeoByFace(r, BestFace(faces))]
  BY <1>1
<1>3. picture.w \in Size /\ picture.h \in Size /\ picture' = picture
  BY RequestAssumption DEF Oriented, Crop
<1>4. target[1] \in Nat /\ target[2] \in Nat /\ (target[1] > 0 \/ target[2] > 0)
  <2>1. params["w"] \in Int /\ params["h"] \in Int
    BY DEF QueryInv, Numeric
  <2> QED
    BY <1>3, <2>1, TargetIsProper
<1>5. r \in Rectangle /\ Inside(r, picture.w, picture.h)
  BY <1>3, <1>4, GeometryFits
<1>6. CASE faces = <<>>
  <2>1. crop'.face = NoFace /\ crop'.rect = r
    BY <1>2, <1>6, NoFaceInNone
  <2>2. NoFace \in Rectangle
    BY DEF NoFace, Rectangle
  <2> QED
    BY <1>3, <1>5, <2>1, <2>2 DEF CropInv, CropInside, KeepsFace
<1>7. CASE faces # <<>>
  <2>1. /\ faces \in Seq(Rectangle)
        /\ \A i \in DOMAIN faces : Inside(faces[i], picture.w, picture.h)
    <3>1. ShouldFaceDetect
      BY <1>7 DEF FaceLists
    <3>2. picture.view.swap = FALSE
      BY <3>1 DEF ShouldFaceDetect, Oriented, AutoOrient, AsStored
    <3>3. /\ faces \in Detected(picture.w, picture.h)
          /\ \A i \in DOMAIN faces : Inside(faces[i], picture.w, picture.h)
      BY <1>7, <3>1, <3>2 DEF FaceLists
    <3> QED
      BY <3>3, RequestAssumption DEF Oriented
  <2>2. BestFace(faces) \in Rectangle /\ Inside(BestFace(faces), picture.w, picture.h)
    <3>1. CASE BestFace(faces) = NoFace
      BY <1>3, <3>1 DEF NoFace, Rectangle, Inside, Size
    <3>2. ASSUME NEW i \in DOMAIN faces, BestFace(faces) = faces[i]
          PROVE  BestFace(faces) \in Rectangle /\ Inside(BestFace(faces), picture.w, picture.h)
      BY <2>1, <3>2
    <3> QED
      BY <2>1, <3>1, <3>2, BestFaceIsFound
  <2>3. crop'.face = BestFace(faces) /\ crop'.rect = AdjustGeoByFace(r, BestFace(faces))
    BY <1>2, <1>7
  <2>4. picture.w \in Nat /\ picture.h \in Nat
    BY <1>3 DEF Size
  <2>5. Inside(crop'.rect, picture.w, picture.h) /\ crop'.rect \in Rectangle
    BY <1>5, <2>2, <2>3, <2>4, AdjustFits
  <2>6. crop'.rect.w = r.w /\ crop'.rect.h = r.h
    BY <1>5, <2>3 DEF AdjustGeoByFace, Rectangle
  <2>7. ASSUME crop'.face.w < crop'.rect.w, crop'.face.h < crop'.rect.h
        PROVE  \/ Within(crop'.face, crop'.rect)
               \/ /\ crop'.rect.x = 0 /\ crop'.rect.w = picture.w - 1
                  /\ Within(crop'.face, [x |-> 0, y |-> crop'.rect.y,
                                         w |-> picture.w, h |-> crop'.rect.h])
    BY <1>3, <1>4, <2>2, <2>3, <2>6, <2>7, FaceStays
  <2> QED
    BY <1>3, <2>2, <2>3, <2>5, <2>7 DEF CropInv, CropInside, KeepsFace
<1> QED
  BY <1>6, <1>7

LEMMA IInvInit == CropInit => IInv
<1> SUFFICES ASSUME CropInit PROVE IInv
  OBVIOUS
<1>1. /\ query = <<>> /\ asked = <<>> /\ again = NoPart /\ left = 0
      /\ params = [n \in Name |-> Default(n)] /\ phase = "idle" /\ picture = NoPicture
      /\ crop = NoCrop
  BY DEF CropInit, QueryInit
<1>2. \A n \in Numeric : params[n] \in Int
  BY <1>1, DefaultsAreNumbers
<1>3. QueryInv
  BY <1>1, <1>2, QueryAssumption DEF QueryInv
<1> QED
  BY <1>1, <1>3, NothingToCrop DEF IInv, ParseInv, PictureInv, CropInv, CropInside, KeepsFace

\* The loop begins with no part taken.
LEMMA RequestStep ==
  ASSUME IInv, NEW path, NEW q \in Seq(Part), RequestCrop(path, q)
  PROVE  IInv'
<1>1. CASE PathRefused(path)
  <2>1. UNCHANGED <<queryVars, picture, crop>> /\ phase' = "answered"
    BY <1>1 DEF RequestCrop, Goto, pictureVars
  <2> QED
    BY <2>1, OtherStep
<1>2. CASE ~ PathRefused(path)
  <2>1. /\ phase' = "parse" /\ picture' = picture /\ crop' = crop
        /\ query' = q /\ asked' = q /\ again' = NoPart /\ left' = MaxParse
        /\ params' = [n \in Name |-> Default(n)]
    BY <1>2 DEF RequestCrop, Goto, pictureVars, ParseStart
  <2>2. \A n \in Numeric : params'[n] \in Int
    BY <2>1, DefaultsAreNumbers
  <2>3. QueryInv'
    BY <2>1, <2>2, QueryAssumption DEF QueryInv
  <2>4. Parsed(0)'
    <3>1. \A n : LastSaid(n, 1 .. 0)' = Default(n)
      <4>1. \A n : {i \in 1 .. 0 : asked'[i].name = n} = {}
        OBVIOUS
      <4> QED
        BY <4>1 DEF LastSaid
    <3>2. Len(q) \in Nat /\ MaxParse \in Nat
      BY QueryAssumption
    <3> QED
      BY <2>1, <3>1, <3>2 DEF Parsed
  <2>5. ParseInv'
    BY <2>4, QueryAssumption DEF ParseInv
  <2>6. PictureInv' /\ CropInv'
    BY <2>1 DEF IInv, PictureInv, Oriented, CropInv, CropInside, KeepsFace
  <2> QED
    BY <2>3, <2>5, <2>6 DEF IInv
<1> QED
  BY <1>1, <1>2

\* What ForgetQuery keeps of the parameters.
LEMMA DecideStep ==
  ASSUME IInv, Decide
  PROVE  IInv'
<1>1. /\ phase' \in {"answered", "fetch"} /\ picture' = picture /\ crop' = crop
      /\ query' = <<>> /\ asked' = <<>> /\ again' = NoPart /\ left' = 0
      /\ params' = [n \in Name |-> IF n \in {"w", "h", "crop"} THEN params[n] ELSE Default(n)]
  BY DEF Decide, Goto, ForgetQuery, pictureVars
<1>2. \A n \in Numeric : params'[n] \in Int
  BY <1>1, DefaultsAreNumbers DEF IInv, QueryInv
<1>3. QueryInv'
  BY <1>1, <1>2, QueryAssumption DEF IInv, QueryInv
<1> QED
  BY <1>1, <1>3 DEF IInv, ParseInv, PictureInv, Oriented, CropInv, CropInside, KeepsFace

LEMMA FinishStep ==
  ASSUME IInv, Finish
  PROVE  IInv'
<1>1. /\ phase' = "idle" /\ picture' = NoPicture /\ crop' = NoCrop
      /\ query' = query /\ asked' = asked /\ again' = again /\ left' = left
      /\ params' = [n \in Name |-> Default(n)]
  BY DEF Finish, Goto
<1>2. \A n \in Numeric : params'[n] \in Int
  BY <1>1, DefaultsAreNumbers
<1>3. QueryInv'
  BY <1>1, <1>2 DEF IInv, QueryInv
<1> QED
  BY <1>1, <1>3, NothingToCrop DEF IInv, ParseInv, PictureInv, CropInv, CropInside, KeepsFace

LEMMA IInvNext == IInv /\ [CropNext]_allVars => IInv'
<1> SUFFICES ASSUME IInv, [CropNext]_allVars PROVE IInv'
  OBVIOUS
<1>1. CASE UNCHANGED allVars
  BY <1>1, OtherStep DEF allVars, queryVars, pictureVars
<1>2. ASSUME NEW path \in Path, NEW n \in 0 .. MaxQuery, NEW q \in [1 .. n -> Part],
             RequestCrop(path, q)
      PROVE  IInv'
  <2>1. q \in Seq(Part)
    BY RequestAssumption
  <2> QED
    BY <1>2, <2>1, RequestStep
<1>3. ASSUME NEW wanted, RequestMontage(wanted) PROVE IInv'
  BY <1>3, OtherStep DEF RequestMontage, Goto, pictureVars
<1>4. ASSUME NEW k \in Key, NEW u \in Upload, Save(k, u) PROVE IInv'
  BY <1>4, OtherStep DEF Save, SaveGridFS, SaveS3, Goto, pictureVars
<1>5. CASE Parse
  <2>1. /\ phase = "parse" /\ phase' = phase /\ picture' = picture /\ crop' = crop
        /\ ParsePair \/ ParseMalformed
    BY <1>5 DEF Parse, pictureVars
  <2>2. PICK k \in 0 .. MaxParse : Parsed(k)
    BY <2>1 DEF IInv, ParseInv
  <2>3. QueryInv' /\ \E m \in 0 .. MaxParse : Parsed(m)'
    BY <2>1, <2>2, ParseStep DEF IInv
  <2> QED
    BY <2>1, <2>3 DEF IInv, ParseInv, PictureInv, Oriented, CropInv, CropInside, KeepsFace
<1>6. CASE Decide
  BY <1>6, DecideStep
<1>7. CASE ReadNothing \/ ReadGridFS \/ ReadS3 \/ S3Callback
  BY <1>7, OtherStep DEF ReadNothing, ReadGridFS, ReadS3, S3Callback, pictureVars
<1>8. CASE ReadAll
  BY <1>8, OtherStep DEF ReadAll, Goto, pictureVars
<1>9. CASE AllocElement
  <2>1. UNCHANGED <<queryVars, picture, crop>> /\ phase' \notin {"parse", "crop", "write"}
    BY <1>9 DEF AllocElement
  <2> QED
    BY <2>1, OtherStep
<1>10. CASE Decode
  <2>1. /\ phase' = "crop" /\ crop' = crop /\ UNCHANGED queryVars
        /\ IF picture = NoPicture THEN picture' \in Pictures ELSE picture' = picture
    BY <1>10 DEF Decode, Goto
  <2>2. Oriented(picture)'
    <3>1. CASE picture = NoPicture
      <4>1. Oriented(picture')
        BY <2>1, <3>1, PicturesAreOriented
      <4> QED
        BY <4>1 DEF Oriented
    <3>2. CASE picture # NoPicture
      BY <2>1, <3>2 DEF IInv, PictureInv, Oriented
    <3> QED
      BY <3>1, <3>2
  <2>3. QueryInv'
    BY <2>1 DEF IInv, QueryInv, queryVars
  <2> QED
    BY <2>1, <2>2, <2>3 DEF IInv, ParseInv, PictureInv, CropInv, CropInside, KeepsFace
<1>11. CASE DecodeFails
  BY <1>11, OtherStep DEF DecodeFails, Goto, pictureVars
<1>12. CASE Crop
  <2>1. phase = "crop" /\ phase' = "write" /\ picture' = picture /\ UNCHANGED queryVars
    BY <1>12 DEF Crop, Goto
  <2>2. CropInv'
    BY <1>12, <2>1, CropStep DEF IInv, PictureInv
  <2>3. QueryInv'
    BY <2>1 DEF IInv, QueryInv, queryVars
  <2> QED
    BY <2>1, <2>2, <2>3 DEF IInv, ParseInv, PictureInv, Oriented
<1>13. CASE Write
  <2>1. /\ picture' = picture /\ crop' = NoCrop /\ UNCHANGED queryVars
        /\ phase' \notin {"parse", "crop", "write"}
    BY <1>13 DEF Write
  <2>2. QueryInv'
    BY <2>1 DEF IInv, QueryInv, queryVars
  <2> QED
    BY <2>1, <2>2, NothingToCrop
       DEF IInv, ParseInv, PictureInv, Oriented, CropInv, CropInside, KeepsFace
<1>14. CASE SendOriginal
  BY <1>14, OtherStep DEF SendOriginal, pictureVars
<1>15. CASE Finish
  BY <1>15, FinishStep
<1>16. CASE SendBody
  BY <1>16, OtherStep DEF SendBody, pictureVars
<1>17. CASE BodySent \/ SaveReturns
  BY <1>17, OtherStep DEF BodySent, SaveReturns, Goto, pictureVars
<1> QED
  BY <1>1, <1>2, <1>3, <1>4, <1>5, <1>6, <1>7, <1>8, <1>9, <1>10, <1>11, <1>12, <1>13,
     <1>14, <1>15, <1>16, <1>17 DEF CropNext

LEMMA Invariance == CropSpec => []IInv
<1> QED
  BY IInvInit, IInvNext, PTL DEF CropSpec

-----------------------------------------------------------------------------
(* The theorems.                                                           *)

\* Whatever the sizes of the picture, the target and the face, the rectangle
\* cropImage cuts out lies in the picture.
THEOREM CropIsInside == CropSpec => []CropInside
<1>1. IInv => CropInside
  BY DEF IInv, CropInv
<1> QED
  BY <1>1, Invariance, PTL

\* The best face stays in the crop if it is smaller, up to one column that the
\* truncation of a quotient may have lost.
THEOREM FaceIsKept == CropSpec => []KeepsFace
<1>1. IInv => KeepsFace
  BY DEF IInv, CropInv
<1> QED
  BY <1>1, Invariance, PTL

\* For queries and limits of any length, parseQueryString ends with the last
\* value of each parameter before the first part that is not a pair.
THEOREM QueryIsUnderstood == CropSpec => []ParsedAsMeant
<1>1. IInv => ParsedAsMeant
  <2>1. SUFFICES ASSUME IInv, phase = "parse", ParseEnded, NEW n \in Name
                 PROVE  params[n] = Meant(n)
    BY DEF ParsedAsMeant
  <2>2. PICK k \in 0 .. MaxParse : Parsed(k)
    BY <2>1 DEF IInv, ParseInv
  <2>3. Understood = 1 .. k
    BY <2>1, <2>2, ParsedIsUnderstood DEF IInv
  <2> QED
    BY <2>2, <2>3 DEF Meant, Parsed
<1> QED
  BY <1>1, Invariance, PTL

\* autoOrientImage turns a picture upright by six of the eight tags of EXIF.
THEOREM PictureIsUpright == CropSpec => []ShownUpright
<1>1. IInv => ShownUpright
  BY OrientedUpright DEF IInv, PictureInv, Oriented, ShownUpright
<1> QED
  BY <1>1, Invariance, PTL

-----------------------------------------------------------------------------
(* Blocks.                                                                 *)

\* What a cell of memory can hold.
Block == (Upload \X Nat) \cup {Junk}

LEMMA VersionType ==
  ASSUME NEW v \in Version
  PROVE  v[1] \in Upload /\ v[2] \in 0 .. Blocks[v[1]] /\ v[2] \in Nat /\ v = <<v[1], v[2]>>
<1>1. PICK u \in Upload : v \in {<<u, n>> : n \in 0 .. Blocks[u]}
  BY Zenon DEF Version
<1>2. PICK n \in 0 .. Blocks[u] : v = <<u, n>>
  BY <1>1
<1>3. Blocks[u] \in Nat
  BY FilesAssumption
<1> QED
  BY <1>2, <1>3

LEMMA FreshType ==
  ASSUME NEW n \in Nat
  PROVE  Fresh(n) \in Seq(Block) /\ Len(Fresh(n)) = n
BY DEF Fresh, Block

\* Memory that begins with all blocks of a version leads to its content.
LEMMA BytesAreContent ==
  ASSUME NEW v \in Version, NEW memory_ \in Seq(Block), v[2] <= Len(memory_),
         \A i \in 1 .. v[2] : memory_[i] = <<v[1], i>>
  PROVE  Bytes(memory_, v[2]) = Content(v)
<1>1. v[2] \in Nat
  BY VersionType
<1>2. \A i \in 1 .. v[2] : memory_[i] \in Block
  BY <1>1, ElementOfSeq
<1>3. /\ Bytes(memory_, v[2]) \in Seq(Block)
      /\ Len(Bytes(memory_, v[2])) = v[2]
      /\ \A i \in 1 .. v[2] : Bytes(memory_, v[2])[i] = memory_[i]
  BY <1>1, <1>2, SubSeqProperties DEF Bytes
<1>4. DOMAIN Bytes(memory_, v[2]) = 1 .. v[2]
  BY <1>1, <1>3
<1>5. Bytes(memory_, v[2]) = [i \in 1 .. v[2] |-> Bytes(memory_, v[2])[i]]
  BY <1>3, <1>4
<1> QED
  BY <1>3, <1>5 DEF Content

-----------------------------------------------------------------------------
(* The invariant.                                                          *)

ImageMemory == [len : Nat, memory : Seq(Block) \cup {NoMemory}, memoryLen : Nat, offset : Nat]

FilesInv == remote \in [Key -> SUBSET Version] /\ keys \in Seq(Key)

\* The shared buffer is as long as _BUFFER_LEN says, and no image is longer.
GridInv ==
  /\ memoryLen \in Nat /\ gridLens \in Seq(Nat)
  /\ memory # NoMemory => memory \in Seq(Block) /\ Len(memory) = memoryLen
  /\ \A i \in DOMAIN gridLens : gridLens[i] <= memoryLen

\* The image that libs3 fills has what it was sent so far.
Filled(version, image) ==
  /\ image.len = version[2] /\ image.len <= image.memoryLen /\ image.offset <= image.len
  /\ image.memory \in Seq(Block) /\ Len(image.memory) = image.memoryLen
  /\ \A i \in 1 .. image.offset : image.memory[i] = <<version[1], i>>

GetInv ==
  s3Get # Nothing =>
    /\ phase = "fetch" /\ keys # <<>>
    /\ s3Get \in [version : Version, image : ImageMemory, answered : BOOLEAN]
    /\ IF s3Get.answered THEN Filled(s3Get.version, s3Get.image) ELSE s3Get.image = NewImage

PutInv ==
  s3Put # Nothing =>
    /\ s3Put \in [key : Key, upload : Upload, offset : Nat]
    /\ s3Put.offset <= Blocks[s3Put.upload]

\* Images are kept with the version they were read from; each storage has its
\* own.
ImagesInv ==
  /\ images \in Seq([version : Version, whole : BOOLEAN])
  /\ s3Images \in Seq(ImageMemory)
  /\ backend \in {"gridfs", "s3"}
  /\ backend = "gridfs" => s3Get = Nothing /\ s3Images = <<>>
  /\ backend = "s3" => Len(images) = Len(s3Images)
  /\ LastIsOwn /\ AllOwn

StorageInv == FilesInv /\ GridInv /\ GetInv /\ PutInv /\ ImagesInv /\ SilentPutIsStored

LEMMA StorageInit == CropInit => StorageInv
<1> SUFFICES ASSUME CropInit PROVE StorageInv
  OBVIOUS
<1>1. /\ remote = InitialFiles /\ keys = <<>> /\ images = <<>> /\ phase = "idle"
      /\ memory = NoMemory /\ memoryLen = InitialLen /\ gridLens = <<>>
      /\ s3Images = <<>> /\ s3Get = Nothing /\ s3Put = Nothing
      /\ backend \in {"gridfs", "s3"}
  BY RequestAssumption DEF CropInit, GridInit, S3Init
<1>2. FilesInv
  BY <1>1, RequestAssumption DEF FilesInv
<1>3. GridInv
  BY <1>1, FilesAssumption DEF GridInv
<1>4. ImagesInv
  BY <1>1 DEF ImagesInv, LastIsOwn, AllOwn
<1> QED
  BY <1>1, <1>2, <1>3, <1>4 DEF StorageInv, GetInv, PutInv, SilentPutIsStored

\* Steps that leave storage and images alone.
LEMMA OthersKeep ==
  ASSUME StorageInv, UNCHANGED <<remote, gridVars, s3Vars, backend, images>>,
         keys' = keys \/ keys' \in Seq(Key),
         phase # "fetch" \/ s3Get = Nothing \/ UNCHANGED <<phase, keys>>,
         phase' # "saved" \/ UNCHANGED <<phase, saved>>
  PROVE  StorageInv'
<1>1. /\ remote' = remote /\ memory' = memory /\ memoryLen' = memoryLen /\ gridLens' = gridLens
      /\ s3Images' = s3Images /\ s3Get' = s3Get /\ s3Put' = s3Put
      /\ backend' = backend /\ images' = images
  BY DEF gridVars, s3Vars
<1>2. FilesInv'
  BY <1>1 DEF StorageInv, FilesInv
<1>3. GridInv'
  BY <1>1 DEF StorageInv, GridInv
<1>4. GetInv' /\ PutInv'
  BY <1>1 DEF StorageInv, GetInv, PutInv, Filled
<1>5. ImagesInv'
  BY <1>1 DEF StorageInv, ImagesInv, LastIsOwn, AllOwn
<1>6. SilentPutIsStored'
  BY <1>1 DEF StorageInv, SilentPutIsStored
<1> QED
  BY <1>2, <1>3, <1>4, <1>5, <1>6 DEF StorageInv

-----------------------------------------------------------------------------
(* Reading.                                                                *)

\* The file that is asked for is a key, and what is found under it a version.
LEMMA ReadingFacts ==
  ASSUME StorageInv, Reading
  PROVE  /\ Tail(keys) \in Seq(Key) /\ s3Get = Nothing /\ phase = "fetch"
         /\ remote[Head(keys)] \subseteq Version
<1>1. Head(keys) \in Key /\ Tail(keys) \in Seq(Key)
  BY HeadTailProperties DEF StorageInv, FilesInv, Reading
<1> QED
  BY <1>1 DEF StorageInv, FilesInv, Reading

LEMMA ReadNothingStep == StorageInv /\ ReadNothing => StorageInv'
<1> SUFFICES ASSUME StorageInv, ReadNothing PROVE StorageInv'
  OBVIOUS
<1>1. UNCHANGED <<remote, gridVars, s3Vars, backend, images, phase>> /\ Reading
  BY DEF ReadNothing, requestVars
<1>2. keys' \in Seq(Key) /\ phase' # "saved" /\ s3Get = Nothing
  BY <1>1, ReadingFacts DEF ReadNothing
<1> QED
  BY <1>1, <1>2, OthersKeep

\* The buffer holds what the file has, whether it had to grow or not.
LEMMA BufferFits ==
  ASSUME GridInv, NEW n \in Nat
  PROVE  /\ GrownLen(n) \in Nat /\ GrownLen(n) >= n /\ GrownLen(n) >= memoryLen
         /\ Reserved(n) \in Seq(Block) /\ Len(Reserved(n)) = GrownLen(n)
<1>1. GrownLen(n) \in Nat /\ GrownLen(n) >= n /\ GrownLen(n) >= memoryLen
  BY DEF GridInv, GrownLen
<1>2. CASE n > memoryLen \/ memory = NoMemory
  BY <1>1, <1>2, FreshType DEF Reserved
<1>3. CASE ~ (n > memoryLen \/ memory = NoMemory)
  BY <1>1, <1>3 DEF GridInv, Reserved, GrownLen
<1> QED
  BY <1>1, <1>2, <1>3

LEMMA ReadIntoType ==
  ASSUME NEW cells \in Seq(Block), NEW v \in Version, NEW got \in Nat, got <= Len(cells)
  PROVE  /\ ReadInto(cells, v, got) \in Seq(Block)
         /\ Len(ReadInto(cells, v, got)) = Len(cells)
         /\ \A i \in 1 .. got : ReadInto(cells, v, got)[i] = <<v[1], i>>
<1> DEFINE n == Len(cells)
<1>1. n \in Nat /\ DOMAIN cells = 1 .. n /\ \A i \in 1 .. n : cells[i] \in Block
  BY LenProperties, ElementOfSeq
<1>2. \A i \in 1 .. n : <<v[1], i>> \in Block
  BY VersionType DEF Block
<1>3. ReadInto(cells, v, got) = [i \in 1 .. n |-> IF i <= got THEN <<v[1], i>> ELSE cells[i]]
  BY <1>1 DEF ReadInto
<1>4. ReadInto(cells, v, got) \in [1 .. n -> Block]
  BY <1>1, <1>2, <1>3
<1>5. ReadInto(cells, v, got) \in Seq(Block) /\ Len(ReadInto(cells, v, got)) = n
  BY <1>1, <1>4
<1>6. \A i \in 1 .. got : i \in 1 .. n
  BY <1>1
<1> QED
  BY <1>3, <1>5, <1>6

\* An image joins those that the thread has read from GridFS.
LEMMA GridImage ==
  ASSUME StorageInv, NEW v \in Version, NEW whole \in BOOLEAN, NEW n \in Nat,
         backend = "gridfs", Reading, GotImage(v, whole), gridLens' = Append(gridLens, n),
         memoryLen' \in Nat, memoryLen' >= memoryLen, n <= memoryLen',
         memory' # NoMemory => memory' \in Seq(Block) /\ Len(memory') = memoryLen',
         whole => Bytes(memory', v[2]) = Content(v),
         UNCHANGED <<remote, s3Vars, backend, phase>>
  PROVE  StorageInv'
<1> DEFINE image == [version |-> v, whole |-> whole]
<1>1. /\ remote' = remote /\ s3Images' = s3Images /\ s3Get' = s3Get /\ s3Put' = s3Put
      /\ backend' = backend /\ phase' = phase /\ phase = "fetch"
      /\ keys' \in Seq(Key) /\ images' = Append(images, image)
  BY ReadingFacts DEF s3Vars, GotImage
<1>2. FilesInv'
  BY <1>1 DEF StorageInv, FilesInv
<1>3. GridInv'
  <2>1. gridLens' \in Seq(Nat)
    BY DEF StorageInv, GridInv
  <2>2. \A i \in DOMAIN gridLens' : gridLens'[i] <= memoryLen'
    <3> SUFFICES ASSUME NEW i \in DOMAIN gridLens' PROVE gridLens'[i] <= memoryLen'
      OBVIOUS
    <3>1. /\ gridLens \in Seq(Nat) /\ memoryLen \in Nat
          /\ \A j \in DOMAIN gridLens : gridLens[j] <= memoryLen
      BY DEF StorageInv, GridInv
    <3>2. CASE i \in DOMAIN gridLens
      <4>1. gridLens[i] \in Nat /\ gridLens'[i] = gridLens[i]
        BY <3>1, <3>2
      <4> QED
        BY <3>1, <3>2, <4>1
    <3>3. CASE i \notin DOMAIN gridLens
      <4>1. gridLens'[i] = n
        BY <3>1, <3>3
      <4> QED
        BY <4>1
    <3> QED
      BY <3>2, <3>3
  <2> QED
    BY <2>1, <2>2 DEF GridInv
<1>4. GetInv' /\ PutInv'
  <2>1. s3Get' = Nothing
    BY <1>1, ReadingFacts
  <2> QED
    BY <1>1, <2>1 DEF StorageInv, GetInv, PutInv
<1>5. ImagesInv'
  <2>1. /\ images \in Seq([version : Version, whole : BOOLEAN])
        /\ image \in [version : Version, whole : BOOLEAN]
        /\ s3Images = <<>> /\ s3Get = Nothing
    BY DEF StorageInv, ImagesInv
  <2>2. /\ images' \in Seq([version : Version, whole : BOOLEAN])
        /\ Len(images') = Len(images) + 1 /\ images'[Len(images) + 1] = image
    BY <1>1, <2>1, AppendProperties
  <2>3. LastIsOwn'
    BY <2>2 DEF LastIsOwn
  <2>4. AllOwn'
    BY <1>1, <2>1 DEF AllOwn
  <2> QED
    BY <1>1, <2>1, <2>2, <2>3, <2>4 DEF StorageInv, ImagesInv
<1>6. SilentPutIsStored'
  BY <1>1 DEF SilentPutIsStored
<1> QED
  BY <1>2, <1>3, <1>4, <1>5, <1>6 DEF StorageInv

LEMMA ReadGridFSStep == StorageInv /\ ReadGridFS => StorageInv'
<1> SUFFICES ASSUME StorageInv, ReadGridFS PROVE StorageInv'
  OBVIOUS
<1>1. PICK v \in remote[Head(keys)] :
        \/ \E got \in 0 .. v[2] : GridGet(v, got) /\ GotImage(v, got = v[2])
        \/ GridGetNoMemory(v) /\ GotImage(v, FALSE)
  BY DEF ReadGridFS
<1>2. /\ v \in Version /\ Reading /\ backend = "gridfs" /\ v[2] \in Nat /\ memoryLen \in Nat
      /\ UNCHANGED <<s3Vars, backend, phase>>
  BY ReadingFacts, VersionType DEF ReadGridFS, requestVars, StorageInv, GridInv
<1>3. ASSUME NEW got \in 0 .. v[2], GridGet(v, got), GotImage(v, got = v[2])
      PROVE  StorageInv'
  <2> DEFINE cells == Reserved(v[2])
  <2>1. /\ GrownLen(v[2]) \in Nat /\ GrownLen(v[2]) >= v[2] /\ GrownLen(v[2]) >= memoryLen
        /\ cells \in Seq(Block) /\ Len(cells) = GrownLen(v[2])
    BY <1>2, BufferFits DEF StorageInv
  <2>2. got \in Nat /\ got <= Len(cells)
    BY <1>2, <2>1
  <2>3. /\ ReadInto(cells, v, got) \in Seq(Block) /\ Len(ReadInto(cells, v, got)) = Len(cells)
        /\ \A i \in 1 .. got : ReadInto(cells, v, got)[i] = <<v[1], i>>
    BY <1>2, <2>1, <2>2, ReadIntoType
  <2>4. /\ memory' = ReadInto(cells, v, got) /\ memoryLen' = GrownLen(v[2])
        /\ gridLens' = Append(gridLens, v[2]) /\ remote' = remote
    BY <1>3 DEF GridGet
  <2>5. ASSUME got = v[2] PROVE Bytes(memory', v[2]) = Content(v)
    BY <1>2, <2>1, <2>3, <2>4, <2>5, BytesAreContent
  <2>6. GotImage(v, got = v[2]) /\ (got = v[2]) \in BOOLEAN
    BY <1>3
  <2> HIDE DEF cells
  <2> QED
    BY <1>2, <2>1, <2>3, <2>4, <2>5, <2>6, GridImage
<1>4. ASSUME GridGetNoMemory(v), GotImage(v, FALSE)
      PROVE  StorageInv'
  <2>1. GrownLen(v[2]) \in Nat /\ GrownLen(v[2]) >= memoryLen
    BY <1>2, BufferFits DEF StorageInv
  <2>2. /\ memory' = NoMemory /\ memoryLen' = GrownLen(v[2])
        /\ gridLens' = Append(gridLens, 0) /\ remote' = remote
    BY <1>4 DEF GridGetNoMemory
  <2>3. /\ memoryLen' \in Nat /\ memoryLen' >= memoryLen /\ 0 <= memoryLen' /\ 0 \in Nat
        /\ FALSE \in BOOLEAN /\ UNCHANGED <<remote, s3Vars, backend, phase>>
    BY <1>2, <2>1, <2>2
  <2> QED
    BY <1>2, <1>4, <2>2, <2>3, GridImage
<1> QED
  BY <1>1, <1>3, <1>4

LEMMA ReadS3Step == StorageInv /\ ReadS3 => StorageInv'
<1> SUFFICES ASSUME StorageInv, ReadS3 PROVE StorageInv'
  OBVIOUS
<1>1. PICK v \in remote[Head(keys)] : S3GetStart(v)
  BY DEF ReadS3
<1>2. /\ v \in Version /\ backend = "s3" /\ phase = "fetch" /\ keys # <<>>
      /\ memory' = memory /\ memoryLen' = memoryLen /\ gridLens' = gridLens
      /\ backend' = backend /\ phase' = phase /\ keys' = keys /\ images' = images
      /\ remote' = remote /\ s3Images' = s3Images /\ s3Put' = s3Put
      /\ s3Get' = [version |-> v, image |-> NewImage, answered |-> FALSE]
  BY <1>1, ReadingFacts DEF ReadS3, Reading, S3GetStart, requestVars, gridVars
<1>3. FilesInv' /\ GridInv' /\ PutInv' /\ SilentPutIsStored'
  BY <1>2 DEF StorageInv, FilesInv, GridInv, PutInv, SilentPutIsStored
<1>4. GetInv'
  <2>1. NewImage \in ImageMemory
    BY FilesAssumption DEF NewImage, ImageMemory
  <2> QED
    BY <1>2, <2>1 DEF GetInv
<1>5. ImagesInv'
  BY <1>2 DEF StorageInv, ImagesInv, LastIsOwn, AllOwn
<1> QED
  BY <1>3, <1>4, <1>5 DEF StorageInv

\* The length arrives: the image has memory for the whole file.
LEMMA PropertiesArrive ==
  ASSUME NEW v \in Version
  PROVE  Reinit(NewImage, v[2]) \in ImageMemory /\ Filled(v, Reinit(NewImage, v[2]))
<1> DEFINE n == v[2]
           size == IF n > InitialLen THEN InitialLen + n ELSE InitialLen
<1>1. n \in Nat /\ InitialLen \in Nat
  BY VersionType, FilesAssumption
<1>2. size \in Nat /\ size >= n
  BY <1>1
<1>3. Fresh(size) \in Seq(Block) /\ Len(Fresh(size)) = size
  BY <1>2, FreshType
<1>4. Reinit(NewImage, n)
        = [len |-> n, memory |-> Fresh(size), memoryLen |-> size, offset |-> 0]
  BY DEF Reinit, NewImage
<1> HIDE DEF size
<1>5. Reinit(NewImage, n) \in ImageMemory
  BY <1>1, <1>2, <1>3, <1>4 DEF ImageMemory
<1>6. Filled(v, Reinit(NewImage, n))
  BY <1>1, <1>2, <1>3, <1>4 DEF Filled
<1> QED
  BY <1>5, <1>6

\* More blocks arrive, behind those that are there.
LEMMA DataArrives ==
  ASSUME NEW v \in Version, NEW image \in ImageMemory, Filled(v, image),
         NEW n \in 1 .. v[2] - image.offset
  PROVE  ReadData(image, v, n) \in ImageMemory /\ Filled(v, ReadData(image, v, n))
<1> DEFINE cells == image.memory
           size == image.memoryLen
           more == image.offset + 1 .. image.offset + n
           filled == [i \in DOMAIN cells |-> IF i \in more THEN <<v[1], i>> ELSE cells[i]]
<1>1. /\ v[2] \in Nat /\ image.offset \in Nat /\ size \in Nat /\ n \in Nat
      /\ image.len = v[2] /\ image.len <= size /\ image.offset + n <= v[2]
      /\ cells \in Seq(Block) /\ Len(cells) = size
      /\ \A i \in 1 .. image.offset : cells[i] = <<v[1], i>>
  BY VersionType DEF ImageMemory, Filled
<1>2. DOMAIN cells = 1 .. size /\ \A i \in 1 .. size : cells[i] \in Block
  BY <1>1, LenProperties, ElementOfSeq
<1>3. \A i \in 1 .. size : <<v[1], i>> \in Block
  BY VersionType DEF Block
<1>4. filled \in [1 .. size -> Block]
  BY <1>2, <1>3
<1>5. filled \in Seq(Block) /\ Len(filled) = size
  BY <1>1, <1>4
<1>6. \A i \in 1 .. image.offset + n : filled[i] = <<v[1], i>>
  <2> SUFFICES ASSUME NEW i \in 1 .. image.offset + n PROVE filled[i] = <<v[1], i>>
    OBVIOUS
  <2>1. i \in DOMAIN cells
    BY <1>1, <1>2
  <2>2. CASE i \in more
    BY <2>1, <2>2
  <2>3. CASE i \notin more
    <3>1. i \in 1 .. image.offset
      BY <1>1, <2>3
    <3> QED
      BY <1>1, <2>1, <2>3, <3>1
  <2> QED
    BY <2>2, <2>3
<1>7. ReadData(image, v, n) = [len |-> image.len, memory |-> filled,
                               memoryLen |-> image.memoryLen, offset |-> image.offset + n]
  BY DEF ReadData
<1> HIDE DEF filled
<1>8. ReadData(image, v, n) \in ImageMemory
  BY <1>1, <1>5, <1>7 DEF ImageMemory
<1>9. Filled(v, ReadData(image, v, n))
  BY <1>1, <1>5, <1>6, <1>7 DEF Filled
<1> QED
  BY <1>8, <1>9

\* libs3 works on a GET for the first of the keys.
LEMMA GetFacts ==
  ASSUME StorageInv, s3Get # Nothing
  PROVE  /\ s3Get \in [version : Version, image : ImageMemory, answered : BOOLEAN]
         /\ phase = "fetch" /\ keys # <<>> /\ Tail(keys) \in Seq(Key)
         /\ backend = "s3" /\ Len(images) = Len(s3Images)
         /\ IF s3Get.answered THEN Filled(s3Get.version, s3Get.image) ELSE s3Get.image = NewImage
<1>1. keys \in Seq(Key) /\ keys # <<>>
  BY DEF StorageInv, FilesInv, GetInv
<1>2. Tail(keys) \in Seq(Key)
  BY <1>1, HeadTailProperties
<1> QED
  BY <1>1, <1>2 DEF StorageInv, GetInv, ImagesInv

LEMMA S3CallbackStep == StorageInv /\ S3Callback => StorageInv'
<1> SUFFICES ASSUME StorageInv, S3Callback PROVE StorageInv'
  OBVIOUS
<1>1. /\ memory' = memory /\ memoryLen' = memoryLen /\ gridLens' = gridLens
      /\ backend' = backend /\ phase' = phase /\ phase = "fetch"
  BY DEF S3Callback, requestVars, gridVars
<1>2. GridInv' /\ SilentPutIsStored'
  BY <1>1 DEF StorageInv, GridInv, SilentPutIsStored
<1>3. /\ s3Get # Nothing /\ remote' = remote /\ s3Put' = s3Put
  BY DEF S3Callback, S3GetProperties, S3GetData, S3GetDone, S3GetFailed
<1>4. PutInv'
  BY <1>3 DEF StorageInv, PutInv
<1>5. ASSUME S3GetProperties \/ S3GetData, UNCHANGED <<keys, images>>
      PROVE  StorageInv'
  <2>1. s3Images' = s3Images
    BY <1>5 DEF S3GetProperties, S3GetData
  <2>2. FilesInv' /\ ImagesInv'
    <3>1. backend = "s3"
      BY <1>3, GetFacts
    <3> QED
      BY <1>1, <1>3, <1>5, <2>1, <3>1
         DEF StorageInv, FilesInv, ImagesInv, LastIsOwn, AllOwn
  <2>3. CASE S3GetProperties
    <3> DEFINE image == Reinit(s3Get.image, s3Get.version[2])
    <3>1. s3Get.version \in Version /\ s3Get.image = NewImage
      BY <1>3, <2>3, GetFacts DEF S3GetProperties
    <3>2. image \in ImageMemory /\ Filled(s3Get.version, image)
      BY <3>1, PropertiesArrive
    <3>3. s3Get' = [version |-> s3Get.version, image |-> image, answered |-> TRUE]
      BY <1>3, <2>3, GetFacts DEF S3GetProperties
    <3>4. GetInv'
      <4> HIDE DEF image
      <4> QED
        BY <1>1, <1>3, <1>5, <3>1, <3>2, <3>3, GetFacts DEF GetInv
    <3> QED
      BY <1>2, <1>4, <2>2, <3>4 DEF StorageInv
  <2>4. CASE S3GetData
    <3>1. PICK n \in 1 .. s3Get.version[2] - s3Get.image.offset :
            s3Get' = [s3Get EXCEPT !.image = ReadData(@, s3Get.version, n)]
      BY <2>4 DEF S3GetData
    <3> DEFINE image == ReadData(s3Get.image, s3Get.version, n)
    <3>2. /\ s3Get.version \in Version /\ s3Get.image \in ImageMemory /\ s3Get.answered = TRUE
          /\ Filled(s3Get.version, s3Get.image)
      BY <1>3, <2>4, GetFacts DEF S3GetData
    <3>3. image \in ImageMemory /\ Filled(s3Get.version, image)
      BY <3>2, DataArrives
    <3>4. s3Get' = [version |-> s3Get.version, image |-> image, answered |-> TRUE]
      BY <1>3, <3>1, <3>2, GetFacts
    <3>5. GetInv'
      <4> HIDE DEF image
      <4> QED
        BY <1>1, <1>3, <1>5, <3>2, <3>3, <3>4, GetFacts DEF GetInv
    <3> QED
      BY <1>2, <1>4, <2>2, <3>5 DEF StorageInv
  <2> QED
    BY <1>5, <2>3, <2>4
<1>6. ASSUME S3GetDone, GotImage(s3Get.version, TRUE)
      PROVE  StorageInv'
  <2> DEFINE v == s3Get.version
             image == s3Get.image
             n == Len(images)
             record == [version |-> v, whole |-> TRUE]
  <2>1. /\ v \in Version /\ image \in ImageMemory /\ Filled(v, image)
        /\ image.offset = image.len /\ backend = "s3" /\ Len(s3Images) = n
    BY <1>3, <1>6, GetFacts DEF S3GetDone, IsComplete
  <2>2. /\ images' = Append(images, record) /\ keys' = Tail(keys)
        /\ s3Images' = Append(s3Images, image) /\ s3Get' = Nothing
    BY <1>6 DEF S3GetDone, GotImage
  <2>3. Bytes(image.memory, image.len) = Content(v)
    <3>1. /\ image.memory \in Seq(Block) /\ image.len = v[2] /\ v[2] <= Len(image.memory)
          /\ \A i \in 1 .. v[2] : image.memory[i] = <<v[1], i>>
      BY <2>1 DEF Filled
    <3> QED
      BY <2>1, <3>1, BytesAreContent
  <2>4. FilesInv'
    BY <1>3, <2>2, GetFacts DEF StorageInv, FilesInv
  <2>5. /\ images \in Seq([version : Version, whole : BOOLEAN])
        /\ record \in [version : Version, whole : BOOLEAN]
        /\ s3Images \in Seq(ImageMemory) /\ AllOwn
    BY <2>1 DEF StorageInv, ImagesInv
  <2> HIDE DEF v, image, record
  <2>6. /\ images' \in Seq([version : Version, whole : BOOLEAN]) /\ Len(images') = n + 1
        /\ images'[n + 1] = record /\ \A i \in 1 .. n : images'[i] = images[i]
    BY <2>2, <2>5, AppendProperties
  <2>7. /\ s3Images' \in Seq(ImageMemory) /\ Len(s3Images') = n + 1
        /\ s3Images'[n + 1] = image /\ \A i \in 1 .. n : s3Images'[i] = s3Images[i]
    BY <2>1, <2>2, <2>5, AppendProperties
  <2>8. AllOwn'
    <3> SUFFICES ASSUME NEW i \in DOMAIN s3Images'
                 PROVE  Bytes(s3Images'[i].memory, s3Images'[i].len)
                          = Content(images'[i].version)
      BY DEF AllOwn
    <3>1. CASE i = n + 1
      BY <2>3, <2>6, <2>7, <3>1 DEF record
    <3>2. CASE i # n + 1
      <4>1. i \in 1 .. n /\ i \in DOMAIN s3Images
        BY <2>1, <2>5, <2>7, <3>2
      <4> QED
        BY <2>5, <2>6, <2>7, <4>1 DEF AllOwn
    <3> QED
      BY <3>1, <3>2
  <2>9. ImagesInv'
    <3>1. backend' = "s3" /\ LastIsOwn'
      BY <1>1, <2>1 DEF LastIsOwn
    <3> QED
      BY <2>6, <2>7, <2>8, <3>1 DEF ImagesInv
  <2> QED
    BY <1>2, <1>4, <2>2, <2>4, <2>9 DEF StorageInv, GetInv
<1>7. ASSUME S3GetFailed, keys' = Tail(keys), UNCHANGED images
      PROVE  StorageInv'
  <2>1. s3Images' = s3Images /\ s3Get' = Nothing
    BY <1>7 DEF S3GetFailed
  <2>2. FilesInv'
    BY <1>3, <1>7, GetFacts DEF StorageInv, FilesInv
  <2>3. ImagesInv'
    BY <1>1, <1>3, <1>7, <2>1, GetFacts DEF StorageInv, ImagesInv, LastIsOwn, AllOwn
  <2> QED
    BY <1>2, <1>4, <2>1, <2>2, <2>3 DEF StorageInv, GetInv
<1> QED
  BY <1>5, <1>6, <1>7 DEF S3Callback

LEMMA FinishFrees == StorageInv /\ Finish => StorageInv'
<1> SUFFICES ASSUME StorageInv, Finish PROVE StorageInv'
  OBVIOUS
<1>1. /\ phase = "answered" /\ phase' = "idle" /\ keys' = <<>> /\ images' = <<>>
      /\ backend' = backend
  BY DEF Finish, Goto
<1>2. s3Get = Nothing
  BY <1>1 DEF StorageInv, GetInv
<1>3. /\ remote' = remote /\ s3Get' = Nothing /\ s3Put' = s3Put
      /\ IF backend = "gridfs" THEN s3Images' = s3Images ELSE s3Images' = <<>>
      /\ \/ memory' = memory /\ memoryLen' = memoryLen /\ gridLens' = gridLens
         \/ memory' = NoMemory /\ memoryLen' = 0 /\ gridLens' = <<>>
  <2>1. CASE backend = "gridfs"
    <3>1. GridFree /\ UNCHANGED s3Vars
      BY <2>1 DEF Finish
    <3> QED
      BY <1>2, <2>1, <3>1 DEF GridFree, s3Vars
  <2>2. CASE backend # "gridfs"
    <3>1. S3Free /\ UNCHANGED gridVars
      BY <2>2 DEF Finish
    <3> QED
      BY <1>2, <2>2, <3>1 DEF S3Free, gridVars
  <2> QED
    BY <2>1, <2>2
<1>4. FilesInv' /\ GetInv' /\ PutInv' /\ SilentPutIsStored'
  BY <1>1, <1>3 DEF StorageInv, FilesInv, GetInv, PutInv, SilentPutIsStored
<1>5. GridInv'
  <2>1. CASE memory' = memory /\ memoryLen' = memoryLen /\ gridLens' = gridLens
    BY <2>1 DEF StorageInv, GridInv
  <2>2. CASE memory' = NoMemory /\ memoryLen' = 0 /\ gridLens' = <<>>
    <3>1. <<>> \in Seq(Nat) /\ DOMAIN <<>> = {}
      OBVIOUS
    <3> QED
      BY <2>2, <3>1 DEF GridInv
  <2> QED
    BY <1>3, <2>1, <2>2
<1>6. ImagesInv'
  <2>1. s3Images' = <<>>
    BY <1>3 DEF StorageInv, ImagesInv
  <2> QED
    BY <1>1, <1>3, <2>1 DEF StorageInv, ImagesInv, LastIsOwn, AllOwn
<1> QED
  BY <1>4, <1>5, <1>6 DEF StorageInv

-----------------------------------------------------------------------------
(* Saving.                                                                 *)

\* A step that changes what is stored under one key, and no image.
LEMMA StoringStep ==
  ASSUME StorageInv, remote' \in [Key -> SUBSET Version], PutInv', SilentPutIsStored',
         phase # "fetch", UNCHANGED <<gridVars, s3Images, s3Get, backend, keys, images>>
  PROVE  StorageInv'
<1>1. /\ memory' = memory /\ memoryLen' = memoryLen /\ gridLens' = gridLens
      /\ s3Images' = s3Images /\ s3Get' = Nothing
      /\ backend' = backend /\ keys' = keys /\ images' = images
  BY DEF gridVars, StorageInv, GetInv
<1>2. FilesInv' /\ GridInv' /\ GetInv'
  BY <1>1 DEF StorageInv, FilesInv, GridInv, GetInv
<1>3. ImagesInv'
  BY <1>1 DEF StorageInv, ImagesInv, LastIsOwn, AllOwn
<1> QED
  BY <1>2, <1>3 DEF StorageInv

LEMMA PrefixIsVersion ==
  ASSUME NEW u \in Upload, NEW n \in 0 .. Blocks[u]
  PROVE  <<u, n>> \in Version /\ Blocks[u] \in Nat
<1>1. <<u, n>> \in {<<u, m>> : m \in 0 .. Blocks[u]}
  OBVIOUS
<1> QED
  BY <1>1, FilesAssumption DEF Version

LEMMA SaveStep ==
  ASSUME StorageInv, NEW k \in Key, NEW u \in Upload, Save(k, u)
  PROVE  StorageInv'
<1>1. phase = "idle" /\ UNCHANGED <<gridVars, s3Images, s3Get, backend, keys, images>>
  BY DEF Save, SaveGridFS, SaveS3, Goto, GridSave, S3PutStart, s3Vars
<1>2. remote \in [Key -> SUBSET Version]
  BY DEF StorageInv, FilesInv
<1>3. CASE SaveGridFS(k, u)
  <2>1. s3Put' = s3Put
    BY <1>3 DEF SaveGridFS, s3Vars
  <2>2. PutInv'
    BY <2>1 DEF StorageInv, PutInv
  <2>3. backend = "gridfs"
    BY <1>3 DEF SaveGridFS
  <2>4. SilentPutIsStored'
    BY <1>1, <2>3 DEF SilentPutIsStored
  <2>5. remote' \in [Key -> SUBSET Version]
    <3>1. remote' = remote \/ \E n \in 0 .. Blocks[u] : GridSave(k, u, n)
      BY <1>3 DEF SaveGridFS
    <3>2. ASSUME NEW n \in 0 .. Blocks[u], GridSave(k, u, n)
          PROVE  remote' = remote \/ remote' = [remote EXCEPT ![k] = @ \cup {<<u, n>>}]
      BY <3>2 DEF GridSave
    <3> QED
      BY <1>2, <3>1, <3>2, PrefixIsVersion
  <2> QED
    BY <1>1, <2>2, <2>4, <2>5, StoringStep
<1>4. CASE SaveS3(k, u)
  <2>1. s3Put' = [key |-> k, upload |-> u, offset |-> 0] /\ remote' = remote /\ phase' = "save"
    BY <1>4 DEF SaveS3, S3PutStart, Goto
  <2>2. PutInv'
    BY <2>1, PrefixIsVersion, FilesAssumption DEF PutInv
  <2>3. SilentPutIsStored'
    BY <2>1 DEF SilentPutIsStored
  <2> QED
    BY <1>1, <1>2, <2>1, <2>2, <2>3, StoringStep
<1> QED
  BY <1>3, <1>4 DEF Save

\* libs3 is never given more than the upload has.
LEMMA SendBodyStep == StorageInv /\ SendBody => StorageInv'
<1> SUFFICES ASSUME StorageInv, SendBody PROVE StorageInv'
  OBVIOUS
<1>1. PICK room \in 1 .. Blocks[s3Put.upload] + 1 : S3PutData(room)
  BY DEF SendBody
<1> DEFINE left_ == Blocks[s3Put.upload] - s3Put.offset
           more == IF room > left_ THEN left_ ELSE room
<1>2. /\ phase = "save" /\ phase' = phase /\ s3Put # Nothing /\ remote' = remote
      /\ s3Put' = [s3Put EXCEPT !.offset = @ + more]
      /\ UNCHANGED <<gridVars, s3Images, s3Get, backend, keys, images>>
  BY <1>1 DEF SendBody, S3PutData, requestVars
<1>3. /\ s3Put \in [key : Key, upload : Upload, offset : Nat]
      /\ s3Put.offset <= Blocks[s3Put.upload]
      /\ remote \in [Key -> SUBSET Version]
  BY <1>2 DEF StorageInv, PutInv, FilesInv
<1>4. Blocks[s3Put.upload] \in Nat
  BY <1>3, FilesAssumption
<1>5. PutInv'
  <2>1. s3Put.offset + more \in Nat /\ s3Put.offset + more <= Blocks[s3Put.upload]
    BY <1>3, <1>4
  <2>2. /\ s3Put' = [key |-> s3Put.key, upload |-> s3Put.upload, offset |-> s3Put.offset + more]
    BY <1>2, <1>3
  <2> HIDE DEF more
  <2> QED
    BY <1>3, <2>1, <2>2 DEF PutInv
<1>6. SilentPutIsStored'
  BY <1>2 DEF SilentPutIsStored
<1> QED
  BY <1>2, <1>3, <1>5, <1>6, StoringStep

LEMMA BodySentStep == StorageInv /\ BodySent => StorageInv'
<1> SUFFICES ASSUME StorageInv, BodySent PROVE StorageInv'
  OBVIOUS
<1>1. PICK kept \in BOOLEAN, ok \in BOOLEAN :
        /\ ok => kept
        /\ S3PutEnds(kept)
        /\ saved' = [key |-> s3Put.key, upload |-> s3Put.upload, result |-> 0,
                     logged |-> ~ PutStatusOK(ok)]
  BY DEF BodySent
<1> DEFINE k == s3Put.key
           u == s3Put.upload
           version == <<u, s3Put.offset>>
<1>2. /\ phase = "save" /\ s3Put # Nothing /\ s3Put' = Nothing
      /\ remote' = IF kept THEN [remote EXCEPT ![k] = {version}] ELSE remote
      /\ UNCHANGED <<gridVars, s3Images, s3Get, backend, keys, images>>
  BY <1>1 DEF BodySent, S3PutEnds, requestVars, Goto
<1>3. /\ k \in Key /\ u \in Upload /\ s3Put.offset \in Nat /\ s3Put.offset <= Blocks[u]
      /\ remote \in [Key -> SUBSET Version]
  BY <1>2 DEF StorageInv, PutInv, FilesInv
<1>4. version \in Version
  <2>1. Blocks[u] \in Nat
    BY <1>3, FilesAssumption
  <2>2. s3Put.offset \in 0 .. Blocks[u]
    BY <1>3, <2>1
  <2> QED
    BY <1>3, <2>2, PrefixIsVersion
<1>5. remote' \in [Key -> SUBSET Version]
  BY <1>2, <1>3, <1>4
<1>6. ASSUME PutStatusOK(ok) PROVE Whole(u) \in remote'[k]
  <2>1. kept /\ version = Whole(u)
    BY <1>1, <1>6 DEF PutStatusOK, Whole
  <2> QED
    BY <1>2, <1>3, <2>1
<1> HIDE DEF version
<1>7. SilentPutIsStored'
  BY <1>1, <1>6 DEF SilentPutIsStored
<1>8. PutInv'
  BY <1>2 DEF PutInv
<1> QED
  BY <1>2, <1>5, <1>7, <1>8, StoringStep

-----------------------------------------------------------------------------
(* The theorems.                                                           *)

\* Requests that arrive, and all that is done with what was read.
LEMMA RequestKeeps ==
  ASSUME StorageInv,
         \/ \E path \in Path, n \in 0 .. MaxQuery : \E q \in [1 .. n -> Part] : RequestCrop(path, q)
         \/ \E n \in 0 .. MaxKeys : \E wanted \in [1 .. n -> Key] : RequestMontage(wanted)
  PROVE  StorageInv'
<1>1. ASSUME NEW path \in Path, NEW q, RequestCrop(path, q)
      PROVE  StorageInv'
  <2>1. /\ UNCHANGED <<remote, gridVars, s3Vars, backend, images>>
        /\ phase = "idle" /\ phase' # "saved"
    BY <1>1 DEF RequestCrop, Goto
  <2>2. CASE Len(path) < 2 \/ PathRefused(path)
    <3>1. keys' = <<>> /\ <<>> \in Seq(Key)
      BY <1>1, <2>2 DEF RequestCrop
    <3> QED
      BY <2>1, <3>1, OthersKeep
  <2>3. CASE ~ (Len(path) < 2 \/ PathRefused(path))
    <3>1. keys' = <<KeyOf(path)>>
      BY <1>1, <2>3 DEF RequestCrop
    <3>2. KeyOf(path) \in Key
      BY <2>3, RequestAssumption
    <3>3. keys' \in Seq(Key)
      BY <3>1, <3>2
    <3> QED
      BY <2>1, <3>3, OthersKeep
  <2> QED
    BY <2>2, <2>3
<1>2. ASSUME NEW n \in 0 .. MaxKeys, NEW wanted \in [1 .. n -> Key], RequestMontage(wanted)
      PROVE  StorageInv'
  <2>1. keys' \in Seq(Key)
    BY <1>2, RequestAssumption DEF RequestMontage
  <2>2. /\ UNCHANGED <<remote, gridVars, s3Vars, backend, images>>
        /\ phase = "idle" /\ phase' = "fetch"
    BY <1>2 DEF RequestMontage, Goto
  <2> QED
    BY <2>1, <2>2, OthersKeep
<1> QED
  BY <1>1, <1>2

LEMMA WorkStep ==
  ASSUME StorageInv,
         \/ Parse \/ Decide \/ ReadAll \/ AllocElement \/ Decode \/ DecodeFails \/ Crop \/ Write
         \/ SendOriginal \/ SaveReturns
  PROVE  StorageInv'
<1>1. /\ UNCHANGED <<remote, gridVars, s3Vars, backend, images, keys>> /\ phase' # "saved"
  BY DEF Parse, Decide, ReadAll, AllocElement, Decode, DecodeFails, Crop, Write, SendOriginal,
         SaveReturns, requestVars, Goto
<1>2. phase # "fetch" \/ s3Get = Nothing
  <2>1. phase = "fetch" => keys = <<>>
    BY DEF Parse, Decide, ReadAll, AllocElement, Decode, DecodeFails, Crop, Write, SendOriginal,
           SaveReturns, Goto
  <2> QED
    BY <2>1 DEF StorageInv, GetInv
<1> QED
  BY <1>1, <1>2, OthersKeep

LEMMA StorageStutter == StorageInv /\ UNCHANGED allVars => StorageInv'
<1> SUFFICES ASSUME StorageInv, UNCHANGED allVars PROVE StorageInv'
  OBVIOUS
<1>1. UNCHANGED <<remote, gridVars, s3Vars, backend, images, keys, phase, saved>>
  BY DEF allVars, requestVars
<1> QED
  BY <1>1, OthersKeep

LEMMA StorageNext == StorageInv /\ [CropNext]_allVars => StorageInv'
<1> SUFFICES ASSUME StorageInv, CropNext PROVE StorageInv'
  BY StorageStutter
<1> QED
  BY RequestKeeps, SaveStep, ReadNothingStep, ReadGridFSStep, ReadS3Step, S3CallbackStep,
     FinishFrees, SendBodyStep, BodySentStep, WorkStep
     DEF CropNext

\* Whatever the storage answers, and however its answer is cut, a handler works
\* on the image it has asked for: on GridFS, whose images share a buffer, on
\* the last one.
THEOREM ImagesAreOwn == CropSpec => []UsesOwnImage
<1>1. StorageInv => UsesOwnImage
  <2> SUFFICES ASSUME StorageInv PROVE LastIsOwn /\ AllInside /\ AllOwn
    BY DEF UsesOwnImage
  <2>1. LastIsOwn /\ AllOwn
    BY DEF StorageInv, ImagesInv
  <2>2. AllInside
    BY DEF StorageInv, GridInv, AllInside
  <2> QED
    BY <2>1, <2>2
<1> QED
  BY <1>1, StorageInit, StorageNext, PTL DEF CropSpec

\* Unless saveImage of S3 has logged an error, what it was given can be read in
\* full, however the body was cut and whatever libs3 said of it.
THEOREM SilentPutsAreStored == CropSpec => []SilentPutIsStored
<1>1. StorageInv => SilentPutIsStored
  BY DEF StorageInv
<1> QED
  BY <1>1, StorageInit, StorageNext, PTL DEF CropSpec

-----------------------------------------------------------------------------
(* The types.                                                              *)

\* No request reads more than MaxKeys images: what it has read and what it has
\* still to read count together.  Nothing is kept from the request before.
StageInv ==
  /\ phase \in {"idle", "parse", "fetch", "alloc", "decode", "crop", "write", "compose",
                "original", "save", "saved", "answered"}
  /\ service \in {"none", "crop", "montage", "save"}
  /\ attempt \in 0 .. 2
  /\ phase = "alloc" => attempt \in 0 .. 1
  /\ phase \in {"idle", "parse", "fetch", "save", "saved"} => attempt = 0
  /\ phase \in {"idle", "parse", "save", "saved"} => images = <<>>

CountInv ==
  /\ Len(images) + Len(keys) <= MaxKeys
  /\ backend = "gridfs" => Len(images) = Len(gridLens)
  /\ backend = "s3" => gridLens = <<>>

LEMMA StageInit == CropInit => StageInv /\ CountInv
BY RequestAssumption DEF CropInit, GridInit, StageInv, CountInv

\* A request has no images when it comes.
LEMMA RequestStages ==
  ASSUME StageInv, CountInv,
         \/ \E path \in Path, n \in 0 .. MaxQuery : \E q \in [1 .. n -> Part] : RequestCrop(path, q)
         \/ \E n \in 0 .. MaxKeys : \E wanted \in [1 .. n -> Key] : RequestMontage(wanted)
  PROVE  StageInv' /\ CountInv'
<1>1. phase = "idle" /\ UNCHANGED <<images, attempt, backend, gridLens>>
  BY DEF RequestCrop, RequestMontage, Goto, pictureVars, gridVars
<1>2. images = <<>> /\ attempt = 0
  BY <1>1 DEF StageInv
<1>3. service' \in {"crop", "montage"} /\ phase' \in {"answered", "parse", "fetch"}
  BY DEF RequestCrop, RequestMontage, Goto
<1>4. Len(keys') <= MaxKeys /\ Len(keys') \in Nat
  <2>1. ASSUME NEW path \in Path, NEW q, RequestCrop(path, q)
        PROVE  Len(keys') <= MaxKeys /\ Len(keys') \in Nat
    <3>1. keys' = <<>> \/ keys' = <<KeyOf(path)>>
      BY <2>1 DEF RequestCrop
    <3>2. Len(keys') \in 0 .. 1
      BY <3>1
    <3>3. MaxKeys \in Nat /\ MaxKeys > 0
      BY RequestAssumption
    <3> QED
      BY <3>2, <3>3
  <2>2. ASSUME NEW n \in 0 .. MaxKeys, NEW wanted \in [1 .. n -> Key], RequestMontage(wanted)
        PROVE  Len(keys') <= MaxKeys /\ Len(keys') \in Nat
    <3>1. keys' = wanted /\ n \in Nat
      BY <2>2, RequestAssumption DEF RequestMontage
    <3>2. Len(keys') = n
      BY <3>1
    <3> QED
      BY <3>1, <3>2, RequestAssumption
  <2> QED
    BY <2>1, <2>2
<1>5. StageInv'
  BY <1>1, <1>2, <1>3 DEF StageInv
<1>6. Len(images') = 0
  BY <1>1, <1>2
<1> QED
  BY <1>1, <1>4, <1>5, <1>6, RequestAssumption DEF CountInv

\* Every image that is read was a key before, and has its length in the list
\* of the storage.
LEMMA ReadStages ==
  ASSUME StageInv, CountInv, StorageInv, ReadNothing \/ ReadGridFS \/ S3Callback
  PROVE  StageInv' /\ CountInv'
<1>1. phase = "fetch" /\ UNCHANGED <<phase, service, attempt, backend>>
  BY DEF ReadNothing, ReadGridFS, S3Callback, Reading, requestVars, pictureVars
<1>2. StageInv'
  BY <1>1 DEF StageInv
<1>3. /\ keys \in Seq(Key) /\ images \in Seq([version : Version, whole : BOOLEAN])
      /\ gridLens \in Seq(Nat) /\ backend \in {"gridfs", "s3"}
  BY DEF StorageInv, FilesInv, ImagesInv, GridInv
<1>4. ASSUME keys' = Tail(keys), keys # <<>>, images' = images, gridLens' = gridLens
      PROVE  CountInv'
  <2>1. Len(keys') = Len(keys) - 1 /\ Len(keys) \in Nat
    BY <1>3, <1>4
  <2> QED
    BY <1>1, <1>3, <1>4, <2>1, RequestAssumption DEF CountInv
<1>5. ASSUME keys' = Tail(keys), keys # <<>>, NEW image, images' = Append(images, image),
             \/ backend = "gridfs" /\ \E n : gridLens' = Append(gridLens, n)
             \/ backend = "s3" /\ gridLens' = gridLens
      PROVE  CountInv'
  <2>1. Len(keys') = Len(keys) - 1 /\ Len(keys) \in Nat
    BY <1>3, <1>5
  <2>2. Len(images') = Len(images) + 1 /\ Len(images) \in Nat
    BY <1>3, <1>5
  <2>3. backend = "gridfs" => Len(gridLens') = Len(gridLens) + 1 /\ Len(gridLens) \in Nat
    BY <1>3, <1>5
  <2>4. Len(images') + Len(keys') <= MaxKeys
    BY <2>1, <2>2, RequestAssumption DEF CountInv
  <2> QED
    BY <1>1, <1>3, <1>5, <2>2, <2>3, <2>4 DEF CountInv
<1>6. ASSUME ReadNothing PROVE CountInv'
  BY <1>4, <1>6 DEF ReadNothing, Reading, gridVars
<1>7. ASSUME ReadGridFS PROVE CountInv'
  <2>1. PICK v \in remote[Head(keys)] :
          \/ \E got \in 0 .. v[2] : GridGet(v, got) /\ GotImage(v, got = v[2])
          \/ GridGetNoMemory(v) /\ GotImage(v, FALSE)
    BY <1>7 DEF ReadGridFS
  <2>2. \E n : gridLens' = Append(gridLens, n)
    BY <2>1 DEF GridGet, GridGetNoMemory
  <2>3. keys' = Tail(keys) /\ \E image : images' = Append(images, image)
    BY <2>1 DEF GotImage
  <2>4. keys # <<>> /\ backend = "gridfs"
    BY <1>7 DEF ReadGridFS, Reading
  <2> QED
    BY <1>5, <2>2, <2>3, <2>4
<1>8. ASSUME S3Callback PROVE CountInv'
  <2>1. gridLens' = gridLens
    BY <1>8 DEF S3Callback, gridVars
  <2>2. CASE UNCHANGED <<keys, images>>
    BY <1>1, <2>1, <2>2 DEF CountInv
  <2>3. CASE S3GetDone /\ GotImage(s3Get.version, TRUE)
    <3>1. keys # <<>> /\ backend = "s3"
      BY <2>3 DEF S3GetDone, StorageInv, GetInv, ImagesInv
    <3>2. keys' = Tail(keys) /\ \E image : images' = Append(images, image)
      BY <2>3 DEF GotImage
    <3> QED
      BY <1>5, <2>1, <3>1, <3>2
  <2>4. CASE S3GetFailed /\ keys' = Tail(keys) /\ UNCHANGED images
    <3>1. keys # <<>>
      BY <2>4 DEF S3GetFailed, StorageInv, GetInv
    <3> QED
      BY <1>4, <2>1, <2>4, <3>1
  <2> QED
    BY <1>8, <2>2, <2>3, <2>4 DEF S3Callback
<1> QED
  BY <1>2, <1>6, <1>7, <1>8

\* A handler asks for an element twice at most: the second time after Write has
\* found the first one too small.
LEMMA WorkStages ==
  ASSUME StageInv, CountInv, StorageInv,
         \/ Parse \/ Decide \/ ReadS3 \/ ReadAll \/ AllocElement \/ Decode \/ DecodeFails
         \/ Crop \/ Write \/ SendOriginal \/ SendBody \/ BodySent \/ SaveReturns
         \/ \E k \in Key, u \in Upload : Save(k, u)
  PROVE  StageInv' /\ CountInv'
<1>1. UNCHANGED <<images, keys, backend>>
  BY DEF Parse, Decide, ReadS3, ReadAll, AllocElement, Decode, DecodeFails, Crop, Write,
         SendOriginal, SendBody, BodySent, SaveReturns, Save, requestVars
<1>2. gridLens' = gridLens
  <2>1. ASSUME NEW k, NEW u, Save(k, u) PROVE gridLens' = gridLens
    BY <2>1 DEF Save, SaveGridFS, SaveS3, GridSave, gridVars
  <2> QED
    BY <2>1 DEF Parse, Decide, ReadS3, ReadAll, AllocElement, Decode, DecodeFails, Crop, Write,
                SendOriginal, SendBody, BodySent, SaveReturns, gridVars
<1>3. CountInv'
  BY <1>1, <1>2 DEF CountInv
<1>4. ASSUME Parse \/ Decide \/ ReadS3 \/ ReadAll
      PROVE  StageInv'
  BY <1>1, <1>4 DEF StageInv, Parse, Decide, ReadS3, Reading, ReadAll, Goto, requestVars, pictureVars
<1>5. ASSUME AllocElement PROVE StageInv'
  <2>1. /\ phase = "alloc" /\ attempt \in 0 .. 1 /\ attempt' = attempt + 1
        /\ phase' \in {"decode", "compose", "answered", "original"} /\ service' = service
    BY <1>5 DEF AllocElement, StageInv, requestVars
  <2> QED
    BY <2>1 DEF StageInv
<1>6. ASSUME Decode \/ DecodeFails \/ Crop \/ SendOriginal
      PROVE  StageInv'
  BY <1>6 DEF StageInv, Decode, DecodeFails, Crop, SendOriginal, Goto, requestVars, pictureVars
<1>7. ASSUME Write PROVE StageInv'
  <2>1. /\ phase = "write" /\ attempt' = attempt /\ service' = service
        /\ phase' \in {"answered", "original"} \/ (phase' = "alloc" /\ attempt = 1)
    BY <1>7 DEF Write, requestVars
  <2> QED
    BY <2>1 DEF StageInv
<1>8. ASSUME SendBody \/ BodySent \/ SaveReturns
      PROVE  StageInv'
  BY <1>1, <1>8 DEF StageInv, SendBody, BodySent, SaveReturns, Goto, requestVars, pictureVars
<1>9. ASSUME NEW k, NEW u, Save(k, u) PROVE StageInv'
  <2>1. phase = "idle" /\ phase' \in {"save", "saved"} /\ service' = "save" /\ attempt' = attempt
    BY <1>9 DEF Save, SaveGridFS, SaveS3, Goto, pictureVars
  <2> QED
    BY <1>1, <2>1 DEF StageInv
<1> QED
  BY <1>3, <1>4, <1>5, <1>6, <1>7, <1>8, <1>9

\* freeImage forgets the lengths, and the next request begins with nothing.
LEMMA FinishStages ==
  ASSUME StageInv, CountInv, Finish
  PROVE  StageInv' /\ CountInv'
<1>1. /\ phase' = "idle" /\ service' = "none" /\ keys' = <<>> /\ images' = <<>>
      /\ attempt' = 0 /\ backend' = backend
  BY DEF Finish, Goto
<1>2. /\ backend = "gridfs" => gridLens' = <<>>
      /\ backend = "s3" => gridLens' = gridLens
  BY DEF Finish, GridFree, gridVars
<1> QED
  BY <1>1, <1>2, RequestAssumption DEF StageInv, CountInv

LEMMA StageNext ==
  StageInv /\ CountInv /\ StorageInv /\ [CropNext]_allVars => StageInv' /\ CountInv'
<1>1. StageInv /\ CountInv /\ UNCHANGED allVars => StageInv' /\ CountInv'
  BY DEF StageInv, CountInv, allVars, requestVars, pictureVars, gridVars
<1> QED
  BY <1>1, RequestStages, ReadStages, WorkStages, FinishStages DEF CropNext

\* For any paths, queries and storages every variable keeps its type; a request
\* reads no more images than it has keys, with a length for each, and asks for
\* at most two elements.
THEOREM CropTypes == CropSpec => []CropTypeOK
<1>1. IInv /\ StorageInv /\ StageInv /\ CountInv => CropTypeOK
  <2> SUFFICES ASSUME IInv, StorageInv, StageInv, CountInv PROVE CropTypeOK
    OBVIOUS
  <2>1. RemoteTypeOK /\ GridTypeOK
    BY DEF StorageInv, FilesInv, GridInv, RemoteTypeOK, GridTypeOK
  <2>2. QueryTypeOK
    BY DEF IInv, QueryInv, QueryTypeOK, NoPart, Bare
  <2>3. keys \in Seq(Key) /\ Len(images) <= MaxKeys
    <3>1. keys \in Seq(Key) /\ images \in Seq([version : Version, whole : BOOLEAN])
      BY DEF StorageInv, FilesInv, ImagesInv
    <3>2. Len(keys) \in Nat /\ Len(images) \in Nat
      BY <3>1
    <3> QED
      BY <3>1, <3>2, RequestAssumption DEF CountInv
  <2>4. /\ backend = "gridfs" => Len(images) = Len(gridLens) /\ s3Images = <<>>
        /\ backend = "s3" => Len(images) = Len(s3Images) /\ gridLens = <<>>
    BY DEF StorageInv, ImagesInv, CountInv
  <2>5. picture # NoPicture => picture.w \in Size /\ picture.h \in Size
    BY RequestAssumption DEF IInv, PictureInv, Oriented
  <2>6. crop.rect \in Rectangle /\ crop.face \in Rectangle
    BY DEF IInv, CropInv
  <2> QED
    BY <2>1, <2>2, <2>3, <2>4, <2>5, <2>6 DEF StageInv, CropTypeOK
<1>2. CropSpec => [](StageInv /\ CountInv)
  <2>1. CropSpec => []StorageInv
    BY StorageInit, StorageNext, PTL DEF CropSpec
  <2> QED
    BY <2>1, StageInit, StageNext, PTL DEF CropSpec
<1>3. CropSpec => []StorageInv
  BY StorageInit, StorageNext, PTL DEF CropSpec
<1> QED
  BY <1>1, <1>2, <1>3, Invariance, PTL
=============================================================================
