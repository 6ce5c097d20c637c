CONSTANTS
  Caller = {c1, c2}
  Freeing = {c1, c2}
  MaxThread = 1
  Writer <- Writers
  MaxTask = 1
  Element = {e1, e2}
  File = {f1}
  Upload = {u1, u2, u3}
  MaxLength = 1
  CounterRange = 1
  Results <- GoodStorage
  BucketKept = TRUE
  StartMayFail = FALSE
  MaxKeys = 2
  Throws = TRUE
  Absent = Absent
  NoFile = NoFile
  Unlinked = Unlinked
  NoItem = NoItem
  NoBuffer = NoBuffer
SYMMETRY Alike
SPECIFICATION ImageSpec
INVARIANT ImageTypeOK
INVARIANT NoElementLost
INVARIANT SendsOwnImage
INVARIANT HandlerSettles
