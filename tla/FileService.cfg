CONSTANTS
  Caller = {c1, c2}
  Freeing = {}
  MaxThread = 1
  Writer <- Writers
  MaxTask = 1
  Element = {e1, e2}
  File = {f1, f2}
  Upload = {u1, u2}
  MaxLength = 1
  CounterRange = 1
  Results <- LocalResults
  BucketKept = FALSE
  StartMayFail = FALSE
  ChunkLimit = 1
  MaxImages = 1
  Absent = Absent
  NoFile = NoFile
  Unlinked = Unlinked
  NoItem = NoItem
  NoImage = NoImage
SYMMETRY Alike
SPECIFICATION FileSpec
INVARIANT FileTypeOK
INVARIANT ServedWasAccepted
INVARIANT AcceptedStays
