CONSTANTS
  Caller = {c1}
  Freeing = {}
  MaxThread = 2
  Writer <- Writers
  MaxTask = 1
  Element = {e1, e2}
  File = {f1}
  Upload = {u1, u2}
  MaxLength = 2
  CounterRange = 1
  Results <- GoodDisk
  BucketKept = TRUE
  StartMayFail = FALSE
  ChunkLimit = 1
  MaxImages = 1
  Absent = Absent
  NoFile = NoFile
  Unlinked = Unlinked
  NoItem = NoItem
  NoImage = NoImage
SPECIFICATION FileFairSpec
PROPERTY EveryRequestEnds
PROPERTY DestroyReturns
PROPERTY QuietPoolDrains
PROPERTY DeliveredWhole
