CONSTANTS
  Caller = {c1}
  Freeing = {c1}
  MaxThread = 2
  Writer <- Writers
  MaxTask = 2
  Element = {e1, e2, e3}
  File = {f1}
  Upload = {u1, u2, u3, u4}
  MaxLength = 2
  CounterRange = 4
  Results <- GoodDisk
  BucketKept = TRUE
  StartMayFail = FALSE
  Absent = Absent
  NoFile = NoFile
  Unlinked = Unlinked
  NoItem = NoItem
SPECIFICATION PoolSpec
INVARIANT FileIsOneUpload
