CONSTANTS
  Caller = {c1, c2}
  Freeing = {c1, c2}
  MaxThread = 2
  Writer <- Writers
  MaxTask = 2
  Element = {e1, e2, e3}
  File = {f1}
  Upload = {u1, u2, u3, u4}
  MaxLength = 1
  CounterRange = 2
  Results <- AnyResults
  BucketKept = TRUE
  StartMayFail = TRUE
  Absent = Absent
  NoFile = NoFile
  Unlinked = Unlinked
  NoItem = NoItem
SYMMETRY Alike
SPECIFICATION PoolSpec
INVARIANT PoolTypeOK
INVARIANT ElementHasOneUser
INVARIANT QueuedDataIntact
INVARIANT NoElementLost
INVARIANT DestroyCleansUp
PROPERTY ImplementsSaveLedger
