CONSTANTS
  Client = {t1, t2}
  Level = {1, 2}
  ChunkSize = 2
  NodeSize <- Sizes
  MaxChunk = 3
  Limitation = 2
  CounterRange = 8
  MallocMayFail = FALSE
  Collector = gc
  MP_NULL = MP_NULL
  Junk = Junk
  Nobody = Nobody
SPECIFICATION FairSpec
INVARIANT TypeOK
INVARIANT ExclusiveOwnership
INVARIANT FreeQueueComplete
INVARIANT NoElementLeaks
INVARIANT CountersExact
PROPERTY HeldMemoryStable
PROPERTY ImplementsElementPool
PROPERTY AllocReturns
