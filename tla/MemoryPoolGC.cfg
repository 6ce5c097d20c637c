CONSTANTS
  Client = {t1, t2}
  Level = {1}
  ChunkSize = 2
  NodeSize <- Sizes
  MaxChunk = 3
  Limitation = 2
  CounterRange = 8
  MallocMayFail = FALSE
  Collector = gc
  MaxRounds = 2
  MP_NULL = MP_NULL
  Junk = Junk
  Nobody = Nobody
SYMMETRY ClientSymmetry
SPECIFICATION SpecGC
INVARIANT GCTypeOK
INVARIANT CollectsUnusedOnly
INVARIANT QueueLeadsToFree
INVARIANT ElementsAreNew
