CONSTANTS
  Client = {t1}
  Level = {1, 2}
  ChunkSize = 2
  NodeSize <- Sizes
  MaxChunk = 3
  Limitation = 2
  CounterRange = 8
  MallocMayFail = FALSE
  Collector = gc
  MaxRounds = 2
  MP_NULL = MP_NULL
  Junk = Junk
  Nobody = Nobody
SPECIFICATION SpecGC
INVARIANT ElementsAreNew
