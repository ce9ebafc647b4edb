SPECIFICATION FairSpec
CONSTANTS
  Threads = {t1, t2}
  Chunks = {c1, c2, c3}
  Buffers = {b1, b2}
  NoChunk = NoChunk
  NoBuffer = NoBuffer
  ChunkSize = 2
  Sizes = {1, 2}
  MaxSessions = 1
INVARIANTS
  PoolExact
  NoCrash
PROPERTIES
  ChunksReturn
  ImplementsMemory
CHECK_DEADLOCK FALSE
