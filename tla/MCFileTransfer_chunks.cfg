\* Three requests of any kind on one file, two workers; after shutdown nothing runs.
SPECIFICATION FairSpec
CONSTANTS
  p1 = p1
  p2 = p2
  NoFile = NoFile
  Hole = Hole
  ChunkLength = 2
  Paths = {p1}
  Refused = {}
  Offsets <- FirstOffsets
  MaxRequests = 3
  PoolSize = 2
  Window = 3
  Uploads = FALSE
INVARIANT TypeOK
INVARIANT LockHolder
INVARIANT SizeStillHolds
PROPERTY ImplementsAtomicFile
PROPERTY EveryChunkEnds
CHECK_DEADLOCK FALSE
