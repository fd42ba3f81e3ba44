\* A client that uploads one file and keeps two requests outstanding.
SPECIFICATION Spec
CONSTANTS
  p1 = p1
  p2 = p2
  NoFile = NoFile
  Hole = Hole
  ChunkLength = 2
  Paths = {p1}
  Refused = {}
  Offsets <- UploadOffsets
  MaxRequests = 3
  PoolSize = 4
  Window = 2
  Uploads = TRUE
INVARIANT AcknowledgedChunkStays
