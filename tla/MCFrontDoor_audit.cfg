\* One client at a time, three audit entries, two minutes, one earlier archive.
SPECIFICATION FairSpec
CONSTANTS
  MaxEntries = 3
  MaxMinute = 2
  Threshold = 2
  MaxArchives = 1
  Numbers = {n1}
  Earlier = 1
  Sockets = {s1}
  MaxChunks = 2
INVARIANTS
  TypeOK
  TrailInOrder
  AppendedStays
  PendingAreNewest
  ArchivesBounded
  ForwardedOnce
  ForwardedInOrder
  OperationsAreAttributed
PROPERTY QueueDrains
