SPECIFICATION FairSpec
CONSTANTS
  Length = 2
  Workers = {w1, w2}
  MaxSources = 2
  MaxRaces = 1
  None = None
INVARIANTS
  TypeOK
  NoLostWorker
PROPERTIES
  ImplementsFileStream
  FileIsCompleted
