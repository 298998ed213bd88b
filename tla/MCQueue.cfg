SPECIFICATION Spec
SYMMETRY Symmetry
CONSTANTS
  Threads = {t1, t2}
  NoThread = NoThread
  Buffers = {b1, b2}
  NoBuffer = NoBuffer
  Commands = {c1}
  ChunkSize = 3
  MaxFree = 1
  Threshold = 4
  WriteSizes = {1, 2, 4}
  Alignments = {2}
  MaxWrites = 3
  MaxOps = 3
INVARIANTS
  QueueOrder
  NoWriteLost
  LatestCovers
  CommandsRunOnce
  DropDrains
  StagingIntact
PROPERTIES
  NothingAfterLoss
