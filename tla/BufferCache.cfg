SPECIFICATION CacheSpec
CONSTANTS
  BatchSizes <- MCBatchSizes
  Callers = {c1, c2}
  MaxBuffers = 4
  NoBuffer = NoBuffer
SYMMETRY CallerSymmetry
INVARIANTS
  SyncFindsItsBuffer
  GraphBuffersAlive
