SPECIFICATION Spec
CONSTANTS
  Chunks = 3
  Bufs = 2
  Cap = 3
  WarmupFrames = 1
  MaxMissed = 2
INVARIANTS
  CompleteInTime
