SPECIFICATION Spec
CONSTANTS
  Chunks = 2
  Bufs = 2
  Cap = 2
  WarmupFrames = 1
  MaxMissed = 1
INVARIANTS
  VsyncDelimited
