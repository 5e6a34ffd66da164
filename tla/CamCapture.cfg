SPECIFICATION FairSpec
CONSTANTS
  Chunks = 3
  Bufs = 2
  Cap = 2
  WarmupFrames = 1
  MaxMissed = 1
INVARIANTS
  TypeOK
  OneFrame
PROPERTIES
  FrameStable
  CaptureEnds
