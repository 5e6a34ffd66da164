SPECIFICATION FairSpec
CONSTANTS
  Conns = {c1, c2}
  FDs = {f1, f2}
  NoConn = NoConn
  NoFd = NoFd
  Backlog = 1
  Paths <- AllPaths
INVARIANTS
  TypeOK
  NoLeak
  NoLostWakeup
  ServesTheClaim
  WorkerTouchesItsClient
  RepliesUnforced
PROPERTIES
  ImplementsSlot
  ClaimTakenUp
  BacklogServed
  SlotReleased
