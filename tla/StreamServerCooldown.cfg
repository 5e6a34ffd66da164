SPECIFICATION Spec
CONSTANTS
  Conns = {c1, c2}
  FDs = {f1, f2}
  NoConn = NoConn
  NoFd = NoFd
  Backlog = 1
  Paths <- AllPaths
SYMMETRY Symmetry
INVARIANTS
  ReplyReachesRequester
