SPECIFICATION Spec
CONSTANTS
  BufSize = 32
  MaxHeader = 19
  ScanLimit = 8
  Headers <- MCHeaders
  Scans <- MCScans
  Junk <- MCJunk
INVARIANTS
  TypeOK
  SavedIsHeader
  Framed
  Restored
  RoomSuffices
