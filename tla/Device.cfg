SPECIFICATION DeviceFairSpec
CONSTANTS
  Addrs = {a1, a2}
  NoAddr = NoAddr
  QueueSize = 3
  MaxDrops = 2
  BootBlinks = 1
INVARIANTS
  DeviceTypeOK
  Settled
  Counters
  CommandHolds
PROPERTIES
  ReportsLink
  LedShowsLink
  ImplementsLed
  HangEnds
  ResetsHangOnly
