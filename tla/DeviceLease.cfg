SPECIFICATION DeviceSpec
CONSTANTS
  Addrs = {a1, a2}
  NoAddr = NoAddr
  QueueSize = 3
  MaxDrops = 2
  BootBlinks = 1
INVARIANT
  ConnectedHasAddress
