SPECIFICATION MCSpec
CONSTANTS
  Parts = {"pool", "pairing"}
  Streams = {1, 3}
  MaxStreams = 1
  Ceiling = 1
  MaxBacklog = 1
  Credit = 1
  Split = 1
  ChanCap = 1
  WireCap = 1
  MaxBytes <- MCClientOnly
  Closers = {}
  Droppers = {"client"}
  Faults = {}
  Openers = {"a", "b"}
  Count = 2
  TunnelCeiling = 1
  OpenBudget = 1
  Spares = 1
  Services = {"s"}
  Visitors = {v, w}
  Of <- MCOne
  Channels = {1, 2, 3}
  Tunnels = {1}
  MaxWidth = 2
  Attempts = 2
  QueueCap = 1
  Slots = 1
  MaxFaults = 1
SYMMETRY Alike
INVARIANT PoolSafe
INVARIANT PairingSafe
CHECK_DEADLOCK FALSE
