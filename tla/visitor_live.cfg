SPECIFICATION MCLive
CONSTANTS
  Parts = {"mux", "pool", "pairing"}
  Streams = {1, 3}
  MaxStreams = 1
  Ceiling = 1
  MaxBacklog = 1
  Credit = 1
  Split = 1
  ChanCap = 1
  WireCap = 1
  MaxBytes <- MCClientOnly
  Closers = {}
  Droppers = {"client"}
  Faults = {}
  Openers = {"a"}
  Count = 2
  TunnelCeiling = 1
  OpenBudget = 1
  Spares = 2
  Services = {"s"}
  Visitors = {v, w}
  Of <- MCOne
  Channels = {1, 2}
  Tunnels = {1}
  MaxWidth = 2
  Attempts = 1
  QueueCap = 1
  Slots = 2
  MaxFaults = 1
INVARIANT NoProtocolError
PROPERTY StreamsSettle
PROPERTY PoolRecovers
PROPERTY VisitorsServed
CHECK_DEADLOCK FALSE
