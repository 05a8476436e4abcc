SPECIFICATION MCSpec
CONSTANTS
  Parts = {"mux", "kcp"}
  Streams = {1}
  MaxStreams = 1
  Ceiling = 1
  MaxBacklog = 1
  Credit = 2
  Split = 1
  ChanCap = 1
  WireCap = 1
  MaxBytes <- MCShort
  Closers = {"client", "server"}
  Droppers = {"client", "server"}
  Faults = {"client", "server"}
  KcpBytes = 3
  Mss = {1, 2}
  SendChunk = 2
  MaxFrags = 2
  SndWnd = 2
  RcvWnd = 2
  FirstWnd = 1
  QueueLimit = 2
  OutCap = 1
  InCap = 1
  DeadLink = 1
  QuietRounds = 2
  NetCap = 2
  KcpDroppers = {"A"}
  Keys = {"a"}
  Slots = {1}
  SessionCap = 1
  QueueCap = 1
  AcceptCap = 1
  GoneCap = 1
  SocketCap = 1
  MaxSent = 1
INVARIANT MuxSafe
INVARIANT KcpSafe
PROPERTY ImplementsFlowControl
CHECK_DEADLOCK FALSE
