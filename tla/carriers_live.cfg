SPECIFICATION MCLive
CONSTANTS
  Parts = {"kcp", "listener"}
  Streams = {1}
  MaxStreams = 1
  Ceiling = 1
  MaxBacklog = 1
  Credit = 1
  Split = 1
  ChanCap = 1
  WireCap = 1
  MaxBytes <- MCShort
  Closers = {}
  Droppers = {"client"}
  Faults = {}
  KcpBytes = 4
  Mss = {1}
  SendChunk = 1
  MaxFrags = 2
  SndWnd = 2
  RcvWnd = 1
  FirstWnd = 1
  QueueLimit = 1
  OutCap = 1
  InCap = 1
  DeadLink = 2
  QuietRounds = 2
  NetCap = 1
  KcpDroppers = {"B"}
  Keys = {"a", "b"}
  Slots = {1, 2, 3}
  SessionCap = 1
  QueueCap = 1
  AcceptCap = 1
  GoneCap = 1
  SocketCap = 2
  MaxSent = 4
INVARIANT ListenerSafe
PROPERTY KcpDelivers
PROPERTY ListenerSettles
CHECK_DEADLOCK FALSE
