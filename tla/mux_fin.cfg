SPECIFICATION MCSpec
CONSTANTS
  Parts = {"mux"}
  Streams = {1}
  MaxStreams = 2
  Ceiling = 2
  MaxBacklog = 2
  Credit = 2
  Split = 2
  ChanCap = 3
  WireCap = 1
  MaxBytes <- MCShort
  Closers = {"client"}
  Droppers = {}
  Faults = {}
  KcpBytes = 3
  Mss = {1, 2}
  SendChunk = 2
  MaxFrags = 2
  SndWnd = 2
  RcvWnd = 2
  FirstWnd = 1
  QueueLimit = 2
  OutCap = 1
  InCap = 1
  DeadLink = 2
  QuietRounds = 2
  NetCap = 2
  KcpDroppers = {"A"}
  Keys = {"a"}
  Slots = {1}
  SessionCap = 1
  QueueCap = 1
  AcceptCap = 1
  GoneCap = 1
  SocketCap = 1
  MaxSent = 1
CHECK_DEADLOCK FALSE
INVARIANTS EofIsComplete
