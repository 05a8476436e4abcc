SPECIFICATION MCLive
CONSTANTS
  K = 2
  FrameLen = 2
  Cap = 2
  Queue = 1
  Chunks = {"a", "b"}
  MaxFrames = 3
  Faults = {"eof", "error", "source", "dest"}
  MaxMessage = 3
  PipeCap = 4
  MaxWritten = 5
  MaxRecords = 4
  MaxConns = 2
  MaxCmds = 1
  MaxBreaks = 1
  MaxShuts = 1
  Beat = 2
  Configured = {}
  MaxDelay = 1
  Receivers = {"server"}
  StreamIds = {1, 2}
  Credit = 2
  MaxStreams = 2
  ConnLimit = 7
  MaxWindow = 15
  Docs = {"base", "moved", "unfit", "general", "zero", "claims", "starved", "server"}
  Text <- MCText
  Names = {"x", "y"}
  SessKeys = {"k1", "k2"}
  Flags = {"unset"}
  MaxEdits = 2
INVARIANT InOrder
INVARIANT StripeSafe
INVARIANT NoiseSafe
INVARIANT WireSafe
INVARIANT WindowsBalance
INVARIANT InFlightFits
INVARIANT AccountWithinLimit
INVARIANT AccountExact
INVARIANT ReloadSafe
PROPERTY DirectionEnds
PROPERTY TakenArrives
PROPERTY SessionRecovers
PROPERTY FileFollowed
CHECK_DEADLOCK FALSE
