CONSTANTS
  Peers = {"p"}
  MaxWorkers = 2
  Crowded = 0
  QueueSize = 1
  MaxAsked = 1
  MaxChannels = 2
  MaxForwarders = 2
  MaxFaults = 1
SPECIFICATION UdpLive
INVARIANT UdpSafe
PROPERTY WorkersKept
PROPERTY UdpHeals
CHECK_DEADLOCK FALSE
