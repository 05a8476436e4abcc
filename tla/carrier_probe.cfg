SPECIFICATION CarrierSpec
CONSTANTS
  Tunnels = {"t1", "t2"}
  Openers = {}
  Confirm = 2
  Retry = 1
  Cool = 2
  ProbeMax = 1
  Backoff = 1
  Born = "Kcp"
  Forced = "none"
  RuleOn = TRUE
  UdpFaults = {}
CHECK_DEADLOCK FALSE
PROPERTIES ProbeEnds
