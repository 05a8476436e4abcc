SPECIFICATION MCLive
CONSTANTS
  Tunnels = {"t1", "t2"}
  Openers = {"o"}
  Confirm = 2
  Retry = 1
  Cool = 2
  ProbeMax = 1
  Backoff = 1
  Born = "Kcp"
  Forced = "none"
  RuleOn = TRUE
  UdpFaults = {"refused", "black"}
  Flows = {"f"}
  Share = 2
  MaxLanes = 3
  MaxFaults = 1
  MaxAsks = 1
  Claims = {1, 2}
  ShareOf <- MCShareOf
  FlowsOf <- MCFlowsOf
  LendWidth = 3
  LendTargets = 2
  LendFaults = 1
INVARIANT LaneSafe
PROPERTY SwitchesEarned
PROPERTY ChoiceFollowsPath
PROPERTY OnlyKnownWedges
 
PROPERTY LendingSettles
CHECK_DEADLOCK FALSE
