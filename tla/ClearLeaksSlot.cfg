CONSTANTS
  h1 = h1
  NoPeer = NoPeer
  Peers = {h1}
  Headsets = {h1}
  Reachable = {}
  DialIn = {}
  Clearable = {h1}
  MaxPeers = 1
  QueueDepth = 2
  SdpMaxAttempts = 2
  AbortReports = {"opened", "closed"}
SPECIFICATION Spec
INVARIANTS DisconnectingEnds
CHECK_DEADLOCK FALSE
