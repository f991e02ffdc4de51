CONSTANTS
  h1 = h1
  NoPeer = NoPeer
  Peers = {h1}
  Headsets = {h1}
  Reachable = {h1}
  DialIn = {}
  Clearable = {}
  MaxPeers = 2
  QueueDepth = 2
  SdpMaxAttempts = 1
  AbortReports = {"opened"}
SPECIFICATION FairSpec
PROPERTIES Reconnects
CHECK_DEADLOCK FALSE
