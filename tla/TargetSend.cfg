CONSTANTS
  h1 = h1
  NoPeer = NoPeer
  Peers = {h1}
  Headsets = {h1}
  Reachable = {h1}
  DialIn = {}
  Clearable = {}
  MaxPeers = 1
  QueueDepth = 2
  SdpMaxAttempts = 1
  AbortReports = {"closed"}
SPECIFICATION FairSpec
PROPERTIES OutboundMoves ImplementsTransport
CHECK_DEADLOCK FALSE
