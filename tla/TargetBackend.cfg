\* Two headsets for one slot, one of them dialling in and cleared.
CONSTANTS
  h1 = h1
  h2 = h2
  NoPeer = NoPeer
  Peers = {h1, h2}
  Headsets = {h1, h2}
  Reachable = {}
  DialIn = {h1}
  Clearable = {h1}
  MaxPeers = 1
  QueueDepth = 1
  SdpMaxAttempts = 1
  AbortReports = {"opened", "closed"}
SPECIFICATION Spec
INVARIANTS TypeOK ConnectedHasChannel CidIsLive QueuedForListed
CHECK_DEADLOCK FALSE
