CONSTANTS
  h1 = h1
  h2 = h2
  h3 = h3
  NoPeer = NoPeer
  Peers = {h1, h2, h3}
  Headsets = {h1, h2, h3}
  Reachable = {}
  DialIn = {}
  Clearable = {}
  MaxPeers = 2
  QueueDepth = 0
  SdpMaxAttempts = 2
  AbortReports = {"closed"}
SPECIFICATION Spec
SYMMETRY HeadsetSymmetry
INVARIANTS OneDial DisconnectingEnds BlockedForCause RowsHavePlaces
PROPERTY DisconnectSticks
CHECK_DEADLOCK FALSE
