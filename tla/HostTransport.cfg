\* Three headsets for two rows.
SPECIFICATION FairSpec
CONSTANTS
  p1 = p1
  p2 = p2
  p3 = p3
  Peers = {p1, p2, p3}
  InReach = {p1}
  NoPeer = NoPeer
  Local = Local
  MaxPeers = 2
  QueueDepth = 1
  Timeout = 1
INVARIANTS
  TypeOK
  TableExact
  ListedKeepsRow
PROPERTIES
  ImplementsTransport
  Reconnects
CHECK_DEADLOCK FALSE
