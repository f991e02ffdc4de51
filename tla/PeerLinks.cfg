\* Three headsets for two slots.
SPECIFICATION Spec
CONSTANTS
  Peers = {h1, h2, h3}
  NoPeer = NoPeer
  Sessions = {s1, s2}
  NoSession = NoSession
  MaxPeers = 2
  QueueDepth = 2
  HandshakeRetry = 1
  SessionTimeout = 2
SYMMETRY InterchangeSymmetry
INVARIANTS
  TypeOK
  RelayMatchesSessions
  NoStaleSession
  NoSessionBehindMirror
  ReadyCountBounded
PROPERTY SessionEndsForCause
