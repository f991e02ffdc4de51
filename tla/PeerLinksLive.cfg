\* Two headsets and a room for both: silence and slots under the main loop.
SPECIFICATION FairSpec
CONSTANTS
  Peers = {h1, h2}
  NoPeer = NoPeer
  Sessions = {s1}
  NoSession = NoSession
  MaxPeers = 2
  QueueDepth = 1
  HandshakeRetry = 1
  SessionTimeout = 2
PROPERTIES
  SilentSessionEnds
  LinkSlotReclaimed
