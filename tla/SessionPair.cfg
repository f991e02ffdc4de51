\* The firmware initiates, the headset answers.
SPECIFICATION FairSpec
CONSTANTS
  pico = pico
  headset = headset
  Ends = {pico, headset}
  NoEnd = NoEnd
  Initiates = {pico}
  Sessions <- FewSessions
  QueueDepth = 2
  HandshakeRetry = 2
  Keepalive = 3
  SessionTimeout = 10
  MaxFaults = 4
INVARIANTS
  TypeOK
  QuietEndsAgree
PROPERTY Heals
