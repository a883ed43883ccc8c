\* Peers that ask for any number of queues and may die, come back and leave; a dead
\* peer leaves a socket that is reset or closed. The system may stop: everyone is
\* connected, or the server spins.
SPECIFICATION FairSpec
CONSTANTS
  p1 = p1
  p2 = p2
  None = None
  Peers <- TwoPeers
  Buffers <- Eight
  ServerQueues = 0
  PeerQueues <- AnyQueues
  Ends <- AnyEnd
  MaxDeaths = 1
  MaxDestroyed = 1
INVARIANTS EndsMatch
PROPERTIES EveryoneConnects
CHECK_DEADLOCK FALSE
