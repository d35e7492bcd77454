\* RDP: two peers, three and two connections, both limits below the demand.
\* No symmetry: the connections that are served eventually are told apart.
SPECIFICATION FairSpec
CONSTANTS
  Peer <- SmallPeers
  Conn <- SmallConns
  PeerOf <- SmallPeerOf
  MaxGlobal = 2
  MaxPerPeer = 2
  MaxPending = 1
  MaxAttempts = 2
  Second = 2
INVARIANTS
  TypeOK
  BooksBalance
  RateRespected
  WakeupPunctual
PROPERTIES
  AdmissionSpec
  DelayedServed
