SPECIFICATION FairSpec
CONSTANTS
  Node = {m, n}
  Conn = {o, i}
  Outbound = {o}
  MaxNumPeers = 1
  MinOutbound = 1
  Packs = 2
  MaxFaults = 2
  None = None
INVARIANTS
  SetConsistent
  
CHECK_DEADLOCK FALSE
PROPERTIES
  HandshakeEnds
  PendingServed
