CONSTANTS
  NONE = NONE
  Size = 8
  Lens = {1, 4, 5}
  MaxMsgs = 6
  PeerData <- MCPeerData
  AppData = 1
  Mss = 1
  MaxFaults = 1
  MaxConns = 1
  MaxLease = 3
  MaxLosses = 3
  Conns = {c1, c2}
  Hosts = {h1, h2}
  Timeout = 1
  MaxDnsFaults = 1
  MaxConnects = 3
SPECIFICATION FairNet
INVARIANTS
  NetworkIsTrue
PROPERTIES
  EverythingEnds
CHECK_DEADLOCK FALSE
