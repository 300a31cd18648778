SPECIFICATION FairSpec
CONSTANTS
  m1 = m1
  m2 = m2
  m3 = m3
  m4 = m4
  a = a
  b = b
  Sessions = {s1, s2}
  Peers = {s1, s2}
  PeerOf <- MCPeerOf
  Drafts <- LivenessDrafts
  Requests = {r1}
  HistoryMax = 2
  Retention = 1
  FutureSkew = 1
  CursorMax = 2
  GenerationMax = 2
  EpochMax = 1
  ClockMax = 0
PROPERTIES
  LeftBehindEnds
  OffersAreWritten
