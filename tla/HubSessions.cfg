SPECIFICATION Spec
CONSTANTS
  m1 = m1
  m2 = m2
  m3 = m3
  m4 = m4
  a = a
  b = b
  Sessions = {s1, s2}
  Peers = {s1, s2}
  PeerOf <- MCPeerOf
  Drafts <- SessionDrafts
  Requests = {r1, r2}
  HistoryMax = 2
  Retention = 1
  FutureSkew = 1
  CursorMax = 3
  GenerationMax = 2
  EpochMax = 1
  ClockMax = 0
SYMMETRY Symmetry
INVARIANTS
  OffersInOrder
  NothingSkipped
  NoClearedClipOffered
  LeftBehindIsTold
