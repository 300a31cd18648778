SPECIFICATION Spec
CONSTANTS
  m1 = m1
  m2 = m2
  m3 = m3
  m4 = m4
  a = a
  b = b
  Sessions = {s1}
  Peers = {s1}
  PeerOf <- MCPeerOf
  Drafts <- RetentionDrafts
  Requests = {r1, r2}
  HistoryMax = 2
  Retention = 2
  FutureSkew = 1
  CursorMax = 3
  GenerationMax = 3
  EpochMax = 2
  ClockMax = 3
INVARIANTS
  LossIsRemembered
  GapIffMissed
  OneGenerationPerClear
PROPERTY
  ImplementsClipLog
