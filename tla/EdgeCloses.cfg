SPECIFICATION MCSpec
CONSTANTS
  w1 = w1
  w2 = w2
  w3 = w3
  p = p
  q = q
  Workers = {w1, w3}
  PeerOf <- MCPeerOf
  Readers = {w1, w3}
  MaxConnections = 2
  MaxConnectionsPerPeer = 1
  QueueLimit = 1
  Interval = 2
  Burst = 2
  Word = 32
  TimeMax = 0
  ForwardMax = 0
  SetBackMax = 0
  Hubs = {h1, h2}
  Selections = {f}
  GenerationMax = 3
  EpochMax = 2
  Askers = {r1, r2}
  Ttl = 3
  FailureTtl = 2
  AskMax = 2
  ClockMax = 9
  Never = Never
  Listener = Listener
  None = None
  Themes = {"clips", "notices", "files", "daemon"}
PROPERTIES
  OverdueIsClosed
  SlowIsClosed
  DaemonDecides
