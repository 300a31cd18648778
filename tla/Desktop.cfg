SPECIFICATION MCSpec
CONSTANTS
  Machines = {"files", "linux", "mac", "stream", "start"}
  Own = {o1}
  Others = {a, b}
  EventMax = 4
  None = None
  LocalMax = 2
  RevisionMax = 3
  GenerationMax = 2
  ConnectMax = 2
  UserSelections <- MCUserSelections
  Contents = {1}
  SelectionMax = 3
  QueueMax = 1
  Values = {u, v}
  Empty = Empty
  ChangeMax = 4
  PingAfter = 30
  PongWithin = 10
  SilenceTimeout = 35
  LatencyMax = 1
  Processes = {p1, p2}
  Clients = {c1, c2}
  Nobody = Nobody
INVARIANTS
  ShownFilesExist
  SnapshotsAreWhole
  HealthyStaysUp
PROPERTIES
  NothingOldShown
  NoFileEcho
  ImplementsClipboard
  CallsReturn
  DeadIsDropped
  OneAgentServes
  CommandsAreAnswered
CHECK_DEADLOCK FALSE
