SPECIFICATION Spec
CONSTANTS
  a = a
  b = b
  Peers = {p1, p2}
  Files <- MCFiles
  Payloads <- MCPayloads
  UploadIds = {u1, u2}
  ClipIds = {c1, c2}
  ChunkBytes = 2
  Quota = 5
  UploadMax = 2
  ClipMax = 2
  RowSlack = 0
  MembersMax = 2
  Retention = 2
  ClockMax = 2
  GenerationMax = 2
SYMMETRY Symmetry
INVARIANTS
  ExpiryNeverRefused
  ReadsAreWhole
  StorageBounded
  NothingOlderReadable
PROPERTY
  ImplementsFileShelf
