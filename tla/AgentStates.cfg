SPECIFICATION Spec
CONSTANTS
  OutboxMax = 1
  EpochMax = 2
  GenerationMax = 2
  CursorMax = 3
  RevisionMax = 2
  MessageMax = 1
INVARIANTS
  NeverEchoed
  OutboxIsSent
  ShownIsRecorded
  AcksAreDurable
  NothingOlderKept
PROPERTIES
  NeverRollsBack
