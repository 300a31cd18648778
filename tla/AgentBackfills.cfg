SPECIFICATION Spec
CONSTANTS
  OutboxMax = 1
  EpochMax = 1
  GenerationMax = 1
  CursorMax = 1
  RevisionMax = 1
  MessageMax = 1
PROPERTY
  NeverBackfilled
