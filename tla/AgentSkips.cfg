SPECIFICATION Spec
CONSTANTS
  OutboxMax = 1
  EpochMax = 1
  GenerationMax = 1
  CursorMax = 3
  RevisionMax = 1
  MessageMax = 1
PROPERTY
  LiveClipsAreTaken
