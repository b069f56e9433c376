SPECIFICATION Spec
CONSTANTS
  MaxPasses = 2
  MaxModels = 2
  MaxTokens = 1
  QueueSize = 2
  TimeLimit = TRUE
CHECK_DEADLOCK FALSE
INVARIANTS
  OneCallAtATime
  CompletedIsFaithful
  DoneIsDurable
PROPERTIES
  StreamEnds
