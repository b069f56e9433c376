SPECIFICATION Spec
CONSTANTS
  Query = {1}
  Chunk = {2}
  MaxTasks = 2
  MaxLegs = 2
  MaxReranks = 1
  Permits = 1
  Attempts = 2
  CacheMax = 1
INVARIANT InferencesAreSerialized
CHECK_DEADLOCK FALSE
