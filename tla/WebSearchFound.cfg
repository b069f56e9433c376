SPECIFICATION Spec
CONSTANTS
  MaxTurns = 2
  MaxSearches = 2
  Keys = 2
  MaxQueries = 2
  MaxCalls = 1
  FetchTop = 1
  Permits = 1
INVARIANT FoundIsKept
