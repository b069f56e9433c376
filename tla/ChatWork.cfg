SPECIFICATION Spec
CONSTANTS
  Requests = {r1, r2, r3}
  Nobody = Nobody
  Home = {home}
  Files = {f1}
  Titles = {t1}
  HomeTitle = t0
  Kinds = {"query", "stream", "upload", "create", "delete", "purge"}
  MaxQueries = 2
  MaxChats = 3
  MaxCreates = 2
  MaxTokens = 2
INVARIANTS
  TurnsKeepTheirNumbers
  MemoryForgetsOnlyOverlaps
  OverrunNeedsOverlap
  CompletedIsIndexed
  CopiesNeedOverlap
  DeletionFailsOnlyByOverlap
  StatusTellsTheOutcome
PROPERTY LedgerIsKept
SYMMETRY RequestSymmetry
