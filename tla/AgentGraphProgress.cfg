SPECIFICATION Spec
CONSTANTS
  Fact = {f1}
  MaxRepairPasses = 2
  MaxSearches = 1
  MaxRetrievals = 1
  MaxEvidence = 1
  ReservedSlots = 1
  MaxCarried = 0
  CounterCap = 2
PROPERTIES
  RequestsEnd
