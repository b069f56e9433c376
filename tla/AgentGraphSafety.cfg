SPECIFICATION Spec
CONSTANTS
  Fact = {f1, f2}
  MaxRepairPasses = 2
  MaxSearches = 1
  MaxRetrievals = 1
  MaxEvidence = 1
  ReservedSlots = 1
  MaxCarried = 1
  CounterCap = 12
SYMMETRY FactSymmetry
INVARIANTS
  TypeOK
  StepBudget
  SearchBudget
  NoSilentFailure
  RepairCarriesCritique
  ClaimsMatchContext
  RepairKeepsTheAnswer
PROPERTY KeepsContract
