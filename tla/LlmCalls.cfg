SPECIFICATION Spec
CONSTANT PlannerAttempts = 2
INVARIANTS
  OwnKeysComeFirst
PROPERTY TurnsEnd
