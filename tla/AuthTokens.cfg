SPECIFICATION Spec
CONSTANTS
  Request = {r1, r2, r3, r4}
SYMMETRY RequestSymmetry
CHECK_DEADLOCK FALSE
INVARIANTS
  TypeOK
  RevocationHolds
  SingleUse
  StaleTokensBuyNothing
  ReuseKillsTheFamily
