SPECIFICATION Spec
CONSTANTS
  Requests = {r0, r1, r2, r3}
  First = r0
  Nobody = Nobody
  Kinds = {"register", "resend", "forgot", "verify", "reset"}
  MaxAttempts = 2
SYMMETRY RequestSymmetry
CHECK_DEADLOCK FALSE
INVARIANTS
  DeadCodesStayDead
  ExtraGuessesNeedOverlap
  CodesCompeteOnlyByOverlap
PROPERTY PasswordNeedsCode
