SPECIFICATION Spec
CONSTANTS
  DefaultMaxAttempts = 2
  UnlimitedAttempts = 9
  Effect <- EventEffects
  Code = {"channel"}
  Token = {t1, t2}
  Instance = {i1, i2}
  ClaimLimit = 1
  MaxId = 2
SYMMETRY Symmetry
INVARIANTS TypeOK AttemptsWithinBudget SuccessorIsWarned
PROPERTIES OutcomesAreFinal IsLeaseQueue
CHECK_DEADLOCK FALSE
