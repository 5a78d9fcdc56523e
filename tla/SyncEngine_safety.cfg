SPECIFICATION ESpec
CONSTANTS
  Submission <- Submissions
  Token = {k1, k2}
  Tenant = {"alliance", "guild"}
  ClaimLimit = 2
  MaxAttempts = 2
  MaxSeq = 2
  Entity = {"event"}
  Origin = "alliance"
  Target = {"guild"}
  Instance = {i1, i2}
  MaxVersion = 2
SYMMETRY Symmetry
INVARIANT ETypeOK 
PROPERTY IsLeaseQueue
CHECK_DEADLOCK FALSE
