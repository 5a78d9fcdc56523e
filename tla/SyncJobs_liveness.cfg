SPECIFICATION FairSpec
CONSTANTS
  Submission <- EventChanges
  Token = {t1, t2}
  Tenant = {"alliance", "guild"}
  ClaimLimit = 2
  MaxAttempts = 2
  MaxSeq = 2
 
PROPERTY EveryJobSettles
CHECK_DEADLOCK FALSE
