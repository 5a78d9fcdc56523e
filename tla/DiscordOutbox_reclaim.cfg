SPECIFICATION FairSpec
CONSTANTS
  DefaultMaxAttempts = 2
  UnlimitedAttempts = 9
  Effect <- Refresh
  Code = {"channel"}
  Token = {t1, t2}
  Instance = {i1}
  ClaimLimit = 1
  MaxId = 2
PROPERTIES LeasesAreReturned
CHECK_DEADLOCK FALSE
