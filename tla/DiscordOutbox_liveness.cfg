SPECIFICATION FairSpec
CONSTANTS
  DefaultMaxAttempts = 2
  UnlimitedAttempts = 9
  Effect <- MixedEffects
  Code = {"channel"}
  Token = {t1, t2}
  Instance = {i1}
  ClaimLimit = 2
  MaxId = 2
PROPERTIES EveryEffectSettles
CHECK_DEADLOCK FALSE
