SPECIFICATION FairSpec
CONSTANTS
  Event = {e1, e2, e3}
  Flash = {e3}
  Socket = {s1, s2}
  None = None
  Budgets <- PageBudgets
INVARIANTS TypeOK SingleSocket LoadsShowTheRoute NothingIsMissed
PROPERTIES LoadsNeverGoBack SpinnerIsLowered LoadsAreNeverStale
\* every budget is finite, so the instance stops
CHECK_DEADLOCK FALSE
