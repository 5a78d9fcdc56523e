SPECIFICATION FairSpec
CONSTANTS
  Event = {e1}
  Flash = {}
  Socket = {s1, s2}
  None = None
  Budgets <- LagBudgets
PROPERTY NewsReachesThePage
\* every budget is finite, so the instance stops
CHECK_DEADLOCK FALSE
