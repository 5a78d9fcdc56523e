SPECIFICATION FairSpec
CONSTANTS
  Event = {1}
  Poller = {p1}
  p1 = p1
  None = None
  Delivery = {"message"}
  Budgets <- RestoreBudgets
PROPERTIES ThreadsReopen
CHECK_DEADLOCK FALSE
