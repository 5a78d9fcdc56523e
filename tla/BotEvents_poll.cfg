SPECIFICATION FairSpec
CONSTANTS
  Event = {1, 2}
  Poller = {p1, p2}
  p1 = p1
  p2 = p2
  None = None
  Delivery = {"message", "calendar", "forum"}
  Budgets <- PollBudgets
INVARIANTS TypeOK AnnouncedOnce 
PROPERTIES  ThreadsFollowEvents CardsCatchUp
CHECK_DEADLOCK FALSE
