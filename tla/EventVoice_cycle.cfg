SPECIFICATION FairSpec
CONSTANTS
  Room = {1, 2, 3}
  None = None
  Budgets <- CycleBudgets
INVARIANTS TypeOK BoundRoomExists NobodyIsCutOff
PROPERTIES   DueEventsStart
CHECK_DEADLOCK FALSE
