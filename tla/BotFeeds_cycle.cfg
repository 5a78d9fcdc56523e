SPECIFICATION FairSpec
CONSTANTS
  Giveaway = {1, 2}
  MaxAttempts = 4
  Budgets <- FeedBudgets
INVARIANTS TypeOK VodPostedOnce VodPostStands  
PROPERTIES VodsSettle  ResultsAreShown 
CHECK_DEADLOCK FALSE
