SPECIFICATION FairSpec
CONSTANTS
  Accounts = {"a", "b"}
  EventLists <- MCEventLists
  PageSize = 2
  MaxRuns = 2
  MaxRemovals = 1
INVARIANTS
  OnlyEligibleAreProposed
  DoneCoversEveryAccount
PROPERTY
  FetchingEnds
CHECK_DEADLOCK FALSE
