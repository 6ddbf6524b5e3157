SPECIFICATION FairSpec
CONSTANTS
  Requests = {r1, r2}
  Nobody = Nobody
  Results = {"covered"}
  Amounts = {1}
  MaxOffers = 1
  MaxAttempts = 3
  Managers = FALSE
  Calls <- WaitingCalls
INVARIANT FullCountLocks
PROPERTY EveryRequestReturns
