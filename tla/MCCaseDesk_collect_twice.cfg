SPECIFICATION Spec
CONSTANTS
  Requests = {r1, r2}
  Nobody = Nobody
  Results = {"covered"}
  Amounts = {1}
  MaxOffers = 1
  MaxAttempts = 2
  Managers = TRUE
  Calls <- CollectTwiceCalls
INVARIANT HandedOverOnce
