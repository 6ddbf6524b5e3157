SPECIFICATION Spec
CONSTANTS
  Requests = {r1, r2}
  Nobody = Nobody
  Results = {"payable"}
  Amounts = {1, 2}
  MaxOffers = 1
  MaxAttempts = 2
  Managers = TRUE
  Calls <- EditingCalls
INVARIANT StagesCoherent
INVARIANT TimelineMatches
INVARIANT CompletedPayableWasPaid
PROPERTY PaidOnlyByConfirmation
SYMMETRY Symmetry
