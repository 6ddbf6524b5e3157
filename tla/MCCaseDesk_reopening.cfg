SPECIFICATION Spec
CONSTANTS
  Requests = {r1, r2, r3}
  Nobody = Nobody
  Results = {"payable"}
  Amounts = {1}
  MaxOffers = 2
  MaxAttempts = 2
  Managers = TRUE
  Calls <- ReopeningCalls
INVARIANT OpenCollectionIsBeingCleared
INVARIANT OneOfferPerType
PROPERTY CollectsCompletedOnly
SYMMETRY Symmetry
