SPECIFICATION FairSpec
CONSTANTS
  Requests = {r1, r2}
  MaxCrashes = 1
INVARIANT TypeOK
INVARIANT PaidWasTaken
INVARIANT CompletedWasTaken
PROPERTY PaymentIsRecorded
CHECK_DEADLOCK FALSE
