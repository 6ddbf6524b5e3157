SPECIFICATION FairSpec
CONSTANTS
  order = order
  event = event
  d1 = d1
  d2 = d2
  import = import
  clerk = clerk
  case = case
  Nothing = Nothing
  Orders = {order}
  Events = {event}
  OrderOf <- OneOrder
  Deliveries = {d1, d2}
  Imports = {import}
  Staff = {clerk}
  Cases = {case}
  MaxWarranties = 3
  MaxFaults = 1
INVARIANTS TypeOK OneWarrantyPerOrder AnswersNameTheOrder
PROPERTIES KnownCasesStay EventsAreProcessed
CHECK_DEADLOCK FALSE
