SPECIFICATION FairSpec
CONSTANTS
  r1 = r1
  r2 = r2
  acme = acme
  Nobody = Nobody
  Requests = {r1, r2}
  Partners = {acme}
  MaxCases = 2
INVARIANTS TypeOK NumberingGoesOn OpeningIsRecorded
PROPERTIES DeletesUnlinkedOnly PartnerCasesNeedAvailable EveryRequestReturns
