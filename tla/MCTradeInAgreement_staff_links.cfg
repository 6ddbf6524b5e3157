SPECIFICATION FairSpec
CONSTANTS
  r1 = r1
  r2 = r2
  ana = ana
  beka = beka
  asked = asked
  agreed = agreed
  Requests = {r1, r2}
  Users = {ana}
  Offers = {asked}
  Incomplete = incomplete
  Nobody = nobody
  MaxTokens = 0
  MaxLinks = 2
  MaxReleases = 1
  Served <- StaffQr
INVARIANTS OneLinkPerEmployee OnlyKnownDeadlocks
PROPERTIES LinkSignsOnce EveryRequestEnds
