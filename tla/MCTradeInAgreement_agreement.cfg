SPECIFICATION Spec
CONSTANTS
  r1 = r1
  r2 = r2
  ana = ana
  beka = beka
  asked = asked
  agreed = agreed
  Requests = {r1, r2}
  Users = {ana, beka}
  Offers = {asked, agreed}
  Incomplete = incomplete
  Nobody = nobody
  MaxTokens = 2
  MaxLinks = 0
  MaxReleases = 2
  Served <- Operations
SYMMETRY Alike
INVARIANTS TypeOK LoadedIsCurrent
PROPERTIES KeepsContract CancelledIsNotCompleted
