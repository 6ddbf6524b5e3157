SPECIFICATION FairSpec
CONSTANTS
  j1 = j1
  j2 = j2
  other = other
  starter = starter
  admin1 = admin1
  admin2 = admin2
  Jobs = {j1}
  Refreshers = {other}
  Starters = {starter}
  Admins = {admin1, admin2}
  Items = {display}
  display = display
  Offers = {1, 2}
  MaxPages = 2
  MaxProducts = 2
INVARIANTS TypeOK UnfinishedJobsRun OneProductPerItem
PROPERTIES EveryJobEnds
