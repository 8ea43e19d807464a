SPECIFICATION FairSpec
CONSTANTS
  MaxUnderWay = 2
  Repos = {r1, r2}
  FirstPage = {r1, r2}
  None = None
  MaxAsks = 3
  Busy = {}
  MaxPushes = 0
  MaxMishaps = 0
CHECK_DEADLOCK FALSE
INVARIANT
  PickIsOfItsRepository
