SPECIFICATION FairSpec
CONSTANTS
  MaxUnderWay = 2
  Repos = {r1, r2}
  FirstPage = {r1, r2}
  None = None
  MaxAsks = 3
  Busy = {r1}
  MaxPushes = 1
  MaxMishaps = 1
CHECK_DEADLOCK FALSE
INVARIANTS
  TypeOK
  RefreshShowsAccess
  RefreshReachesBranches
PROPERTY
  StaleBranchesExpire
