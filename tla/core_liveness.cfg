SPECIFICATION GitHubFairSpec
CONSTANTS
  Messages = {m1, m2}
  NoMessage = NoMessage
  Cancellers = {c1}
  MaxCrashes = 0
  MayFail <- CallPerCatch
PROPERTIES
  EveryMessageSettles
  ExecutionsReleased
CHECK_DEADLOCK FALSE
