SPECIFICATION PersistentSpec
CONSTANTS
  Messages = {m1}
  NoMessage = NoMessage
  Cancellers = {c1, c2}
  MaxCrashes = 2
  MayFail <- Calls
PROPERTIES
  EveryMessageSettles
CHECK_DEADLOCK FALSE
