SPECIFICATION Spec
CONSTANTS
  Messages = {m1, m2}
  NoMessage = NoMessage
  Cancellers = {c1}
  MaxCrashes = 0
  MayFail <- NoCalls
INVARIANTS
  GitHubClonesRepository
CHECK_DEADLOCK FALSE
