SPECIFICATION Spec
CONSTANTS
  Messages = {m1, m2}
  NoMessage = NoMessage
  Cancellers = {c1}
  MaxCrashes = 0
  MayFail <- NoCalls
PROPERTIES
  SandboxTransitions
CHECK_DEADLOCK FALSE
