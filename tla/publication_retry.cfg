SPECIFICATION Spec
CONSTANTS
  Readers = {}
  MaxTurns = 1
  MaxEdits = 1
  MaxCalls = 2
  MaxMishaps = 1
INVARIANTS
  PushesFastForward
CHECK_DEADLOCK FALSE
