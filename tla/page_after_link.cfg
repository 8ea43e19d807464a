SPECIFICATION Spec
CONSTANTS
  Sessions = {s1, s2}
  Producers = {p1}
  Tabs = {t1}
  None = None
  MaxEvents = 2
  MaxMishaps = 1
INVARIANTS
  QuietPageIsCurrentAfterLink
CHECK_DEADLOCK FALSE
