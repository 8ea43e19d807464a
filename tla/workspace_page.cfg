SPECIFICATION Spec
CONSTANTS
  Sessions = {s1, s2}
  Producers = {p1, p2}
  Tabs = {t1}
  None = None
  MaxEvents = 2
  MaxMishaps = 1
INVARIANTS
  TypeOK
  SequencesDense
  WireIncreases
  ResumeLosesNothing
  QuietPageIsCurrent
  SettledStreamIsComplete
PROPERTIES
  ImplementsFeed
CHECK_DEADLOCK FALSE
SYMMETRY Symmetry
