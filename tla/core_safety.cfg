SPECIFICATION Spec
CONSTANTS
  Messages = {m1, m2}
  NoMessage = NoMessage
  Cancellers = {c1}
  MaxCrashes = 1
  MayFail <- DistinctFailures
SYMMETRY Symmetry
INVARIANTS
  TypeOK
  LockMatchesStatus
  OneOutcome
  ArtifactsAnnounced
  ReadyIsPopulated
  RunningIsTracked
  CancelAnswersHold
  WorkspaceIsHeld
PROPERTIES
  TerminalIsFinal
  CancelledBeginsNothing
  ImplementsMailbox
CHECK_DEADLOCK FALSE
