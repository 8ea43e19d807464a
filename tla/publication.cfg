SPECIFICATION FairSpec
CONSTANTS
  Readers = {r1}
  MaxTurns = 2
  MaxEdits = 2
  MaxCalls = 3
  MaxMishaps = 2
INVARIANTS
  TypeOK
  OneCurrentRow
  NoPullRequestLost
  CreatingIsUnderWay
PROPERTIES
  PublishedStaysCurrent
  WorkspaceRestored
  RowCatchesUp
CHECK_DEADLOCK FALSE
