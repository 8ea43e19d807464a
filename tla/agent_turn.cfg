SPECIFICATION FairSpec
CONSTANTS
  MaxCalls = 3
  MaxWidth = 2
  MaxMishaps = 1
INVARIANTS
  TypeOK
  ToolsTakeTurns
  EndsMatchStarts
  FeedTellsTheTurn
  TraceIsWhole
  TraceCoversEvents
  EntryReleased
PROPERTIES
  TurnEnds
CHECK_DEADLOCK FALSE
