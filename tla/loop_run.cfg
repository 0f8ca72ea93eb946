\* A run of eight time units, a quarter of it reserved; the budget grows
\* from two Turns to at most four.
SPECIFICATION FairSpec
CONSTANTS
  RunTime = 8
  RequestTimeout = 3
  MaxAttempts = 3
  Backoff <- Delays
  MaxTurns = 2
  MaxTurnsCap = 4
  SearchTurnBonus = 1
  MaxRepairs = 1
  MaxToolsPerTurn = 2
  ToolTimeout = 3
CHECK_DEADLOCK FALSE
INVARIANT EndsByDeadline
INVARIANT NoteHonoured
PROPERTY RunEnds
