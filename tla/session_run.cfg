CONSTANTS
  dead = dead
  main = main
  peer = peer
  Sessions <- MCAlone
  Old <- MCNone
  Modes <- MCAloneModes
  Cap = 4
  Turns <- MCAloneTurns
  MaxAttempts = 2
  MaxFragments = 1
  MaxCalls = 1
SPECIFICATION Spec
CHECK_DEADLOCK FALSE
INVARIANTS
  OneStory
  TurnsRecorded
  ClosedByTheExit
  ExplicitLogKept
  FragmentsAttributed
