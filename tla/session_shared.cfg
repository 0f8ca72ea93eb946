CONSTANTS
  dead = dead
  main = main
  peer = peer
  Sessions <- MCShared
  Old <- MCOld
  Modes <- MCSharedModes
  Cap = 4
  Turns <- MCSharedTurns
  MaxAttempts = 1
  MaxFragments = 1
  MaxCalls = 1
SPECIFICATION Spec
CHECK_DEADLOCK FALSE
PROPERTY
  LogsOnlyGrow
