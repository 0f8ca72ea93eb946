CONSTANTS
  MinLines = 3
  ShareNum = 3
  ShareDen = 5
  Calls = {c1, c2}
  SearchLegs = {l1}
  PublicOnly = TRUE
  Bodies <- MCBodies
  StaticTimeout = 1
  BrowserTimeout = 2
  ToolTimeout = 4
  Gap = 1
  MaxRedirects = 2
  MaxNow = 5
SPECIFICATION Spec
SYMMETRY MCSymmetry
CHECK_DEADLOCK FALSE
INVARIANTS
  CutOnlyAfterWaiting
  GateRate
  PublicOnlyReached
  NothingLost
