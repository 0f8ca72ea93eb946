\* One process, three legs on one engine with two permits.
SPECIFICATION Spec
CONSTANTS
  e1 = e1
  Proc = {p1}
  Leg = {l1, l2, l3}
  Engine = {e1}
  LegEngine <- OneEngine
  Concurrency <- TwoPermits
  Paginates = {e1}
  RequestCap = 2
  MinGap = 2
  MaxGap = 3
  MaxSuspension = 2
  ErrorSuspension = {0}
  Backoff = 1
  Res = 1
  CacheRoot = TRUE
  WriteMayFail = FALSE
  FarFuture = {9}
  MaxTime = 3
SYMMETRY LegSymmetry
INVARIANT BudgetBound
PROPERTY GapWindow
