\* Two processes, one leg each, whose writes of engines.json may be lost.
SPECIFICATION Spec
CONSTANTS
  e1 = e1
  Proc = {p1, p2}
  Leg = {l1}
  Engine = {e1}
  LegEngine <- OneEngine
  Concurrency <- OnePermit
  Paginates = {e1}
  RequestCap = 1
  MinGap = 1
  MaxGap = 1
  MaxSuspension = 2
  ErrorSuspension = {1, 3}
  Backoff = 1
  Res = 2
  CacheRoot = TRUE
  WriteMayFail = TRUE
  FarFuture = {9}
  MaxTime = 3
SYMMETRY ProcSymmetry
INVARIANT SuspensionBounded
PROPERTY SuspensionKept
PROPERTY ClockNeverRewinds
PROPERTY DispatchHonoursSuspension
