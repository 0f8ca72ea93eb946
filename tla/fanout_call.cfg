\* Two Queries to a web engine with two permits and to the vertical.
SPECIFICATION Spec
CONSTANTS
  web = web
  crates = crates
  Queries = 2
  Engine = {web, crates}
  Vertical = {crates}
  Routed = {2}
  Applies = {web}
  Concurrency <- TwoPermits
  MaxQueries = 2
  SoftDeadline = 1
  HardDeadline = 2
  Backoff = 1
  Shared = FALSE
  Cacheable = TRUE
CHECK_DEADLOCK FALSE
INVARIANT CancelledUnsent
INVARIANT NoneLeftQueued
INVARIANT CancelKeepsAnswer
INVARIANT BlockedMeansWalled
