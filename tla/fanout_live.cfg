\* Two Queries to one web engine; other runs suspend and clear it.
SPECIFICATION FairSpec
CONSTANTS
  web = web
  crates = crates
  Queries = 2
  Engine = {web}
  Vertical = {}
  Routed = {}
  Applies = {}
  Concurrency <- OnePermit
  MaxQueries = 2
  SoftDeadline = 1
  HardDeadline = 2
  Backoff = 1
  Shared = TRUE
  Cacheable = FALSE
CHECK_DEADLOCK FALSE
PROPERTY CallEnds
