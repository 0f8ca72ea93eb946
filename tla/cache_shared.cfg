CONSTANTS
  day = day
  week = week
  Keys = {day, week}
  Ttl <- MCTtl
  Sizes <- MCSizes
  Cap = 1
  StaleTemp = 1
  Legs = {l1, l2}
  Procs = {p1, p2}
  Pids = {i1, i2}
  MaxClock = 2
  MaxWrites = 2
  MaxKills = 1
SPECIFICATION CacheSpec
SYMMETRY MCSymmetry
INVARIANTS
  PublishedWhole
  CapKept
PROPERTIES
  EvictsOldest
