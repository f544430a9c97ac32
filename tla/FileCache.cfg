SPECIFICATION CacheSpec
CONSTANTS
  a = a
  b = b
  c = c
  d = d
  Worker = {w1, w2}
  File = {a, b, c, d}
  SizeOf <- MCSizeOf
  Places <- MCPlaces
  TableSize = 6
  MaxCacheSize = 2
  MaxLoads = 5
SYMMETRY SymmetricWorkers
\* The requests end at MaxLoads.
CHECK_DEADLOCK FALSE
INVARIANTS
  CacheTypeOK
  UsingCounts
  NothingInUseIsFreed
  CachedIsListed
  AccountsForSizes
