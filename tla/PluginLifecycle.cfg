SPECIFICATION FairSpec
CONSTANTS
  None = None
  Conns = {k1, k2}
  Plugins = {p1}
  OldPlugins = {n1}
  Tools = {t1}
  Checks = {h1}
  MaxHealthFailures = 2
  MaxQueue = 1
  MaxFaults = 1
CHECK_DEADLOCK FALSE
INVARIANTS
  CacheInDb
  NoOrphanConnection
PROPERTIES
  DeadForgotten
