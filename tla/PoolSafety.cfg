SPECIFICATION Spec
CONSTANTS
  Pools = {p1, p2}
  NoPool = NoPool
  Procs = {t1, t2}
  NoProc = NoProc
  MaxWatch = 1
  MaxPoolsPerDay = 1
  ChecksPerLoop = 1
  LastDay = 2
  MaxRestarts = 1
  MaxCrashes = 1
SYMMETRY Symmetry
INVARIANTS PoolTypeOK RecordsOfTrader StartsWithinCap HandedOnce
PROPERTY EntersOnlyFlat
CHECK_DEADLOCK FALSE
