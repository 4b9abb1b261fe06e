SPECIFICATION FairSpec
CONSTANTS
  Pools = {p1}
  NoPool = NoPool
  Procs = {t1, t2}
  NoProc = NoProc
  MaxWatch = 1
  MaxPoolsPerDay = 1
  ChecksPerLoop = 1
  LastDay = 1
  MaxRestarts = 1
  MaxCrashes = 1
PROPERTY RecordsAreSettled
CHECK_DEADLOCK FALSE
