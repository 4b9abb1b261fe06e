SPECIFICATION FairSpec
CONSTANTS
  MaxTradeSize = 1
  MaxSlippageBps = 1
  DailyLossLimit = 2
  MaxDailyTrades = 2
  BreakerDuration = 0
  MaxOpenPositions = 1
  MaxTotalExposure = 1
  LastDay = 1
  ProbeSize = 1
  ProbeBps = 1
  EntrySize = 1
  EntryBps = 1
  EntryFee = 1
  ExitLoss = 1
  UnsettledErr = FALSE
  RpcFails = TRUE
  MaxEntries = 2
  MaxSells = 2
  MaxCrashes = 2
  MaxFailedWrites = 0
  MaxFailedClears = 0
PROPERTIES
  PositionIsClosed
  PendingIsSettled
