SPECIFICATION Spec
CONSTANTS
  MaxTradeSize = 2
  MaxSlippageBps = 1
  DailyLossLimit = 3
  MaxDailyTrades = 2
  BreakerDuration = 1
  MaxOpenPositions = 1
  MaxTotalExposure = 3
  LastDay = 2
  Sizes <- MCOneSize
  Slippages <- MCSlippages
  ErrorKinds <- MCErrorKinds
  KillReasons <- MCKillReasons
  Losses <- MCLosses
  MaxLossPerDay = 4
  MaxFailedWrites = 0
INVARIANT CapCountsTodayOnly
