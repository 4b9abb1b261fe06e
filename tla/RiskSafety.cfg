SPECIFICATION Spec
CONSTANTS
  MaxTradeSize = 2
  MaxSlippageBps = 1
  DailyLossLimit = 3
  MaxDailyTrades = 2
  BreakerDuration = 1
  MaxOpenPositions = 2
  MaxTotalExposure = 3
  LastDay = 2
  Sizes <- MCSizes
  Slippages <- MCSlippages
  ErrorKinds <- MCErrorKinds
  KillReasons <- MCKillReasons
  Losses <- MCLosses
  MaxLossPerDay = 4
  MaxFailedWrites = 2
INVARIANTS
  ClientTypeOK
  DailyCapHolds
  ExposureWithinCap
  CountersMatchPositions
  NoEntryPastLossLimit
  DailyLossExact
PROPERTIES
  NoEntryDuringCoolDown
