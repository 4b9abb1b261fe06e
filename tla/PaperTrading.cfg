SPECIFICATION ProcessSpec
CONSTANTS
  Bps = 100
  Ppm = 10000
  Half = 128
  HalfBits = 7
  Scale = 10000
  StopLoss = 5
  TakeProfit = 10
  TrailingStop = 3
  TrailingActivation = 5
  DropExit = 50
  Cap = 2
  Warmup = 2
  Window = 2
  MinInterval = 1
  MaxGap = 2
  MaxSampleAge = 1
  Skew = 1
  MaxDrain = 10
  MinConfidence = 70
  Prices = {0, 97, 100, 103}
  Liquidities = {0, 50, 100}
  Position = 40
  MaxSpend = 40
  MinLiquidity = 40
  PriceMaxAge = 1
  MaxHold = 3
  EntryWindow = 3
  SingleTrade = TRUE
  SignalGate = TRUE
  CostModels <- MCCostModels
  Epoch = 3
  MaxUptime = 4
  MaxBehind = 1
  Delayed = 1
  OperatorArgs <- MCOperatorArgs
  SupervisorArgs <- MCSupervisorArgs
  EnvArgs <- MCEnvArgs
  Floor = 2
  WidestStop = 2
  MinTip = 1
CHECK_DEADLOCK FALSE
INVARIANTS NeverOptimistic HoldsOnlyInside EntersOnSettledSeries OnlyArmedLiveSends ChildIsAsConfigured
