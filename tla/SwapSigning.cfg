SPECIFICATION Spec
CONSTANTS
  Span = 2
  DefaultArrays = 4
  ExtensionBitmaps = 1
  MinTick <- MCMinTick
  MaxTick = 15
  MaxSwapArrays = 2
  ScanLength = 2
  Bps = 100
  Ppm = 10000
  MaxTransfer = 50
  MaxCuPrice = 2
  TipAccounts = {"tip"}
  Pin = "wallet"
  OtherKey = "other"
  Position = 40
  Outs = {0, 93, 95, 100}
  Liquidities = {0, 60, 100}
  Terms <- MCTerms
  BaseSlippage = 2
  ExitMaxSlippage = 5
  MaxFailures = 3
  Settings <- MCSettings
  Openings <- MCOpenings
  Touched <- MCTouched
  MaxMoves = 1
  MaxBatch = 2
INVARIANTS SwapAccountsSuffice SignsWhatItBuilds SubmittedIsSigned FillsWithinTolerance EntryPaysOff
