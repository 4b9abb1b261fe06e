SPECIFICATION DrySpec
CONSTANTS
  Bps = 100
  FeeTiers <- MCFeeTiers
  FlatFees <- MCFlatFees
  Vaults = {"vault"}
  ProgramOwned = {"locker"}
  Supply = 100
  MaxIdentical = 3
  MaxSingle = 3000
  MaxTop = 7000
  Pools <- MCPools
  Dists <- MCDists
  Mints <- MCMints
  Policy = "PaperToken2022"
  Position = 10
  Slippage = 10
  MinLiquidity = 5
  Wallets = {0, 4}
  HolderTtl = 2
  ErrorBackoff = 1
  MaxTime = 3
  MaxMoves = 1
CHECK_DEADLOCK FALSE
INVARIANT MeasuresTheModel
 
