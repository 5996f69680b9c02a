SPECIFICATION MCSpec
CONSTANTS
  Pools <- MCPools
  Quotes <- MCQuotes
  DfsLimit = 3
  FeeUnit = 1000
  NewtonSteps = 16
  Precision = 100000000
  GssIterations = 16
  PriceUnit = 10
  Window = 3
  ProxyDepth = 1000
  Routes <- MCRoutes
  StablePairs <- MCStables
  Oracles = {0, 1000, 2300}
  DepegThreshold = 2
  ArbPools <- MCArbPools
  BookTops <- MCBookTops
  SignalThreshold = 5
  PriceHistories <- MCHistories
  Books <- MCBooks
  Positions <- MCPositions
  PriceMaps <- MCPriceMaps
  CachedFactors = {0, 960}
  Bonus <- MCBonus
  GasCosts = {0, 1, 40}
  GasPriceMultiplier <- MCMultipliers
  FlashFee = 1
  FlashAvailable = 600
  HardCap = 500
  MinProfit = 7
  Roi = 150
  Trades <- MCTrades
  Amounts = {10, 77, 150}
INVARIANTS ScansTypeOK LandedPays DiscountLosesAsRead SizedNearBest SwapsConserve
  Phase1SizesNoLoss Phase1CannotRepay WindowIsLast SlippageExact LiquidatesBelowSubmit
  RoutesAreTriangles BestRouteKept
