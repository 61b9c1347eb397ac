\* A page over two reserves and four dates.
SPECIFICATION Spec
CONSTANTS
  dai = dai
  weth = weth
  Reserves <- MCReserves
  Founding = {weth}
  Config <- MCConfig
  Rates <- MCRates
  Positions <- MCPositions
  Lags = {0, 1}
  RAY = 100
  WAD_RAY_RATIO = 10
  SECONDS_PER_YEAR = 4
  LtvScale = 10
  Dp = 10
  EmissionEnd = 2
  RewardScale = 10
  MaxTime = 3
  MaxTransactions = 3
INVARIANTS
  TypeOK
  ShownNearContract
  AvailableIsHealthy
  RewardsNotNegative
  PageWhenPoolFresh
  NoYieldNoRewards
  YieldCoversDebtGrowth
PROPERTIES
  PagesGrow
