\* Two users, two reserves, three dates.
SPECIFICATION Spec
CONSTANTS
  dai = dai
  weth = weth
  ann = ann
  bob = bob
  None = None
  Users <- MCUsers
  Wallet = ann
  Reserves <- MCReserves
  Moving = {dai}
  Config <- MCConfig
  Totals <- MCTotals
  Opening <- MCOpening
  Deposits = {5}
  Loans = {5}
  FeeDivisor = 4
  Lags = {0, 1}
  RAY = 100
  WAD_RAY_RATIO = 10
  SECONDS_PER_YEAR = 4
  LtvScale = 10
  Dp = 1000
  MaxTime = 2
  MaxTransactions = 3
INVARIANTS
  TypeOK
  InterestShownOnce
  AvailableKeepsHealth
  WithdrawalKeepsHealth
  ShownDebts
  AverageExplainsIndex
PROPERTIES
  RedirectingMovesNothing
