\* Requests to the staking contracts.
CONSTANTS
  c1 = c1
  c2 = c2
  usdc = usdc
  wbtc = wbtc
  snx = snx
  aweth = aweth
  stk = stk
  ETH = ETH
  None = None
  SNX = snx
  Tokens <- MCTokens
  Scale <- MCScale
  EthScale = 10
  Frac = 10
  MaxUint = 100
  SuperBig = 50
  Contracts <- MCContracts
  Configured <- MCContracts
  Requests <- StakingRequests
  Calls <- OneCall
  AllowanceLevels <- MCAllowances
  TransferableLevels = {0, 2}
  MaxOutside = 1
SPECIFICATION Spec
INVARIANTS
  RedeemsSomething
