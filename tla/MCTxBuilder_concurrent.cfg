\* Two calls at a time, also against the atomic abstraction.
CONSTANTS
  c1 = c1
  c2 = c2
  usdc = usdc
  wbtc = wbtc
  snx = snx
  aweth = aweth
  stk = stk
  ETH = ETH
  None = None
  SNX = snx
  Tokens <- MCTokens
  Scale <- MCScale
  EthScale = 10
  Frac = 10
  MaxUint = 100
  SuperBig = 50
  Contracts <- MCContracts
  Configured <- MCContracts
  Requests <- ConcurrentRequests
  Calls <- TwoCalls
  AllowanceLevels = {2, 4}
  TransferableLevels = {2, 3}
  MaxOutside = 1
SPECIFICATION Spec
INVARIANTS
  ApprovalIffShort
PROPERTIES
  BuildsAtomically
