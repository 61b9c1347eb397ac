\* With credit delegation, fairly.  The system stops when both lists are executed.
CONSTANTS
  c1 = c1
  c2 = c2
  usdc = usdc
  debtToken = debtToken
  ETH = ETH
  None = None
  SNX = None
  Tokens <- MCTokens
  Scale <- MCScale
  EthScale = 10
  Frac = 10
  MaxUint = 100
  SuperBig = 50
  Contracts <- MCContracts
  Configured <- MCContracts
  Requests <- FairRequests
  Calls <- TwoCalls
  AllowanceLevels <- MCAllowances
  TransferableLevels = {0}
  MaxOutside = 1
  Outstanding = 5
  Quoting = {}
  MaxFaults = 1
SPECIFICATION FairWalletSpec
PROPERTIES
  SendsAtomically
  RequestsGetDone
CHECK_DEADLOCK FALSE
