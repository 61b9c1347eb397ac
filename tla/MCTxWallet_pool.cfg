\* Two lists over one allowance.  The system stops when both are executed.
CONSTANTS
  c1 = c1
  c2 = c2
  usdc = usdc
  debtToken = debtToken
  ETH = ETH
  None = None
  SNX = None
  Tokens <- MCTokens
  Scale <- MCScale
  EthScale = 10
  Frac = 10
  MaxUint = 100
  SuperBig = 50
  Contracts <- MCContracts
  Configured <- MCContracts
  Requests <- PoolRequests
  Calls <- TwoCalls
  AllowanceLevels <- MCAllowances
  TransferableLevels = {0}
  MaxOutside = 1
  Outstanding = 5
  Quoting <- TwoCalls
  MaxFaults = 1
SPECIFICATION WalletSpec
SYMMETRY Symmetry
INVARIANTS
  WalletTypeOK
  UndisturbedListsExecute
  OwnApprovalSuffices
  UnforcedQuotesAnswer
  GuessesOnlyWhereDue
CHECK_DEADLOCK FALSE
