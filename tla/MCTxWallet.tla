----------------------------- MODULE MCTxWallet -----------------------------
(* Instances of TxWallet for TLC: two calls over one allowance of usdc, or *)
(* over the delegation to the gateway. *)
EXTENDS TxWallet, TLC

CONSTANTS c1, c2, usdc, debtToken

MCTokens == {usdc, debtToken}
MCScale == [t \in MCTokens |-> 10]
MCContracts ==
  {"LENDING_POOL", "WETH_GATEWAY", "SWAP_COLLATERAL_ADAPTER",
   "REPAY_WITH_COLLATERAL_ADAPTER", "TOKEN_STAKING", "LEND_TO_AAVE_MIGRATOR"}

Ask(op, asset, via, amount) ==
  [op |-> op, asset |-> asset, via |-> via, to |-> ETH, amount |-> amount,
   least |-> 0, whole |-> FALSE, flash |-> FALSE, callData |-> TRUE]

PoolRequests ==
  {Ask("deposit", usdc, None, 3), Ask("repay", usdc, None, All),
   [Ask("liquidationCall", usdc, None, 2) EXCEPT !.whole = TRUE]}
FairRequests ==
  {Ask("deposit", usdc, None, 3), Ask("repay", usdc, None, All),
   Ask("borrow", ETH, debtToken, 3), Ask("deposit", ETH, None, 2)}

MCAllowances == {0, 3, 50}
TwoCalls == {c1, c2}
Symmetry == Permutations(TwoCalls)
=============================================================================
