---------------------------- MODULE MCTxBuilder -----------------------------
(***************************************************************************)
(* Instances of TxBuilder for TLC.  Amounts are in tenths of a unit; usdc  *)
(* and its aToken have one decimal, wbtc has none (the value the cache     *)
(* cannot hold as set), ETH, aWETH, the WETH debt token and snx have one.  *)
(***************************************************************************)
EXTENDS TxBuilder

CONSTANTS c1, c2, usdc, wbtc, snx, aweth, stk

MCTokens == {usdc, wbtc, snx, aweth, stk}
MCScale == [t \in MCTokens |-> IF t = wbtc THEN 1 ELSE 10]

MCContracts ==
  {"LENDING_POOL", "WETH_GATEWAY", "SWAP_COLLATERAL_ADAPTER",
   "REPAY_WITH_COLLATERAL_ADAPTER", "FLASH_LIQUIDATION_ADAPTER",
   "TOKEN_STAKING", "STAKING_REWARD_TOKEN", "STAKING_HELPER",
   "LEND_TO_AAVE_MIGRATOR", "FAUCET", "INCENTIVES_CONTROLLER",
   "INCENTIVES_CONTROLLER_REWARD_TOKEN"}

\* A market without gateway, adapters or staking helper.
BareContracts ==
  {"LENDING_POOL", "TOKEN_STAKING", "STAKING_REWARD_TOKEN"}

Ask(op, asset, amount) ==
  [op |-> op, asset |-> asset, via |-> None, to |-> ETH, amount |-> amount,
   least |-> 0, whole |-> FALSE, flash |-> FALSE, callData |-> TRUE]

AskVia(op, asset, via, amount) == [Ask(op, asset, amount) EXCEPT !.via = via]

\* Operations of the pool on tokens: 4 tenths of wbtc round to nothing.
PoolRequests ==
  {Ask("deposit", usdc, 3), Ask("deposit", wbtc, 25), Ask("deposit", usdc, 0),
   Ask("repay", snx, 3), Ask("repay", snx, All)}

\* The same through the WETHGateway, with allowances of aWETH and of the debt
\* token (here one token).
GatewayRequests ==
  {Ask("deposit", ETH, 3), Ask("repay", ETH, 2), Ask("repay", ETH, All),
   AskVia("withdraw", ETH, aweth, 3), AskVia("withdraw", ETH, aweth, All),
   Ask("withdraw", ETH, 3), AskVia("borrow", ETH, aweth, 3),
   Ask("borrow", ETH, 3), Ask("borrow", usdc, 3), Ask("withdraw", usdc, All)}

Swap(op, amount, whole, flash, known) ==
  [op |-> op, asset |-> wbtc, via |-> wbtc, to |-> usdc, amount |-> amount,
   least |-> 2, whole |-> whole, flash |-> flash, callData |-> known]

SwapRequests ==
  {Swap("swapCollateral", 4, FALSE, flash, TRUE) : flash \in BOOLEAN}
    \cup {Swap("swapCollateral", 15, TRUE, FALSE, known) : known \in BOOLEAN}
    \cup {Swap("swapCollateral", 25, TRUE, TRUE, TRUE),
          Swap("repayWithCollateral", 4, TRUE, FALSE, TRUE),
          Swap("repayWithCollateral", 15, TRUE, TRUE, TRUE)}

LiquidationRequests ==
  {[Ask("liquidationCall", usdc, 2) EXCEPT !.whole = all] : all \in BOOLEAN}
    \cup {[Ask("flashLiquidation", usdc, 30) EXCEPT !.whole = all] :
            all \in BOOLEAN}
    \cup {Ask("liquidationCall", ETH, 2),
          Ask("swapBorrowRateMode", usdc, 0), Ask("setUsageAsCollateral", usdc, 0)}

StakingRequests ==
  {Ask("stake", stk, 2), Ask("stakeWithPermit", stk, 2), Ask("redeem", stk, All),
   Ask("redeem", stk, 0), Ask("claimRewards", stk, 5), Ask("cooldown", stk, 0),
   Ask("migrateLendToAave", stk, 3), Ask("mint", usdc, 0),
   Ask("claimIncentives", usdc, 0)}

EveryRequest == PoolRequests \cup GatewayRequests \cup SwapRequests
                  \cup LiquidationRequests \cup StakingRequests

\* For two calls at a time: a token read twice by one call, a token without
\* decimals, the Synthetix check, a delegation, an allowance read before the
\* decimals of two more tokens.
ConcurrentRequests ==
  {Ask("deposit", usdc, 3), Ask("repay", snx, 3),
   AskVia("borrow", ETH, aweth, 3), Swap("swapCollateral", 25, FALSE, FALSE, TRUE)}

\* Two that the bare market serves, three that it declines for want of the
\* gateway, the adapter and the helper.
BareRequests ==
  {Ask("deposit", wbtc, 25), Ask("liquidationCall", usdc, 3),
   AskVia("withdraw", ETH, aweth, 3), Swap("swapCollateral", 25, FALSE, FALSE, TRUE),
   Ask("stakeWithPermit", stk, 2)}

MCAllowances == {0, 3, 50}
OneCall == {c1}
TwoCalls == {c1, c2}
=============================================================================
