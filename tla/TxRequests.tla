----------------------------- MODULE TxRequests -----------------------------
(***************************************************************************)
(* What each transaction-building method of the library does with one     *)
(* request: the checks that refuse it before anything is awaited, the      *)
(* provider reads it awaits and their order, the token allowance it        *)
(* inspects, and the amount it puts in the call data.                      *)
(*                                                                         *)
(* Amounts are written in units of 1/Frac of a currency unit ("2.5" with   *)
(* Frac = 10 is 25); a token's scale is 10^decimals.                       *)
(***************************************************************************)
EXTENDS Integers, Sequences

CONSTANTS
  Tokens,       \* addresses of ERC20 tokens, aTokens and debt tokens
  ETH,          \* API_ETH_MOCK_ADDRESS
  None,         \* an absent address
  SNX,          \* the Synthetix proxy, None outside mainnet
  Scale,        \* 10^decimals() of each token contract
  EthScale,     \* 10^18
  Frac,
  MaxUint,      \* MAX_UINT_AMOUNT, constants.MaxUint256
  SuperBig,     \* SUPER_BIG_ALLOWANCE_NUMBER
  Contracts,    \* names of the addresses a market's configuration may hold
  Configured,   \* those that this market and network do have
  Requests      \* the requests the application makes

All == -1       \* the amount '-1': everything the user has, or owes

Ops == {"deposit", "withdraw", "borrow", "repay", "swapBorrowRateMode",
        "setUsageAsCollateral", "liquidationCall", "swapCollateral",
        "repayWithCollateral", "flashLiquidation", "stake",
        "stakeWithPermit", "redeem", "claimRewards", "cooldown",
        "migrateLendToAave", "mint", "claimIncentives"}

(***************************************************************************)
(* asset is the reserve (fromAsset, debtReserve, the staked token); via    *)
(* the aToken or debt token the caller names; to the second asset of a     *)
(* swap; least the second amount of a swap; whole one of liquidateAll,     *)
(* swapAll and repayAllDebt; callData whether the swap's selector is one   *)
(* that augustusFromAmountOffsetFromCalldata knows.                        *)
(***************************************************************************)
Request == [op : Ops, asset : Tokens \cup {ETH}, via : Tokens \cup {None},
            to : Tokens \cup {ETH}, amount : Nat \cup {All}, least : Nat,
            whole : BOOLEAN, flash : BOOLEAN, callData : BOOLEAN]

Positive == Nat \ {0}

ASSUME RequestAssumption ==
  /\ ETH \notin Tokens /\ None \notin Tokens /\ ETH # None
  /\ SNX \in Tokens \cup {None}
  /\ Scale \in [Tokens -> Positive] /\ EthScale \in Positive
  /\ Frac \in Positive
  /\ SuperBig \in Positive /\ MaxUint \in Positive /\ SuperBig < MaxUint
  /\ {"LENDING_POOL", "WETH_GATEWAY", "SWAP_COLLATERAL_ADAPTER",
      "REPAY_WITH_COLLATERAL_ADAPTER", "TOKEN_STAKING",
      "LEND_TO_AAVE_MIGRATOR"} \subseteq Contracts
  /\ Configured \subseteq Contracts
  /\ Requests \subseteq Request /\ Requests # {}

(***************************************************************************)
(* An aToken or debt token has the decimals of its underlying asset, a     *)
(* convention of the Aave contracts that the library relies on when it     *)
(* checks an aToken's allowance against an amount of the underlying.  The  *)
(* swaps name an aToken, and STAKED_TOKEN(), REWARD_TOKEN() and LEND()     *)
(* return a token contract, never the ETH mock address.                    *)
(***************************************************************************)
ScaleIn(scales, token) == IF token = ETH THEN EthScale ELSE scales[token]

ASSUME AaveTokenAssumption ==
  \A q \in Requests : /\ q.via # None => Scale[q.via] = ScaleIn(Scale, q.asset)
                      /\ q.op \in {"swapCollateral", "repayWithCollateral"}
                            => q.via # None
                      /\ q.op \in {"stake", "stakeWithPermit", "redeem",
                                  "claimRewards", "migrateLendToAave"}
                            => q.asset \in Tokens

-----------------------------------------------------------------------------
(* Conversions. *)

\* BigNumber.toFixed(0): the quotient rounded to the nearest, halves up.
HalfUp(n, m) == (2 * n + m) \div (2 * m)

ParseNumber(amount, scale) == HalfUp(amount * scale, Frac)

\* The amount in the call data of the methods that accept '-1'.
Converted(amount, scale) ==
  IF amount = All THEN MaxUint ELSE ParseNumber(amount, scale)

\* Mutant: '-1' is compared like any amount.
NeededOfAny(amount, scale) == ParseNumber(amount, scale)

\* What isApproved compares the allowance with.
Needed(amount, scale) ==
  IF amount = All THEN SuperBig ELSE ParseNumber(amount, scale)

\* Number(amount) plus SURPLUS percent of it, converted.
WithSurplus(amount, scale) == HalfUp(amount * 10005 * scale, 10000 * Frac)

-----------------------------------------------------------------------------
(* The checks made before the first await. *)

PositiveAmount(q) == q.amount > 0
PositiveOrAll(q) == q.amount > 0 \/ q.amount = All

\* LPValidator and its siblings, StakingValidator, LTAMigratorValidator,
\* FaucetValidator, IncentivesValidator: the addresses each requires.
Required(op) ==
  CASE op \in {"deposit", "withdraw", "borrow", "repay", "swapBorrowRateMode",
               "setUsageAsCollateral", "liquidationCall"} -> {"LENDING_POOL"}
    [] op = "swapCollateral" -> {"LENDING_POOL", "SWAP_COLLATERAL_ADAPTER"}
    [] op = "repayWithCollateral" ->
         {"LENDING_POOL", "REPAY_WITH_COLLATERAL_ADAPTER"}
    [] op = "flashLiquidation" ->
         {"LENDING_POOL", "FLASH_LIQUIDATION_ADAPTER"}
    [] op \in {"stake", "stakeWithPermit", "redeem", "claimRewards",
               "cooldown"} -> {"TOKEN_STAKING", "STAKING_REWARD_TOKEN"}
    [] op = "migrateLendToAave" -> {"LEND_TO_AAVE_MIGRATOR"}
    [] op = "mint" -> {"FAUCET"}
    [] op = "claimIncentives" ->
         {"INCENTIVES_CONTROLLER", "INCENTIVES_CONTROLLER_REWARD_TOKEN"}

\* amountGtThan0Validator and amountGtThan0OrMinus1 on the decorated
\* parameters.  redeem and claimRewards are decorated, but StakingValidator
\* never looks at their decoration; the other methods take no amount.
AmountsValid(q) ==
  CASE q.op \in {"deposit", "borrow", "liquidationCall", "flashLiquidation",
                 "stake", "stakeWithPermit", "migrateLendToAave"}
         -> PositiveAmount(q)
    [] q.op \in {"withdraw", "repay"} -> PositiveOrAll(q)
    [] q.op \in {"swapCollateral", "repayWithCollateral"}
         -> PositiveAmount(q) /\ q.least > 0
    [] OTHER -> TRUE

\* deposit, withdraw, borrow and repay of ETH are handed to the WETHGateway.
GoesToGateway(q) ==
  q.asset = ETH /\ q.op \in {"deposit", "withdraw", "borrow", "repay"}

\* WETHValidator: of the gateway's methods only withdrawETH accepts '-1'.
GatewayEntry(q) ==
  CASE "WETH_GATEWAY" \notin Configured -> "empty"
    [] "WETH_GATEWAY" \in Configured /\ q.op # "withdraw"
         /\ ~PositiveAmount(q) -> "throw"
    [] OTHER -> "go"

(***************************************************************************)
(* "empty": the method returns [] at once, because an address it needs is  *)
(* not configured; "throw": it refuses the request; "go": it runs.         *)
(***************************************************************************)
Entry(q) ==
  IF ~(Required(q.op) \subseteq Configured) THEN "empty"
  ELSE IF ~AmountsValid(q) THEN "throw"
  ELSE IF GoesToGateway(q) /\ q.op \in {"withdraw", "borrow"} /\ q.via = None
    THEN "throw"
  ELSE IF GoesToGateway(q) THEN GatewayEntry(q)
  ELSE IF q.op = "stakeWithPermit" /\ "STAKING_HELPER" \notin Configured
    THEN "empty"
  ELSE "go"

-----------------------------------------------------------------------------
(* Plans: what a method that runs awaits, checks and builds.               *)
(*   reads    the awaited reads, in order                                  *)
(*   token,   the allowance it inspects, None if it inspects none          *)
(*   spender                                                               *)
(*   need     the amount compared with that allowance                      *)
(*   strict   the allowance must exceed need                               *)
(*   amount   the amount in the call data of the action                    *)
(*   completes  FALSE when the code after the last await throws            *)
(* scales is the erc20Service's tokenDecimals cache at that moment.        *)

Read(kind, token, spender) == [kind |-> kind, token |-> token,
                               spender |-> spender]
DecimalsOf(token) == Read("decimals", token, None)
AllowanceOf(token, spender) == Read("allowance", token, spender)
BorrowAllowanceOf(token, spender) == Read("borrowAllowance", token, spender)
TransferableSnx == Read("transferable", None, None)
TokenData(token) == Read("tokenData", token, None)
TokenLookup == Read("tokenLookup", None, None)   \* STAKED_TOKEN(), LEND()...

Unchecked(reads, amount) ==
  [reads |-> reads, token |-> None, spender |-> None, need |-> 0,
   strict |-> FALSE, amount |-> amount, completes |-> TRUE]

Checked(reads, token, spender, need, amount) ==
  [reads |-> reads, token |-> token, spender |-> spender, need |-> need,
   strict |-> FALSE, amount |-> amount, completes |-> TRUE]

\* The action alone: swapBorrowRateMode, setUsageAsCollateral, cooldown, mint
\* and claimRewards of the incentives.
ActionOnly(amount) == Unchecked(<< >>, amount)

DepositETH(q) == ActionOnly(ParseNumber(q.amount, EthScale))
RepayETH(q) == ActionOnly(ParseNumber(q.amount, EthScale))

Deposit(q, scales) ==
  IF q.asset = ETH THEN DepositETH(q)
  ELSE LET units == ParseNumber(q.amount, scales[q.asset]) IN
       Checked(IF q.asset = SNX
               THEN << DecimalsOf(q.asset), TransferableSnx,
                       DecimalsOf(q.asset), AllowanceOf(q.asset, "LENDING_POOL") >>
               ELSE << DecimalsOf(q.asset),
                       DecimalsOf(q.asset), AllowanceOf(q.asset, "LENDING_POOL") >>,
               q.asset, "LENDING_POOL", units, units)

WithdrawETH(q, scales) ==
  Checked(<< DecimalsOf(q.via), AllowanceOf(q.via, "WETH_GATEWAY") >>,
          q.via, "WETH_GATEWAY", Needed(q.amount, scales[q.via]),
          Converted(q.amount, EthScale))

Withdraw(q, scales) ==
  IF q.asset = ETH THEN WithdrawETH(q, scales)
  ELSE Unchecked(<< DecimalsOf(q.asset) >>, Converted(q.amount, scales[q.asset]))

\* isDelegationApproved wants the delegated allowance to exceed the amount.
BorrowETH(q, scales) ==
  [Checked(<< DecimalsOf(q.via), BorrowAllowanceOf(q.via, "WETH_GATEWAY") >>,
           q.via, "WETH_GATEWAY", ParseNumber(q.amount, scales[q.via]),
           ParseNumber(q.amount, EthScale))
   EXCEPT !.strict = TRUE]

Borrow(q, scales) ==
  IF q.asset = ETH THEN BorrowETH(q, scales)
  ELSE Unchecked(<< DecimalsOf(q.asset) >>,
                 ParseNumber(q.amount, scales[q.asset]))

\* '-1' skips the Synthetix check.
Repay(q, scales) ==
  IF q.asset = ETH THEN RepayETH(q)
  ELSE Checked(IF q.asset = SNX /\ q.amount # All
               THEN << DecimalsOf(q.asset), TransferableSnx,
                       DecimalsOf(q.asset), AllowanceOf(q.asset, "LENDING_POOL") >>
               ELSE << DecimalsOf(q.asset),
                       DecimalsOf(q.asset), AllowanceOf(q.asset, "LENDING_POOL") >>,
               q.asset, "LENDING_POOL",
               Needed(q.amount, scales[q.asset]),
               Converted(q.amount, scales[q.asset]))

\* The allowance is compared with purchaseAmount, also when liquidateAll puts
\* MAX_UINT_AMOUNT in the call data.
LiquidationCall(q, scales) ==
  LET units == ParseNumber(q.amount, ScaleIn(scales, q.asset))
      calldata == IF q.whole THEN MaxUint ELSE units
  IN  IF q.asset = ETH THEN ActionOnly(calldata)
      ELSE Checked(<< DecimalsOf(q.asset), AllowanceOf(q.asset, "LENDING_POOL"),
                      TokenData(q.asset) >>,
                   q.asset, "LENDING_POOL", units, calldata)

\* The adapters' own validators see the converted amounts.
SwapAndDeposit(units, least) == units > 0 /\ least > 0
SwapAndRepay(units, debt) == units > 0 /\ debt > 0

\* It throws for call data it does not know; swapCollateral asks for it before
\* either kind of transaction, when everything is swapped.
augustusFromAmountOffsetFromCalldata(q) == q.callData

\* A flash loan of fromAsset, or swapAndDeposit on the adapter.
SwapCollateral(q, scales) ==
  LET units == ParseNumber(q.amount, ScaleIn(scales, q.asset))
      least == ParseNumber(q.least, ScaleIn(scales, q.to))
  IN  [Checked(<< DecimalsOf(q.via), AllowanceOf(q.via, "SWAP_COLLATERAL_ADAPTER"),
                  DecimalsOf(q.asset), DecimalsOf(q.to) >>,
               q.via, "SWAP_COLLATERAL_ADAPTER",
               ParseNumber(q.amount, scales[q.via]),
               IF q.flash /\ q.whole
               THEN WithSurplus(q.amount, ScaleIn(scales, q.asset)) ELSE units)
       EXCEPT !.completes =
         /\ q.whole => augustusFromAmountOffsetFromCalldata(q)
         /\ ~q.flash => SwapAndDeposit(units, least)]

\* The collateral amount is never the one with the surplus: repayAllDebt adds
\* it to the debt.
RepayWithCollateral(q, scales) ==
  LET units == ParseNumber(q.amount, ScaleIn(scales, q.asset))
      debt == IF q.whole THEN WithSurplus(q.least, ScaleIn(scales, q.to))
                         ELSE ParseNumber(q.least, ScaleIn(scales, q.to))
  IN  [Checked(<< DecimalsOf(q.via),
                  AllowanceOf(q.via, "REPAY_WITH_COLLATERAL_ADAPTER"),
                  DecimalsOf(q.asset), DecimalsOf(q.to) >>,
               q.via, "REPAY_WITH_COLLATERAL_ADAPTER",
               ParseNumber(q.amount, scales[q.via]), units)
       EXCEPT !.completes = ~q.flash => SwapAndRepay(units, debt)]

\* amount is the flash loan; with liquidateAll addSurplus makes it
\* amount + amount^2 / 100, converted.
FlashLiquidation(q, scales) ==
  LET scale == ScaleIn(scales, q.asset) IN
  Unchecked(<< DecimalsOf(q.asset) >>,
            IF q.whole
            THEN HalfUp((100 * Frac * q.amount + q.amount * q.amount) * scale,
                        100 * Frac * Frac)
            ELSE ParseNumber(q.amount, scale))

Stake(q, scales) ==
  LET units == ParseNumber(q.amount, ScaleIn(scales, q.asset)) IN
  Checked(<< TokenLookup, DecimalsOf(q.asset), DecimalsOf(q.asset),
             AllowanceOf(q.asset, "TOKEN_STAKING") >>,
          q.asset, "TOKEN_STAKING", units, units)

StakeWithPermit(q, scales) ==
  Unchecked(<< TokenLookup, DecimalsOf(q.asset) >>,
            ParseNumber(q.amount, ScaleIn(scales, q.asset)))

\* redeem, and claimRewards of the staking contract.
Redeem(q, scales) ==
  IF q.amount = All THEN ActionOnly(MaxUint)
  ELSE Unchecked(<< TokenLookup, DecimalsOf(q.asset) >>,
                 ParseNumber(q.amount, ScaleIn(scales, q.asset)))

MigrateLendToAave(q, scales) ==
  LET units == ParseNumber(q.amount, ScaleIn(scales, q.asset)) IN
  Checked(<< TokenLookup, DecimalsOf(q.asset),
             AllowanceOf(q.asset, "LEND_TO_AAVE_MIGRATOR"), DecimalsOf(q.asset) >>,
          q.asset, "LEND_TO_AAVE_MIGRATOR", units, units)

Plan(q, scales) ==
  CASE q.op = "deposit" -> Deposit(q, scales)
    [] q.op = "withdraw" -> Withdraw(q, scales)
    [] q.op = "borrow" -> Borrow(q, scales)
    [] q.op = "repay" -> Repay(q, scales)
    [] q.op = "liquidationCall" -> LiquidationCall(q, scales)
    [] q.op = "swapCollateral" -> SwapCollateral(q, scales)
    [] q.op = "repayWithCollateral" -> RepayWithCollateral(q, scales)
    [] q.op = "flashLiquidation" -> FlashLiquidation(q, scales)
    [] q.op = "stake" -> Stake(q, scales)
    [] q.op = "stakeWithPermit" -> StakeWithPermit(q, scales)
    [] q.op \in {"redeem", "claimRewards"} -> Redeem(q, scales)
    [] q.op = "migrateLendToAave" -> MigrateLendToAave(q, scales)
    [] OTHER -> ActionOnly(0)

=============================================================================
