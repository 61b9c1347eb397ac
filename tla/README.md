# A TLA+ model of aave-js

aave-js is the TypeScript library an application uses to talk to the Aave
protocol. It has two halves. The *transaction builder* (`src/src/tx-builder`)
turns a request ("deposit 100 USDC") into a list of Ethereum transactions, after
reading what it needs from a JSON-RPC provider. The *computations*
(`src/src/v1`, `src/src/v2`, `src/src/helpers`) turn the data of the protocol's
subgraph into the balances, debts and health factor a user sees. Nothing is
persisted; what is hard about the library is that its calls interleave at every
`await`, over one cache, one chain and two subscriptions that move meanwhile.

Paths below are relative to the repository; `tx-builder/` stands for
`src/src/tx-builder/`.

## 1. Inventory

| Component | State | Operations | What is hard | What makes it correct |
|---|---|---|---|---|
| Lending pool service, WETH gateway, the swap, repay and flash-liquidation adapters (`services/v2/LendingPool.ts`, `WETHGateway.ts`, `*Adapter*.ts`) | none of their own | deposit, withdraw, borrow, repay, swapBorrowRateMode, setUsageAsCollateral, liquidationCall, swapCollateral, repayWithCollateral, flashLiquidation; the gateway's four methods for ETH | up to four awaits per call; amounts converted with the decimals of several tokens; `'-1'`; early returns | an approval is in the list exactly when it is due, the list it heads executes, all or nothing is returned |
| Staking, LEND migration, faucet, incentives | none | stake, stakeWithPermit, signStaking, redeem, claimRewards, cooldown, migrateLendToAave, mint, claimRewards | the same; parameter checks that differ from method to method | the same; no transaction that does nothing |
| ERC20 service (`services/ERC20.ts`) | `tokenDecimals`, shared by all calls of a builder | approve, isApproved, decimalsOf, getTokenData | filled by one call across the awaits of another; zero decimals are falsy | no call uses an entry that is not the token's |
| Debt-token and Synthetix services | none | approveDelegation, isDelegationApproved; synthetixValidation | `>` where ERC20 has `>=`; a check between two decimals reads | locked SNX is never spent |
| Validators (`validators/*.ts`) | none | parameter decorators and one validator per service | the decorations and the validator that reads them are far apart | documented requests are accepted, void ones are not |
| `tx()` and `gas()` (`services/BaseService.ts`, `utils/gasStation.ts`) | the list they close over | generateTxCallback, generateTxPriceEstimation | run any time after the list was built, on a list the application may shift | a list works if nobody else moved the allowance; `null` never stands for a missing approval |
| Governance proposals (`services/v2/AaveGovernanceV2.ts`, `utils/ipfs.ts`) | `MEMORIZE`, a cache of documents | getProposals, getProposal, getVotingPowerAt; create, cancel, queue, execute, submitVote, signVoting, submitVoteBySignature; plain reads | concurrent fetches of one document, malformed documents, timeouts; states that arrive as positions in an enum; a page and a power that age while the user decides | what was shown stays shown; a slow gateway does not cost the page; what a page offers works; a vote counts with the power that was shown |
| Governance delegation (`services/v2/GovernanceDelegationTokenService.ts`) | none; the contract's nonces and ENS | delegate, delegateByType, prepare…Signature, delegate…BySig, getNonce, plain reads | nonce and name are read twice, with a signature by hand in between | powers go where the user said, or the transaction fails visibly |
| Ray and pool mathematics (`helpers/*.ts`) | none | rayMul, rayDiv, rayPow, binomialApproximatedRayPow, interest, balances, health factor, borrowing power | rounding in two grids, integer division, cut series | no negative or shrinking balance; the same as the contracts, or nearly |
| v2 computations (`v2/computations-and-formatting.ts`) | none; two snapshots and a clock of the application | computeUserReserveData, computeRawUserSummaryData, formatUserSummaryData, formatReserves, calculateRewards | snapshots out of step, a slow clock, the end of an emission | what is available can be borrowed in health; no negative rewards; yields of a list that agree with the summary; errors only when data are missing |
| v1 computations (`v1/computations-and-formatting.ts`) | none; the same snapshots and clock | computeRawUserSummaryData, formatReserves with averages over 30 days, calculateInterestRates | interest of a deposit paid to somebody else; a debt of one of two modes; a fee that every loan adds; averages over no time at all | redirected interest is shown to its receiver and nobody else; borrowing what is offered, or withdrawing it from a reserve whose threshold is not above the average, keeps the loan healthy, fees included |
| Builder facades (`txBuilder.ts`, `v2.ts`, configuration) | memoized services per market | construction | none: synchronous | one ERC20 service for all |
| Generated contract bindings, Solidity interfaces | - | - | no logic | - |

**How they interact.** Services call the ERC20 service (and the gateway, the
adapters and the Synthetix check) inside their methods; every read goes to the
provider and is awaited. What a method returns is a list of transactions with
two callbacks each: `tx()`, which estimates gas and so simulates the transaction,
and `gas()`, which looks at the shared list first. The application signs and
sends; the chain changes, also by other hands. The computations are pure; the
application feeds them from independent subscriptions.

## 2. Modules

| Module | Models | Builds on |
|---|---|---|
| `TxRequests` | The synchronous part of each method: validators and early returns (`Entry`), and a *plan* of what it awaits, compares and builds (`Plan`, one operator per method). | - |
| `TxBuilder` | Calls in flight over one decimals cache, one provider, and allowances that others move. | `TxRequests`, `AtomicBuild` |
| `AtomicBuild` | What a call promises: it judges the allowance once and returns all that follows, or nothing. | - |
| `TxWallet` | `tx()`, `gas()`, signing, mining, and starting over. | `TxBuilder`, `AtomicBuild` |
| `ProposalMetadata` | Pages of proposals, their documents, the gateway. | - |
| `Governance` | What a user does about a proposal of a page, while proposals move on. | `ProposalMetadata` |
| `DelegationBySig` | Delegations by signature and by transaction, the token's nonces, names. | - |
| `RayMath`, `PoolMath` | Fixed-point operators; interest, balances, health factor, average rates. | - |
| `UserSummary` | The portfolio page and the list of reserves of v2, over two subscriptions and a clock. | `PoolMath` |
| `V1Summary` | The pages of v1, over the contracts of the first protocol. | `PoolMath` |
| `MC*` | Instances for TLC. | the module named |
| `*_proofs` | Theorems, checked by TLAPS. | the module named |

### TxRequests and TxBuilder

`Entry(q)` is the code before the first await: the validator returns `[]` when an
address is not configured ("empty"), throws for a bad amount ("throw"), or lets
the method run ("go"). `Plan(q, scales)` is the code after it, for the cache
`scales` holds: the awaited reads in order, the allowance that is inspected
(`token`, `spender`), the amount compared (`need`, with `strict` for the
delegation's `>`), the amount in the call data, and whether the code after the
last await completes. It is evaluated at *every* step with the cache as it is
then, so a plan that used an entry too early would compute with a scale of 0.

A step of a call is the code from the resumption of one await to the next, which
JavaScript runs without interruption:

| Action | Code |
|---|---|
| `Begin` | the call, up to its first await |
| `Answer`, `Reject` | the provider evaluates the read, or rejects it |
| `ResumeCached`, `ResumeDecimals` | `decimalsOf` answers from the cache, or stores what was read |
| `ResumeAllowance` | `isApproved`, `isDelegationApproved` compare |
| `ResumeTransferable` | the Synthetix check throws or goes on |
| `ResumeLookup` | a token's data, or the address of the staked token |
| `NextCall` | the application makes another call |
| `AllowanceMoves`, `TransferableMoves` | the chain, by others |

`moved[c]` is a history variable: what changed on chain after call `c` read it.
Properties about a returned list except a list whose allowance has moved, because
no client can promise more.

Amounts are in `1/Frac` of a token unit and `Scale[t]` is 10 to the token's
decimals. With `Frac = 10`, scales 10 and 1, every amount of a request is exact in
one token and rounded (half up) in another, which includes rounding to zero.
`MaxUint = 100` and `SuperBig = 50` keep the order of the real constants: an
allowance can be below all amounts, at one of them, or at the level that
satisfies `'-1'`.

### TxWallet

Adds, per call, what the application does with the list: `CallTx`/`EstimateTx`
are the two halves of `generateTxCallback`, `CallGas`/`GasPrice`/`GasEstimate`
the three of `generateTxPriceEstimation` (which resolves to `null` for every
failure), `MineApproval`/`MineAction` the chain, `ShiftList` an application that
takes a mined approval out of the list, `Fault` a rejection by the provider and
`Rebuild` starting over. `Outstanding` is what `'-1'` turns out to move.

`AsSent` is `AtomicBuild` once more, seen through the whole application:
`returnedBar` is what a call returned, which stays so when the mined approval is
taken out of the list, and everything that is mined is a change of allowances.

### ProposalMetadata

`memorize` is `MEMORIZE` of `utils/ipfs.ts`. `Answer` maps all proposals of the
page in one step, so the cache is looked at before any fetch comes back;
`Fetched` stores a well-formed document, `FetchFails` is a timeout, an error or a
document that lacks a field, and puts the stand-in. `shown` and `public` are
history: the documents returned to somebody, and those returned before the call
began.

### Governance

`status` is the state of each proposal in the contract, `states` what each page has
read of it: `GovAnswer` extends `Answer` by `parseState`, the lookup of the
contract's number in the library's enum. The methods of the service await nothing:
`cancel`, `queue`, `execute`, `submitVote`, `submitVoteBySignature` and `create`
put a `task` in its stage "built" (or "thrown", by the validator of the id), for a
state the page has *shown*, which the proposal may have left since.
`PowerArrives` is `getVotingPowerAt` with, for a signed vote, `signVoting`: a power
asked for before the proposal's startBlock is the latest one. The arguments of
`signVoting` (`asked`) are its own: the application may ask the user to sign for
another proposal or support than `submitVoteBySignature` then sends. `Estimate` is `tx()`,
`Mine` the contract, `MoveOn` the passage of time and other people. A message
that does not say what is sent is recovered as some stranger's, and counts for
nothing although it is mined; `SignedVotesCount` says that this happens exactly when
the user was asked for another vote. Two bounds: the page is not reloaded while the user
acts, and nobody else creates a proposal while he does.

### DelegationBySig

The path of one delegation: `GetNonce`, `PrepareDelegateSignature` (which
resolves the name), `Sign`, then `ReadNonce` and `Resolve` of `delegateBySig`, the
estimate in `CallTx`, and `Mine`. When the content of the transaction differs from
what was signed, `ecrecover` yields some other address; the token contract then
refuses it unless its nonce is that stranger's, zero. This is the outcome
"ineffective": mined, and nothing done for the user.

### RayMath, PoolMath, UserSummary

`BigNumberZD` has no decimal places and rounds towards zero: `DivDown`. A plain
BigNumber keeps 20 decimals and rounds halves up: `Quotient`, in units of `1/Dp`.
In bignumber.js the constructor of the first operand decides.

`market` and `account` are the chain, moved by `List`, `Touch` (others) and `Use`
(the user); `pool` and `position` are what the application holds, from
`FetchPool` and `FetchPosition` in any order. `Show` is
`formatUserSummaryData` at the application's time, `now - lag`. `ahead` is
history: the position is the newer snapshot. A page fails (`Thrown`) when the
position has a reserve the pool data do not have.

`ShowReserves` is `formatReserves` of v2 without the entry of 30 days ago (that
part is modelled in `V1Summary`, whose function it shares). `given` says whether a
timestamp is passed; a timestamp of 0 counts as none, because the code tests it for
truth, and then the reserve's own update date is used. The annual yields compound
every second with `rayPow`, the binary power of `helpers/ray-math.ts`, as a
recursive function. `Roundings` is how far this may fall below the cut binomial
series by which debts grow (`YieldCoversDebtGrowth`), and `BelowLastDecimal` when a
yield of incentives is shown as zero although there is one (`NoYieldNoRewards`). A list is closed before anything else happens; nothing depends
on it, so that this only saves states.

### V1Summary

`market` and `account` are the contracts of the first protocol: deposits earn for
their owner or, after `Redirect`, for somebody else, whose `redirectedBalance`
grows by the deposit; every action settles the accounts it touches
(`SettledWith`), and every use of a reserve sets new totals and the rates that its
strategy gives for them. `Borrow` opens or changes a loan of one of two modes and
adds its fee; `Repay` repays all of it. `Show`, `ShowReserves` and `Simulate` are
`formatUserSummaryData`, `formatReserves` (with the entry of date 0 as the one of
30 days ago) and `calculateInterestRates`. Balances and debts of the library are
written apart from those of the contracts (`Interest`, `Debt`), so that the
properties compare two computations. `summaryOf` is the part of the page that follows from balances, debts and fees;
`AfterWithdrawing` applies it to the balances less a withdrawal, so that
`WithdrawalKeepsHealth` is about the thresholds averaged anew. Sums are integers
because a value in ETH has no decimals; what is available is counted in `1/FeeDivisor`.

## 3. Runs

Distinct states as of this version. All passing runs finish in about three minutes or less
on two cores.

| Run | States | What it asks | Result |
|---|---|---|---|
| `builder_operations` | 729,120 | every operation on a full market, one call after another over a cache that stays: `TypeOK`, `ApprovalIffShort`, `CoveredOrApproved`, `LockedSnxRefused` | holds |
| `builder_concurrent` | 634,536 | two calls interleaved at every await: `ApprovalIffShort`, and `BuildsAtomically`, the refinement of `AtomicBuild` | holds |
| `builder_bare` | 37,584 | a market that lacks gateway, adapters and helper: under fairness `CallsEnd` | holds |
| `builder_repayAll` | - | `RepayEverythingAccepted` | **violated** |
| `builder_redeemNothing` | - | `RedeemsSomething` | **violated** |
| `wallet_pool` | 2,499,844 | two lists over one allowance, quoted, sent and mined: `WalletTypeOK`, `UndisturbedListsExecute`, `OwnApprovalSuffices`, `UnforcedQuotesAnswer`, `GuessesOnlyWhereDue` | holds |
| `wallet_fair` | 226,499 | two allowances, one a credit delegation, with everything the application does: `SendsAtomically`, the refinement of `AtomicBuild` by calls whose lists are sent and mined, and under fairness `RequestsGetDone` | holds |
| `governance_pages` | 609,387 | two calls, two proposals of which one has a malformed document, and a user who acts: `GovTypeOK`, `ShownStaysShown`, `OfferedActionsWork`, `VotesCountAsShown`, `SignedVotesCount`, `PagesArrive` | holds |
| `delegation_signed` | 229,170 | two delegations at a time: `TypeOK`, `UndisturbedSignaturesWork`, `NoSilentMismatch`, `DelegatesAsAsked`, `DelegationsGetDone` | holds |
| `summary_pages` | 1,042,068 | a page and a list over two reserves, four dates, three transactions: `TypeOK`, `ShownNearContract`, `AvailableIsHealthy`, `RewardsNotNegative`, `PageWhenPoolFresh`, `NoYieldNoRewards`, `YieldCoversDebtGrowth`, `PagesGrow` | holds |
| `v1_pages` | 1,268,626 | two users and two reserves of the first protocol: `TypeOK`, `InterestShownOnce`, `AvailableKeepsHealth`, `WithdrawalKeepsHealth`, `ShownDebts`, `AverageExplainsIndex`, `RedirectingMovesNothing` | holds |
| `summary_stableRate` | - | `StableDebtAtUsersRate` | **violated** |

### Bounds, and why they are enough

- *Calls in flight* (`Calls`, 1 or 2): calls meet only in the decimals cache and
  in the chain. What one call sees of all others together is "an entry got
  filled" or "an allowance moved", which a second call produces; finished calls
  are made again, so histories are unbounded in length.
- *Allowances* (`AllowanceLevels`): {0, 3, 50} are nothing, exactly the amount of
  the requests (where `>` and `>=` differ) and `SuperBig`; the concurrent run has
  {2, 4}, below and above. Of the transferable SNX, of which the requests spend 3, the
  levels are {2, 3}: a checked call is refused, returns at the boundary, or returns
  although the level fell after it was read.
- *`MaxOutside`* (1; 2 for delegations, where a spent nonce and a renamed
  account are different things): changes by others. The properties except what was
  disturbed, so more of them would add disturbed calls only. In the liveness runs
  the bound says that the outside world becomes quiet at last, which convergence
  needs.
- *`MaxFaults`* (1): rejections by the provider after which the application
  starts over. `TxBuilder` by itself rejects without a bound.
- *Time* (`MaxTime` 3) *and transactions* (`MaxTransactions` 3): dates before,
  at and after the emission's end (2), and exponents of the binomial series up to
  3, all its branches; a reserve can be listed, used by the user and touched, or
  both reserves used. Rays have two decimals and the ratio to wads is 10, so that
  every rounding is visible.
- *Governance*: two calls and two proposals, one whose document lacks a field; one
  of them (`Moving`) goes through the states. A power (`Powers` {1, 2}) is the one
  of the startBlock or another. The user acts on one proposal at a time: the
  contract knows him by his votes only, which `voted` keeps.
- *The first protocol*: dates 0 to 2 and three transactions let a user deposit,
  redirect and cease to, or borrow and be shown the debt after others have moved
  the rates. One reserve is used, below and above its optimum, the other is
  collateral. `FeeDivisor = 4` makes fees as large as the roundings they compete
  with. Nobody receives interest who redirects his own: chains of redirections
  are left out.
- *Symmetry* of the two calls is used in `wallet_pool` only, where every
  property is a safety property and treats the calls alike.
- *Deadlock* is checked except in the wallet and delegation runs: there the
  system stops when every list is executed and every delegation made.

### Fairness

Liveness is asked under weak fairness of: the provider, which answers or rejects
(ethers' providers give up after a timeout, `Answer(c) \/ Reject(c)`); the event
loop, which runs continuations (`Resume`, `Return`); the gateway or the two-second
timeout of `utils/ipfs.ts`; in `wallet_fair` and `delegation_signed` also the chain,
which mines what is signed, and a user who wants the action done: who calls
`tx()`, signs, and starts over after a failure. Nobody is bound to
vote, cancel or create in `governance_pages`. Nobody is assumed to ask for
quotes, to shift lists, to make further calls or to change allowances. A provider
that rejects everything is allowed by the fairness of `TxBuilder`; `wallet_fair`
bounds rejections by `MaxFaults`.

## 4. Findings

1. **`repay` of everything does not work for ETH** (`builder_repayAll`).
   `README.md:289` documents `'-1'` "if the user wants to repay everything";
   `lendingPool.repay` hands the ETH reserve to `repayETH`, whose `amount` is
   `@IsPositiveAmount` (`WETHGateway.ts:231`), and throws.
2. **`redeem` and `claimRewards` accept zero** (`builder_redeemNothing`). Their
   amounts are decorated `@IsPositiveOrMinusOneAmount`, but `StakingValidator`
   (`methodValidators.ts:249`) runs only the check of the other decoration.
3. **The stable debt shown grows at the wrong rate** (`summary_stableRate`).
   `computeUserReserveData` passes the *reserve's* current `stableBorrowRate`
   (`v2/computations-and-formatting.ts:120`) for the parameter that
   `helpers/pool-math.ts:105` calls `_userStableRate`; the comment above the
   function lists the field under the user's reserve.

Met on the way, without a run:

- `liquidateAll` and `swapAll` put a larger amount in the call data than the one the
  allowance was compared with (`LendingPool.ts:547`, `:664`).
- `calculateRewards` divides by the token's decimals and so does the conversion to
  ETH that is applied to its result (`v2/computations-and-formatting.ts:166`).
- The rewards of deposits are shared over a supply that is estimated at the page's
  time (`v2/…:153`): with a reserve that is not updated they shrink once the
  emission has ended. `PagesGrow` excepts them.
- `calculateInterestRates` of v1 compares a plain rate of use with an optimum that
  the tests' data give in rays (`v1/…:639`), so that the optimum is never exceeded.
  `Simulate` models it as it is; only the type of its result is checked.
- `README.md` shows `v2.formatReserves` with the entries of 30 days ago as second
  argument, where the code has the current timestamp.
- A clock behind the last update can show a receiver of redirected interest a balance
  of minus one unit (`v1/…:183`), which `TypeOK` of `V1Summary` admits.
- `maxAmountToWithdrawInEth` of v1 (`v1/…:397`) is one amount for all reserves, at the
  average threshold. A withdrawal from a reserve whose own threshold is above the
  average lowers the average. With 9 ETH of DAI (threshold 60 %), 17 ETH of WETH (80 %),
  7 ETH borrowed and 3 ETH of fees the average is 73 % and 12.3 ETH are offered;
  without 12 of the WETH it is 67 % of 14 ETH, and the health factor 0.938. No document promises otherwise;
  `WithdrawalKeepsHealth` leaves such reserves out.
- `delegateBySig` has one parameter for the signer and the sender
  (`GovernanceDelegationTokenService.ts:136`): it cannot be used to relay.

## 5. Proofs

TLAPS checks these for *all* values of the constants that satisfy the named
assumptions: any number of calls, tokens with any decimals, any requests, levels
and bounds.

| Theorem | Says |
|---|---|
| `TxBuilder_proofs!TypeCorrect` | `Spec => []TypeOK` |
| `TxBuilder_proofs!ApprovalsAreDue` | `Spec => []ApprovalIffShort` |
| `TxBuilder_proofs!ListsAreCovered` | `Spec => []CoveredOrApproved` |
| `TxBuilder_proofs!LockedSnxStays` | `Spec => []LockedSnxRefused` |
| `TxAtomicity_proofs!CallsAreAtomic` | `Spec => Atomic!Spec` |
| `Governance_proofs!MetadataTypeCorrect` | `Spec => []TypeOK` |
| `Governance_proofs!ShownDocumentsStay` | `Spec => []ShownStaysShown` |
| `Governance_proofs!GovernanceTypeCorrect` | `GovSpec => []GovTypeOK` |
| `Governance_proofs!DocumentsStayShown` | `GovSpec => []ShownStaysShown` |
| `Governance_proofs!OffersWork` | `GovSpec => []OfferedActionsWork` |
| `Governance_proofs!PowerCountsAsShown` | `GovSpec => []VotesCountAsShown` |
| `Governance_proofs!SignaturesCount` | `GovSpec => []SignedVotesCount` |
| `TxAtomicity_proofs!SentCallsAreAtomic` | `WalletSpec => SendsAtomically`, that is `AsSent!Spec` |
| `DelegationBySig_proofs!DelegationTypeCorrect` | `Spec => []TypeOK` |
| `DelegationBySig_proofs!SignaturesWork` | `Spec => []UndisturbedSignaturesWork` |
| `DelegationBySig_proofs!MismatchesShow` | `Spec => []NoSilentMismatch` |
| `DelegationBySig_proofs!PowersGoAsAsked` | `Spec => DelegatesAsAsked` |
| `TxWallet_proofs!WalletTypeCorrect` | `WalletSpec => []WalletTypeOK` |
| `TxWallet_proofs!ListsExecute` | `WalletSpec => []UndisturbedListsExecute` |
| `TxWallet_proofs!QuotesAnswer` | `WalletSpec => []UnforcedQuotesAnswer` |
| `TxWallet_proofs!GuessesAreDue` | `WalletSpec => []GuessesOnlyWhereDue` |
| `UserSummary_proofs!PagesFailOnlyAhead` | `Spec => []PageWhenPoolFresh` |
| `UserSummary_proofs!PagesOnlyGrow` | `Spec => PagesGrow` |
| `TxWallet_proofs!ApprovalsSuffice` | `WalletSpec => []OwnApprovalSuffices`, if `Affordable` |
| `UserSummary_proofs!TypesKept` | `Spec => []IInv` |
| `UserSummary_proofs!ShownValuesNear` | `Spec => []ShownNearContract`, if `ClockNear` |
| `UserSummary_proofs!BorrowingIsHealthy` | `Spec => []AvailableIsHealthy`, if `ClockNear` |
| `UserSummary_proofs!RewardsAreEarned` | `Spec => [](DepositsCount => RewardsNotNegative)`, if `ClockNear` |
| `UserSummary_proofs!TypeCorrect` | `Spec => [](DepositsCount => TypeOK)`, if `ClockNear` and `Priced` |
| `UserSummary_proofs!YieldsCoverDebts` | `Spec => []YieldCoversDebtGrowth` |
| `UserSummary_proofs!RewardsNeedYield` | `Spec => [](ListCounts => NoYieldNoRewards)`, if `Priced` |
| `V1Summary_proofs!Invariant` | `Spec => []IInv` |
| `V1Summary_proofs!SettlingMovesNothing` | `Spec => RedirectingMovesNothing` |
| `V1Summary_proofs!ShownOnce` | `Spec => []InterestShownOnce` |
| `V1Summary_proofs!DebtsShown` | `Spec => []ShownDebts` |
| `V1Summary_proofs!AveragesExplained` | `Spec => []AverageExplainsIndex` |
| `V1Summary_proofs!WithdrawalsKeepHealth` | `Spec => [](BalancesNotNegative => WithdrawalKeepsHealth)` |
| `V1Summary_proofs!LoansKeepHealth` | `Spec => [](BalancesNotNegative => AvailableKeepsHealth)`, if `ClockNear` |
| `V1Summary_proofs!InOrderIsNotNegative` | `IInv /\ SnapshotsInOrder => BalancesNotNegative` |
| `V1Summary_proofs!TypeCorrect` | `Spec => [](BalancesNotNegative => TypeOK)`, if `ClockNear` |
| `V1Summary_proofs!PagesInOrder` | `Spec => [](SnapshotsInOrder /\ ClockCaughtUp => TypeOK /\ WithdrawalKeepsHealth /\ AvailableKeepsHealth)` |
| `PoolMath_proofs!RayPowAtLeast` | a growth of one or more, to any power, is one or more |
| `PoolMath_proofs!RayPowAboveSeries` | `rayPow(RAY + u + 1, p)` is no less than the first four terms of the binomial series of `(RAY + u)^p` |

**Assumptions.** `RequestAssumption` (requests are well typed, scales and limits
are positive naturals in the order the library's constants have),
`BuilderAssumption` (the levels are amounts), `AaveTokenAssumption` (an aToken or
debt token has the decimals of its underlying asset, as in the protocol, and the
staked token is a token; `ListsAreCovered` needs the first because the allowance is
compared in the aToken's units and spent in the asset's), `WalletAssumption` (bounds,
and that an amount in call data is a uint256), `ProposalAssumption`,
`GovernanceAssumption` and `DelegationAssumption` (types of the constants),
`RayAssumption` and `PoolAssumption` (the precisions are positive, and those that
are halved even), and `SummaryAssumption` (types, and that stable debts in total
date from the opening, because the totals are constant), `V1Assumption` (types of
the first protocol's constants). `SummaryAssumption` and `V1Assumption` say that
the reserves, and in the first protocol the users, are finitely many, because
pages and pools are sums over them. TLC evaluates those of the models' modules in
every run.

Some theorems need more, each for a reason in the code; the hypothesis stands in
the theorem and holds for the constants of the runs, or in their states, except
where it is said.

- `ClockNear`: the application's clock is behind by no more than a year at 100 %
  interest. The library computes interest for a negative time as for a positive
  one, and further behind the factor itself would be negative.
- `Priced`: a listed reserve has a price. `calculateIncentivesAPY` divides by it.
- `DepositsCount`: a deposit that a page shows is at least one unit of the supply
  that `calculateRewards` divides by. `getLinearBalance` can round a supply to
  zero that is not; the code then divides by zero. No state of `summary_pages`
  does.
- `ListCounts`: a list is not older than the reserves in it, and a deposit in one of
  them is at least one unit of scaled supply. With a clock that lags, the supply
  is computed for a negative time and need not grow. The second part is true of
  all states of `summary_pages`, the first of those where the clock has reached
  the fetched pool.
- `Affordable`: MaxUint is worth all that the calls can draw together. An approval
  is for 2^256 - 1 and is drawn from by each action; `OwnApprovalSuffices` is
  false for so many calls that they use it up.
- `BalancesNotNegative`: no balance on the page is negative. One is, by a unit, in
  some states of `v1_pages`: the balance of a receiver of redirected interest is
  a difference of two roundings, and a clock that is behind, or a pool fetched
  before the position, makes the difference negative. `InOrderIsNotNegative` says
  that these are the only reasons: with snapshots and clock in order no balance
  is negative. `PagesInOrder` draws the conclusion: for a page whose pool is no
  older than its position, shown by a clock that has reached the pool
  (`SnapshotsInOrder`) and the position (`ClockCaughtUp`), the three properties hold without any
  assumption on rates or delays, `ClockNear` included. In the run they hold in the
  other states as well; for every value of the constants they do not follow there.

**The builder's invariant.** None of the three safety properties is inductive: they
speak of finished calls. `IInv` is `TypeOK`, `CacheInv` (an entry of the cache is 0
or the token's scale) and, for each call, `CallInv`: how its phase, its position
and its list go together, and four facts about its progress:
`DecimalsKnown` (the decimals whose reads lie behind are in the cache),
`AnswerHolds` (an answer in hand is the chain's unless that moved),
`VerdictHolds` (once the allowance was read, `approved` is its comparison with
what is needed, unless that moved) and `SnxHolds` (the same for Synthetix). The
step from `VerdictHolds` to the property needs that the amount compared at the
moment of comparison, with the cache of that moment, is the final one. This is
what the `…Outlined` lemmas state, one per method: the plan's reads do not depend
on the cache, and each amount depends only on entries whose reads precede its
use. A method that converted an amount before awaiting the decimals would break
its lemma.

**Atomicity.** Under the mapping `verdictBar`, `resultBar`, every step of a call is
a step of `AtomicBuild` or a stutter: `Answer` of an allowance is the judgement,
the last `Resume` the return, everything else is invisible. `OneMoves` says that
a step changes the mapped state of one call only; `ProceedIsAtomic` handles the
continuation all actions share. The proof uses `IInv` in both states.

The same is proved of the whole application, whose steps are more. Each lemma about
a step of a call concludes `Turn(c)`, the step of the abstraction, from `Own(c)`, which
says what holds of that call and the cache. `IInv` has it for every call, `WInv` for
those of whose lists nothing is mined yet, so that the lemmas serve both theorems.
What the application adds is mined (a change of allowances), starts over
(another call), takes an approval out of the list (invisible, because
`returnedBar` remembers it was mined, which `WInv` relates to the list), or does not
touch what is mapped.

**Metadata.** The invariant is `TypeOK` with five conjuncts: documents shown are in
`memorize` (`ShownKept`, `PublicShown`, `DocumentsKept`), a call that waits for a
document or has its stand-in began before that was shown (`OthersNew`), and a call
that has not read has no proposals (`NothingRead`). The entry never leaves the cache;
the mutant that clears it on failure breaks the first.

**Governance.** Nothing about an old page survives a proposal that could return to a
state it has left. `Rank` numbers the states so that every step of the contract
rises; `Old(s, p)` says that a state read of `p` is its own or of lower rank.
`GovInv` adds to the metadata's invariant that all states of pages are old
(`StatesOld`), that a task was chosen for a state that fits it (`ChosenFits`), and
that a vote's power is that of the vote and its message what the user was asked to
sign (`VotesTrue`). A refusal
of a fitting task then implies that the state is lower: the proposal has moved.
`ParsedIsStatus` is where the order of the library's enum enters.

**Delegation.** The invariant follows what is in hand: `NonceHolds`, `MessageHolds`
and `TxHolds` say that the nonce, the message and the transaction agree with the
chain unless `moved` says otherwise, and `LaterNonce` that the transaction's nonce is
not below the message's. Nonces only grow. So a message with an old nonce gets a
transaction that differs or is stale as well, and a transaction that is mined
without effect has another address than the message: the name moved.

**Wallet.** The builder's invariant is true of a list as the library returned it, but
not later: the mined approval changes the allowance the verdict was about, and
the application may take it out of the list. `WInv` keeps `CallInv` until the first
transaction is mined (`AsReturned`), and for afterwards `Granted` (the approval
leaves an allowance of the maximum, unless that moved), `SentWhenBuilt` and
`ApprovalWasDue`. `ListWorks` derives from these that the next transaction succeeds
unless the allowance moved; `SendsWork` and `QuotesWork` remember its outcome. The
proof rests on `IInv` and `ListsAreCovered`.

`GuessesAreDue` needs one more fact. `gas()` looks for an approval in the list after
it has awaited the gas price, when the verdict that put the approval there may be
old. `FoundDue` says that where it recommends, the library had found the allowance
short; that still holds while nothing of the list is mined and nobody else moves
the allowance (`DueWouldRevert`: the action would then revert, except for
`'-1'` and delegations, of which the library asks more than the action draws).

An approval that was mined is drawn from by all calls of its owner.
`Covered(d)` relates the two sides of `OwnApprovalSuffices`: what is left of the
allowance plus `d` for each action executed so far is the approval still, where
`d` bounds what one action draws. With `Affordable`, what is left for a call whose
action has not been executed is `d` or more.

**Pages of v2.** Positions are in listed reserves, snapshots only lag behind, and
reserves fetched after a position contain its reserves (`Inv`, which proves
`PageWhenPoolFresh`). `Sound` adds the numbers for a clock of any delay, and
`IInv` of the last part types and dates of everything on chain and in both
snapshots, and that a shown page *is* the computation over the two snapshots
(`PageOK`), for some delay of the clock. All that is said of a page is then a
fact about the computation. The arithmetic is in `PoolMath_proofs`, for all
precisions: what is computed by `rayMul`, `rayDiv`, linear and compounded interest
is monotone in every argument, across the three branches of the cut binomial
series; and `DoubleRounding`: a balance that is taken to rays, multiplied,
rounded, and rounded back to its own unit is the product rounded once or one
more, never less. `SameSupplies` and `RewardsGrow` do the same for rewards, before
and after the emission's end. `NotBehind` and `WithinLag` bound the factors for
times before a snapshot, so that a clock that is near makes nothing negative.
`BorrowingIsHealthy` is a comparison of weighted sums (`WeightedTotal`): the
average loan to value of the collateral, rounded down, is no more than the average
threshold, which is what the health factor divides by the debts.

**Yields of v2.** The list compounds the growth of a second with `rayPow`, squaring
and rounding; the summary grows debts by the first terms of the binomial series.
Neither is above the other as computed. At the deployed precision (`RAY` 10^27, a
year of 31,536,000 seconds) a rate of 2.6 % exceeds the yield by about 2.3e-6 ray:
the rounded cube of the growth per second is multiplied by the cube of the year.
`YieldCoversDebtGrowth` therefore grants `Roundings`, about 2.6e-6 ray at that precision
and 11 of 63, or 19 of 400, in the run. The proof takes one unit off the base
before it compares: `Above(x, u, p)` says that `x` is at least the series of `RAY + u`
at `p` and a unit more, and the loop of `rayPow` over `RAY + u + 1` keeps it, because the
rounding of each product is absorbed by that unit and because the product of two series is above the
series of the sum (`RayPowAboveSeries`). `CompoundedBelowSeries` bounds
the three rounded terms of the library from above by the same series.

For `NoYieldNoRewards`, a yield shown as zero is a zero emission, an emission that
has ended, or a quotient below half of the 20th decimal (`BelowLastDecimal`,
excepted, because there the rewards do grow). In the first two cases the rewards'
numerator stays, and the supplies that divide it only grow (`SameSupplies`).

**Pages of v1.** `NoChains` (whoever redirects has a deposit, and redirects to
somebody who does not redirect) and `ReceivedIsRedirected` (what is redirected to
a user is the sum of the deposits redirected to him) carry the proofs. The second
is an equation between a field of one account and a sum over all the others, and
every action that settles has to keep it while it changes two or three of the
accounts: `SettledWithGives` says what the settlement writes, `BalanceAfter` that
the balance of whoever is settled is what it was. `RedirectingMovesNothing` is the
action property that follows. For `InterestShownOnce` the sum of the balances is
split into what each user's own and received deposits have grown to;
`AllEarned` exchanges the received for the redirected, so that every deposit is
counted once, and `CumulatedBounds` gives the growth of each within one unit.
Withdrawals and loans are inequalities between quotients (`WithdrawingKeeps`,
`QuotientAtLeast`), in which a collateral that is negative would not do: hence
`BalancesNotNegative`. For a withdrawal `PageAfter` computes the page anew and
`WorthLess` bounds by how much its collateral is smaller; the weighted sum loses no
more than its share if the reserve's threshold is not above the average (`MixKeeps`),
so that the new average, cut as it is, is not below the old (`AveragedGrows`), nor
the health factor below the one at the old average (`QuotientGrows`). Averages follow from `AverageOfGrowth`, whose tolerance is
that of the quotient's decimals times the time between the two entries: the
property was stated with one unit before, which is true of the run's constants and
not of all.

**Sums, and induction.** The library's induction theorems take an operator as a
parameter, which the provers cannot instantiate. What is proved about sums over
finite sets and about the powers rests on the least element of a *set* instead:
`LeastSubset` and `SubsetInduction` (a non-empty family of subsets of a finite set
has a minimal one), `LeastTerm`, `NatLeast`. `Total`, the sum of a page, is shown to
be the only function that adds its elements one by one (`SumExists`, `SumUnique`,
`TotalUnfolds`), and from that to be monotone, additive and weighted
(`TotalMonotone`, `TotalAdds`, `WeightedTotal`). `rayPow` is a recursive function of one
argument, a triple; `LoopsExist` shows that a function with its recursion exists,
and `RayPowUnfolds` that `rayPow` takes its values.

**Only model-checked.** Everything under fairness (`CallsEnd`, `RequestsGetDone`,
`PagesArrive`, `DelegationsGetDone`: TLAPS has no support for ENABLED) and the three
runs that find a violation. Every invariant, action property and refinement that a passing
run checks is stated by a theorem above, some of them under a hypothesis named
here. No module declares a RECURSIVE operator.

## 6. Not modelled

- Malformed addresses, ENS checks outside delegation, the fields of the call data
  that pass through unchanged, gas limits as numbers, formatting of numbers.
- `signStaking`, the plain reads of the governance services (all but
  `getVotingPowerAt`, which precedes a vote), the tokens a vote's power is made of.
- A delegation relayed for someone else: `delegateBySig` has one parameter for
  signer and sender.
- In the computations: values in US dollars and of rewards in ETH, the wad operations
  that nothing calls, the health factor in big units. The contracts' totals are
  constants of `UserSummary`; they only weigh the rewards. In `V1Summary` the totals of
  a reserve are chosen at each transaction, of all users together.
  Reserves without deposits are left out of `V1Summary`, and with them the rate of use
  of zero that `calculateInterestRates` gives them (`v1/…:631`). The price of a
  reward token, by default zero, is folded into its emission.
- Order among reads that nothing can tell apart: the three parallel reads of
  `getTokenData` are one, and a malformed request to delegate fails in the method it is
  made for, not in the read of the nonce before it.
- Liquidations, in both protocols; reorganisations of the chain.
- The typechain bindings and the Solidity interfaces (generated), and the
  facades (synchronous construction).

## 7. Plan

Done, in this order: `TxRequests`, `TxBuilder` with `AtomicBuild`, `TxWallet`,
`ProposalMetadata`, `DelegationBySig`, the mathematics with `UserSummary`; the proofs
of the builder, its atomicity, the metadata and the pages; then `V1Summary`,
`Governance`, the lists of reserves, and the proofs of governance, delegation, the
wallet and the mathematics; then sums over pages and pools, all safety properties
of `V1Summary`, those of `UserSummary` and the approvals of the wallet; at last the
powers against the series, the yields of lists, the refinement of `AtomicBuild` by
the whole application, and the pages of v1 without an assumption on the clock's
rates.

Not begun:

1. `signStaking` and the permit's nonce, in the manner of `DelegationBySig`; the
   surplus of the gas station.
2. The values of rewards in ETH and dollars, with a finding if a document states
   their unit.

To repeat the checks, in this directory: `tlc -config MCTxBuilder_concurrent.cfg
MCTxBuilder` for a run, `tlapm TxBuilder_proofs.tla` for proofs.
