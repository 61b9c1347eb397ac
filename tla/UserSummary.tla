---------------------------- MODULE UserSummary -----------------------------
(***************************************************************************)
(* The portfolio page of an application: v2/computations-and-formatting.ts  *)
(* over two subscriptions, the reserves of the pool and the positions of   *)
(* the user, that arrive independently while the protocol moves on, with   *)
(* the application's own clock.  Formatting is left out.                   *)
(***************************************************************************)
EXTENDS PoolMath, TLC

CONSTANTS
  Reserves,
  Founding,        \* the reserves listed first
  Config,          \* what a reserve keeps: prices, factors, totals, emissions
  Rates,           \* the interest rates a reserve may have
  Positions,       \* the balances a user may have in a reserve
  Lags,            \* how far the application's clock may be behind
  EmissionEnd,     \* rewardsInfo.emissionEndTimestamp
  RewardScale,     \* 10^incentivePrecision
  MaxTime,         \* bound on the time
  MaxTransactions  \* bound on the transactions in the pool

Kinds == {"a", "v", "s"}   \* aToken, variable and stable debt token

Factors == [price : Nat, scale : Nat \ {0}, ltv : Nat, threshold : Nat,
            usageAsCollateralEnabled : BOOLEAN, availableLiquidity : Nat,
            totalScaledVariableDebt : Nat, totalPrincipalStableDebt : Nat,
            averageStableRate : Nat, stableDebtLastUpdateTimestamp : Nat,
            emissionPerSecond : [Kinds -> Nat]]

\* The protocol configures a threshold that is not below the loan to value.
\* The totals are constant, so that all stable debts date from the opening.
ASSUME SummaryAssumption ==
  /\ IsFiniteSet(Reserves) /\ Founding \subseteq Reserves
  /\ DOMAIN Config = Reserves /\ DOMAIN Rates = Reserves
  /\ DOMAIN Positions = Reserves
  /\ \A r \in Reserves :
       /\ Config[r] \in Factors /\ Config[r].ltv <= Config[r].threshold
       /\ Config[r].stableDebtLastUpdateTimestamp = 0
       /\ Rates[r] \subseteq [liquidity : Nat, variable : Nat, stable : Nat]
       /\ Positions[r] \subseteq [aToken : Nat, variable : Nat, stable : Nat,
                                  asCollateral : BOOLEAN]
  /\ Lags \subseteq Nat /\ Lags # {}
  /\ EmissionEnd \in Nat /\ RewardScale \in Nat \ {0}
  /\ MaxTime \in Nat /\ MaxTransactions \in Nat

VARIABLES
  now, lag,
  transactions,  \* how many there were
  market,        \* the listed reserves on chain
  account,       \* the user's reserves on chain
  pool,          \* the reserves the application holds
  position,      \* the user's reserves it holds
  ahead,         \* history: position arrived after pool
  page           \* what it shows: blank, thrown, a summary or a list of reserves

vars == <<now, lag, transactions, market, account, pool, position, ahead, page>>

AllRates == UNION {Rates[r] : r \in Reserves}

Reserve == [liquidityIndex : Nat, variableBorrowIndex : Nat,
            rates : AllRates,
            lastUpdateTimestamp : Nat, incentivesIndex : [Kinds -> Nat],
            incentivesLast : [Kinds -> Nat]]

UserReserve == [balances : UNION {Positions[r] : r \in Reserves},
                stableBorrowRate : Nat, stableBorrowLastUpdateTimestamp : Nat,
                incentivesUserIndex : [Kinds -> Nat]]

\* A function over the reserves that are there.
Listed(f, record) == DOMAIN f \subseteq Reserves /\ f \in [DOMAIN f -> record]

ComputedUserReserve == [underlyingBalance : Nat, variableBorrows : Nat,
                        stableBorrows : Nat, rewards : [Kinds -> Int]]

Blank == [kind |-> "blank"]
Thrown == [kind |-> "thrown"]
IsShown(p) ==
  /\ Listed(p.reserves, ComputedUserReserve)
  /\ p \in [kind : {"shown"}, at : Int, reserves : {p.reserves}, collateral : Nat,
            borrows : Nat, ltv : Nat, threshold : Nat, available : Nat,
            healthFactor : Int]

ComputedReserve == [totalVariableDebt : Nat, totalStableDebt : Nat,
                    totalLiquidity : Nat, utilizationRate : Nat,
                    incentivesAPY : [Kinds -> Nat], supplyAPY : Nat,
                    variableBorrowAPY : Nat, stableBorrowAPY : Nat]

IsList(p) ==
  /\ Listed(p.reserves, ComputedReserve)
  /\ p \in [kind : {"list"}, at : Int, reserves : {p.reserves}]

-----------------------------------------------------------------------------
\* Mutant: rewards are counted on after the emission has ended.
calculateRewardsOn(balance, index, userIndex, last, emission, supply, t) ==
  LET delta == (IF t > EmissionEnd THEN EmissionEnd ELSE t) - last
      current == DivDown(emission * delta * RewardScale, supply) + index
  IN  DivDown(balance * (current - userIndex), RewardScale)

calculateRewards(balance, index, userIndex, last, emission, supply, t) ==
  LET delta == (IF t > EmissionEnd THEN EmissionEnd ELSE t) - last
      current == IF last = t \/ last >= EmissionEnd THEN index
                 ELSE DivDown(emission * delta * RewardScale, supply) + index
  IN  DivDown(balance * (current - userIndex), RewardScale)

\* What all users owe and own in a reserve at a time.
calculateSupplies(r, reserve, t) ==
  LET c == Config[r]
      totalVariableDebt ==
        rayMul(rayMul(c.totalScaledVariableDebt, reserve.variableBorrowIndex),
               calculateCompoundedInterest(reserve.rates.variable, t,
                                           reserve.lastUpdateTimestamp))
      totalStableDebt ==
        rayMul(c.totalPrincipalStableDebt,
               calculateCompoundedInterest(c.averageStableRate, t,
                                           c.stableDebtLastUpdateTimestamp))
  IN  [a |-> totalVariableDebt + totalStableDebt + c.availableLiquidity,
       v |-> totalVariableDebt, s |-> totalStableDebt]

\* The supply of the token whose holders share an emission.
RewardSupply(r, reserve, t) ==
  [a |-> rayDiv(calculateSupplies(r, reserve, t).a, reserve.liquidityIndex),
   v |-> Config[r].totalScaledVariableDebt,
   s |-> Config[r].totalPrincipalStableDebt]

Held(balances) ==
  [a |-> balances.aToken, v |-> balances.variable, s |-> balances.stable]

computeUserReserveData(r, reserve, user, t) ==
  LET b == user.balances
      last == reserve.lastUpdateTimestamp
  IN  [underlyingBalance |->
         getLinearBalance(b.aToken, reserve.liquidityIndex,
                          reserve.rates.liquidity, last, t),
       variableBorrows |->
         getCompoundedBalance(b.variable, reserve.variableBorrowIndex,
                              reserve.rates.variable, last, t),
       stableBorrows |->
         getCompoundedStableBalance(b.stable, reserve.rates.stable,
                                    user.stableBorrowLastUpdateTimestamp, t),
       rewards |-> [k \in Kinds |->
         IF calculateSupplies(r, reserve, t)[k] = 0 THEN 0
         ELSE calculateRewards(Held(b)[k], reserve.incentivesIndex[k],
                               user.incentivesUserIndex[k], reserve.incentivesLast[k],
                               Config[r].emissionPerSecond[k],
                               RewardSupply(r, reserve, t)[k], t)]]

\* The mutant looks the other way round.
SomeUnregistered(reserves, users) == \E r \in DOMAIN reserves : r \notin DOMAIN users

SomeUnknown(reserves, users) == \E r \in DOMAIN users : r \notin DOMAIN reserves

InEth(r, balance) == DivDown(balance * Config[r].price, Config[r].scale)

\* An average over the collateral, to the integer below.
Averaged(sum, collateral) ==
  IF sum > 0 THEN Quotient(sum, collateral) \div Dp ELSE 0

computeRawUserSummaryData(reserves, users, t) ==
  LET data == [r \in DOMAIN users |->
                 computeUserReserveData(r, reserves[r], users[r], t)]
      eth == [r \in DOMAIN users |-> InEth(r, data[r].underlyingBalance)]
      owed == [r \in DOMAIN users |-> InEth(r, data[r].variableBorrows)
                                       + InEth(r, data[r].stableBorrows)]
      pledged == {r \in DOMAIN users : /\ Config[r].usageAsCollateralEnabled
                                       /\ users[r].balances.asCollateral}
      collateral == Total(eth, pledged)
      borrows == Total(owed, DOMAIN users)
      ltv == Averaged(Total([r \in pledged |-> eth[r] * Config[r].ltv], pledged),
                      collateral)
      threshold ==
        Averaged(Total([r \in pledged |-> eth[r] * Config[r].threshold], pledged),
                 collateral)
  IN  IF SomeUnknown(reserves, users) THEN Thrown
      ELSE [kind |-> "shown", at |-> t, reserves |-> data, collateral |-> collateral,
            borrows |-> borrows, ltv |-> ltv, threshold |-> threshold,
            available |-> calculateAvailableBorrowsETH(collateral, borrows, ltv),
            healthFactor |->
              calculateHealthFactorFromBalances(collateral, borrows, threshold)]

-----------------------------------------------------------------------------
\* The yearly rewards on what the supply is worth, in units of 1 / Dp; the
\* reward token's price and decimals are counted in the emission.
calculateIncentivesAPY(r, emission, supply) ==
  Quotient(emission * SECONDS_PER_YEAR * Config[r].scale, supply * Config[r].price)

\* Mutant: the two dates are compared the other way round.
hasEmissionSwitched(t) == EmissionEnd # 0 /\ EmissionEnd < t

hasEmission(t) == EmissionEnd # 0 /\ EmissionEnd > t

APY(rate) == rayPow(RAY + rate \div SECONDS_PER_YEAR, SECONDS_PER_YEAR) - RAY

(***************************************************************************)
(* What a list says of a reserve, at the timestamp given or, without one,  *)
(* at the reserve's last update: the emission is then judged by the clock. *)
(* A timestamp of zero counts as none.  The averages over the last 30 days *)
(* are those of V1Summary, and are not asked for here.                     *)
(***************************************************************************)
formatReserve(r, reserve, given, t) ==
  LET supplies == calculateSupplies(r, reserve, IF given /\ t # 0 THEN t
                                                ELSE reserve.lastUpdateTimestamp)
  IN  [totalVariableDebt |-> supplies.v, totalStableDebt |-> supplies.s,
       totalLiquidity |-> supplies.a,
       utilizationRate |-> IF supplies.a = 0 THEN 0
                           ELSE Quotient(supplies.v + supplies.s, supplies.a),
       incentivesAPY |-> [k \in Kinds |->
         IF ~hasEmission(t) \/ supplies[k] = 0 THEN 0
         ELSE calculateIncentivesAPY(r, Config[r].emissionPerSecond[k], supplies[k])],
       supplyAPY |-> APY(reserve.rates.liquidity),
       variableBorrowAPY |-> APY(reserve.rates.variable),
       stableBorrowAPY |-> APY(reserve.rates.stable)]

formatReserves(reserves, given, t) ==
  [kind |-> "list", at |-> t,
   reserves |-> [r \in DOMAIN reserves |-> formatReserve(r, reserves[r], given, t)]]

-----------------------------------------------------------------------------
Nothing == [r \in {} |-> 0]

NewReserve(rates) ==
  [liquidityIndex |-> RAY, variableBorrowIndex |-> RAY, rates |-> rates,
   lastUpdateTimestamp |-> now, incentivesIndex |-> [k \in Kinds |-> 0],
   incentivesLast |-> [k \in Kinds |-> now]]

\* The application is opened on a pool that has its first reserves.
Init ==
  /\ now = 0 /\ lag \in Lags /\ transactions = 0
  /\ \E rates \in {f \in [Founding -> AllRates] : \A r \in Founding : f[r] \in Rates[r]} :
       market = [r \in Founding |-> NewReserve(rates[r])]
  /\ account = Nothing
  /\ pool = Nothing /\ position = Nothing
  /\ ahead = FALSE /\ page = Blank

Tick == /\ now < MaxTime /\ now' = now + 1
        /\ UNCHANGED <<lag, transactions, market, account, pool, position, ahead, page>>

\* A transaction in the pool: the library only sees it through a subscription.
Transact == /\ transactions < MaxTransactions /\ transactions' = transactions + 1
            /\ UNCHANGED <<now, lag, pool, position, ahead, page>>

List(r) ==
  /\ Transact
  /\ r \notin DOMAIN market
  /\ \E rates \in Rates[r] :
       market' = [x \in DOMAIN market \cup {r} |->
         IF x # r THEN market[x] ELSE NewReserve(rates)]
  /\ UNCHANGED account

\* The contracts accrue a reserve: interest always, rewards of the tokens
\* that change hands, and then set new rates.
Accrued(r, tokens, rates) ==
  LET m == market[r]
      last == m.lastUpdateTimestamp
      supply == RewardSupply(r, m, now)
      counted(k) == IF m.incentivesLast[k] >= EmissionEnd \/ supply[k] = 0
                    THEN m.incentivesIndex[k]
                    ELSE m.incentivesIndex[k] +
                         (Config[r].emissionPerSecond[k] * RewardScale *
                            ((IF now > EmissionEnd THEN EmissionEnd ELSE now)
                               - m.incentivesLast[k]))
                           \div supply[k]
  IN  [liquidityIndex |-> rayMul(calculateLinearInterest(m.rates.liquidity, now, last),
                                 m.liquidityIndex),
       variableBorrowIndex |->
         rayMul(calculateCompoundedInterest(m.rates.variable, now, last),
                m.variableBorrowIndex),
       rates |-> rates, lastUpdateTimestamp |-> now,
       incentivesIndex |-> [k \in Kinds |-> IF k \in tokens THEN counted(k)
                                            ELSE m.incentivesIndex[k]],
       incentivesLast |-> [k \in Kinds |-> IF k \in tokens THEN now
                                           ELSE m.incentivesLast[k]]]

\* Somebody else deposits, borrows or repays; the totals, which only weigh the
\* rewards, are taken as constant.
Touch(r) ==
  /\ Transact
  /\ r \in DOMAIN market
  /\ \E k \in Kinds, rates \in Rates[r] :
       market' = [market EXCEPT ![r] = Accrued(r, {k}, rates)]
  /\ UNCHANGED account

\* The user does: a stable debt takes the rate the reserve has then.
Use(r) ==
  /\ Transact
  /\ r \in DOMAIN market
  /\ \E rates \in Rates[r], balances \in Positions[r] :
       /\ market' = [market EXCEPT ![r] = Accrued(r, Kinds, rates)]
       /\ account' = [x \in DOMAIN account \cup {r} |->
            IF x # r THEN account[x]
            ELSE [balances |-> balances,
                  stableBorrowRate |->
                    IF balances.stable = 0 THEN 0 ELSE market[r].rates.stable,
                  stableBorrowLastUpdateTimestamp |-> now,
                  incentivesUserIndex |-> market'[r].incentivesIndex]]

\* The two subscriptions; what was shown is computed anew afterwards.
FetchPool ==
  /\ pool' = market /\ ahead' = FALSE /\ page' = Blank
  /\ UNCHANGED <<now, lag, transactions, market, account, position>>

FetchPosition ==
  /\ position' = account /\ ahead' = TRUE /\ page' = Blank
  /\ UNCHANGED <<now, lag, transactions, market, account, pool>>

\* formatUserSummaryData, at the application's current time.
Show ==
  /\ page' = computeRawUserSummaryData(pool, position, now - lag)
  /\ UNCHANGED <<now, lag, transactions, market, account, pool, position, ahead>>

\* formatReserves, with the application's time or without one.
ShowReserves ==
  /\ \E given \in BOOLEAN : page' = formatReserves(pool, given, now - lag)
  /\ UNCHANGED <<now, lag, transactions, market, account, pool, position, ahead>>

\* A list is closed before anything else happens: nothing depends on it.
Close ==
  /\ page.kind = "list" /\ page' = Blank
  /\ UNCHANGED <<now, lag, transactions, market, account, pool, position, ahead>>

Next == \/ Close
        \/ /\ page.kind # "list"
           /\ \/ Tick \/ FetchPool \/ FetchPosition \/ Show \/ ShowReserves
              \/ \E r \in Reserves : List(r) \/ Touch(r) \/ Use(r)

Spec == Init /\ [][Next]_vars

-----------------------------------------------------------------------------
\* Everything has its type: what is shown is never a negative balance, debt or
\* borrowing power, whatever the two snapshots and the clock.
TypeOK ==
  /\ now \in 0..MaxTime /\ lag \in Lags /\ transactions \in 0..MaxTransactions
  /\ Listed(market, Reserve) /\ Listed(pool, Reserve)
  /\ Listed(account, UserReserve) /\ Listed(position, UserReserve)
  /\ ahead \in BOOLEAN
  /\ page \in {Blank, Thrown}
     \/ IF page.kind = "list" THEN IsList(page) ELSE IsShown(page)

OnPage == IF page.kind = "shown" THEN DOMAIN page.reserves ELSE {}

\* The rewards of the reserves the application holds were last counted before t.
IncentivesCountedBy(t) ==
  \A r \in DOMAIN pool : \A k \in Kinds : pool[r].incentivesLast[k] <= t

\* Computed again later from the same snapshots, no balance, debt or reward
\* has become smaller; the rewards of deposits are excepted, whose supply is
\* estimated at the page's time and grows on when the emission has ended.
PagesGrow ==
  [][(/\ page.kind = "shown" /\ page'.kind = "shown" /\ page.at <= page'.at
      /\ ~ahead
      /\ \A r \in DOMAIN pool : pool[r].lastUpdateTimestamp <= page.at
      /\ IncentivesCountedBy(page.at))
     => \A r \in OnPage :
          LET before == page.reserves[r]
              after == page'.reserves[r]
          IN  /\ before.underlyingBalance <= after.underlyingBalance
              /\ before.variableBorrows <= after.variableBorrows
              /\ before.stableBorrows <= after.stableBorrows
              /\ \A k \in {"v", "s"} : before.rewards[k] <= after.rewards[k]]_vars

\* What the contracts report for the snapshots: their products are rounded
\* once, where the library goes through rays and is rounded twice.
OnChain(r, t) ==
  LET m == pool[r]
      u == position[r]
      last == m.lastUpdateTimestamp
  IN  [underlyingBalance |->
         rayMul(u.balances.aToken,
                getReserveNormalizedIncome(m.rates.liquidity, m.liquidityIndex, last, t)),
       variableBorrows |->
         rayMul(u.balances.variable,
                rayMul(calculateCompoundedInterest(m.rates.variable, t, last),
                       m.variableBorrowIndex)),
       stableBorrows |->
         rayMul(u.balances.stable,
                calculateCompoundedInterest(u.stableBorrowRate, t,
                                            u.stableBorrowLastUpdateTimestamp))]

\* A shown balance or variable debt is the contracts' or one unit more, never
\* less, although it is rounded twice (the stable debt: StableDebtAtUsersRate).
ShownNearContract ==
  \A r \in OnPage : \A f \in {"underlyingBalance", "variableBorrows"} :
    page.reserves[r][f] - OnChain(r, page.at)[f] \in {0, 1}

\* Borrowing all that is shown as available leaves the user with a health
\* factor of at least one, rounding included.
AvailableIsHealthy ==
  page.kind = "shown" =>
    \/ page.available = 0
    \/ calculateHealthFactorFromBalances(page.collateral, page.borrows + page.available,
                                         page.threshold) >= Dp

\* No reward is negative, also past the emission's end, while the reserves are
\* the newer snapshot and the clock is not behind it.
RewardsNotNegative ==
  (~ahead /\ IncentivesCountedBy(now - lag)) =>
    \A r \in OnPage : page.at = now - lag =>
      \A k \in Kinds : page.reserves[r].rewards[k] >= 0

\* Only a position newer than the reserves can be in one of which the
\* application has not heard: the page fails for no other reason.
PageWhenPoolFresh == page = Thrown => ahead

\* The reserves of a list.
InList == IF page.kind = "list" THEN DOMAIN page.reserves ELSE {}

\* The supply by which a list divides the emissions.
Supply(shown) == [a |-> shown.totalLiquidity, v |-> shown.totalVariableDebt,
                  s |-> shown.totalStableDebt]

\* There is a yield, and less of it than half of the last decimal.
BelowLastDecimal(r, k) ==
  LET yearly == Config[r].emissionPerSecond[k] * SECONDS_PER_YEAR * Config[r].scale
  IN  /\ hasEmission(page.at) /\ yearly > 0
      /\ 2 * yearly * Dp < Supply(page.reserves[r])[k] * Config[r].price

\* Where a list shows no yield of incentives, and not because it is rounded
\* away, the user's rewards of that token do not grow in the second that
\* follows: calculateRewards and the list's hasEmission, written apart, agree on
\* when the emission ends.
NoYieldNoRewards ==
  \A r \in InList \cap DOMAIN position :
    LET Rewards(t) == computeUserReserveData(r, pool[r], position[r], t).rewards
    IN  \A k \in Kinds :
          page.reserves[r].incentivesAPY[k] = 0 /\ ~BelowLastDecimal(r, k) =>
            Rewards(page.at + 1)[k] <= Rewards(page.at)[k]

(***************************************************************************)
(* By how much a growth of s per second, compounded for a year, may be     *)
(* less than the binomial series for the roundings of both: a unit less a   *)
(* second in the power, and half a unit more in the square and the cube of *)
(* the series, which it multiplies by the square and cube of the year.     *)
(***************************************************************************)
Roundings(s) ==
  LET n == SECONDS_PER_YEAR
      R == RAY
  IN  (12 * n * (R * R) + n * (n - 1) * (3 * (R * R) + 12 * R * s)
         + n * (n - 1) * (n - 2) * (R * R + R * s + 6 * (s * s))) \div (12 * (R * R))

\* The yearly yield a list shows, compounded every second by rayPow, is not
\* below what a debt at that rate grows by in a year on the summary, where the
\* binomial series is cut off after three terms, but for the roundings.
YieldCoversDebtGrowth ==
  \A r \in InList :
    LET Growth(rate) == calculateCompoundedInterest(rate, SECONDS_PER_YEAR, 0) - RAY
        Covers(yield, rate) ==
          Growth(rate) <= yield + Roundings(rate \div SECONDS_PER_YEAR)
    IN  /\ Covers(page.reserves[r].variableBorrowAPY, pool[r].rates.variable)
        /\ Covers(page.reserves[r].stableBorrowAPY, pool[r].rates.stable)

\* A stable debt grows at the rate it was taken at: the parameter of
\* getCompoundedStableBalance is the user's stable rate.
StableDebtAtUsersRate ==
  \A r \in OnPage :
    page.reserves[r].stableBorrows - OnChain(r, page.at).stableBorrows \in {0, 1}
=============================================================================
