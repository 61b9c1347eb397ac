----------------------------- MODULE V1Summary ------------------------------
(***************************************************************************)
(* The portfolio page and the list of reserves of the first protocol:      *)
(* v1/computations-and-formatting.ts.  Unlike in the second one, a deposit *)
(* may pay its interest to somebody else, a debt has one of two modes, and *)
(* every loan adds an origination fee, in the currency of the loan.        *)
(* Dollar values and the normalisation of units are left out.              *)
(***************************************************************************)
EXTENDS PoolMath, TLC

CONSTANTS
  Users, Wallet,   \* Wallet is the user whose page is shown
  None,
  Reserves,
  Moving,          \* bound: the reserves that are used during a run
  Config,          \* prices, factors and interest rate strategies
  Totals,          \* the deposits and loans of all users, by reserve
  Opening,         \* what each user has deposited at first
  Deposits, Loans, \* the amounts of later deposits and loans
  FeeDivisor,      \* 400: the origination fee is 0.0025 of a loan
  Lags,            \* how far the application's clock may be behind
  MaxTime,         \* bound on the time
  MaxTransactions  \* bound on the transactions in the pool

Factors == [price : Nat, scale : Nat \ {0}, ltv : Nat, threshold : Nat,
            optimal : Nat, base : Nat, variableSlope1 : Nat,
            variableSlope2 : Nat, stableSlope1 : Nat, stableSlope2 : Nat,
            marketStable : Nat, averageStable : Nat]

\* The contracts lend at most what is deposited, and configure a threshold
\* that is not below the loan to value and an optimum below full use.
ASSUME V1Assumption ==
  /\ IsFiniteSet(Users) /\ Wallet \in Users /\ None \notin Users
  /\ IsFiniteSet(Reserves)
  /\ Moving \subseteq Reserves
  /\ DOMAIN Config = Reserves /\ DOMAIN Totals = Reserves
  /\ \A r \in Reserves :
       /\ Config[r] \in Factors /\ Config[r].ltv <= Config[r].threshold
       /\ Config[r].optimal \in 2..(RAY - 1)
       /\ Totals[r] # {}
       /\ \A t \in Totals[r] : /\ t \in [liquidity : Nat \ {0}, stable : Nat,
                                         variable : Nat]
                               /\ t.stable + t.variable <= t.liquidity
  /\ Opening \in [Users -> [Reserves -> Nat]]
  /\ Deposits \subseteq Nat \ {0} /\ Loans \subseteq Nat \ {0}
  /\ FeeDivisor \in Nat \ {0}
  /\ Lags \subseteq Nat /\ Lags # {}
  /\ MaxTime \in Nat /\ MaxTransactions \in Nat

VARIABLES
  now,
  transactions,  \* how many there were
  market,        \* the reserves on chain
  account,       \* the users' reserves on chain
  pool,          \* the reserves the application holds
  position,      \* the reserves of Wallet it holds
  page           \* what it shows

vars == <<now, transactions, market, account, pool, position, page>>

AllTotals == UNION {Totals[r] : r \in Reserves}

Reserve == [liquidityIndex : Nat, variableBorrowIndex : Nat, totals : AllTotals,
            rates : [liquidity : Nat, variable : Nat, stable : Nat],
            lastUpdateTimestamp : Nat, usageAsCollateralEnabled : BOOLEAN]

UserReserve ==
  [principalATokenBalance : Nat, userBalanceIndex : Nat \ {0}, redirectedBalance : Int,
   interestRedirectionAddress : Users \cup {None},
   borrowRateMode : {"None", "Stable", "Variable"}, principalBorrows : Nat,
   variableBorrowIndex : Nat \ {0}, borrowRate : Nat, lastUpdateTimestamp : Nat,
   originationFee : Nat, usageAsCollateralEnabledOnUser : BOOLEAN]

Blank == [kind |-> "blank"]
Thrown == [kind |-> "thrown"]

ComputedUserReserve == [balance : Int, borrows : Nat, fee : Nat]

IsSummary(p) ==
  /\ \/ DOMAIN p.reserves = {}
     \/ p.reserves \in [Reserves -> ComputedUserReserve]
  /\ p \in [kind : {"summary"}, at : Int, reserves : {p.reserves}, liquidity : Int,
            collateral : Int, borrows : Nat, fees : Nat, ltv : Nat, threshold : Nat,
            available : Int, maxWithdraw : Int \cup {None}, healthFactor : Int]
  /\ p.available + p.fees * (FeeDivisor - 1) >= 0

Average30 == {"NaN", "infinite", "number"}
IsList(p) == /\ p.kind = "list" /\ DOMAIN p.reserves = Reserves
             /\ \A r \in Reserves : p.reserves[r].variable.kind \in Average30
IsRates(p) == p \in [kind : {"rates"}, of : Reserves, variable : Nat, stable : Nat,
                     liquidity : Nat]

-----------------------------------------------------------------------------
(* Balances and debts. *)

calculateCumulatedBalance(balance, userReserve, poolReserve, t) ==
  rayToWad(rayDiv(rayMul(wadToRay(balance),
                         getReserveNormalizedIncome(poolReserve.rates.liquidity,
                           poolReserve.liquidityIndex, poolReserve.lastUpdateTimestamp, t)),
                  userReserve.userBalanceIndex))

\* Mutants: the redirection of one's own interest is not noticed; the
\* redirected balance itself is taken for its owner's.
calculateCurrentUnderlyingBalanceDirect(userReserve, poolReserve, t) ==
  calculateCumulatedBalance(userReserve.redirectedBalance
                              + userReserve.principalATokenBalance,
                            userReserve, poolReserve, t) - userReserve.redirectedBalance

calculateCurrentUnderlyingBalanceGross(userReserve, poolReserve, t) ==
  calculateCumulatedBalance(userReserve.redirectedBalance
                              + userReserve.principalATokenBalance,
                            userReserve, poolReserve, t)

\* Others' interest is earned on their redirected balance, which is not owned.
calculateCurrentUnderlyingBalance(userReserve, poolReserve, t) ==
  LET principal == userReserve.principalATokenBalance
      redirected == userReserve.redirectedBalance
      Cumulated(balance) == calculateCumulatedBalance(balance, userReserve, poolReserve, t)
  IN  IF principal = 0 /\ redirected = 0 THEN 0
      ELSE IF userReserve.interestRedirectionAddress # None
      THEN principal + Cumulated(redirected) - redirected
      ELSE Cumulated(redirected + principal) - redirected

\* Mutant: a stable debt grows at the rate the reserve has now.
getCompoundedBorrowBalanceReserveRate(reserve, userReserve, t) ==
  Grown(userReserve.principalBorrows,
        calculateCompoundedInterest(reserve.rates.stable, t,
                                    userReserve.lastUpdateTimestamp))

getCompoundedBorrowBalance(reserve, userReserve, t) ==
  LET cumulatedInterest ==
        IF userReserve.borrowRateMode = "Variable"
        THEN rayDiv(rayMul(calculateCompoundedInterest(reserve.rates.variable, t,
                                                       reserve.lastUpdateTimestamp),
                           reserve.variableBorrowIndex),
                    userReserve.variableBorrowIndex)
        ELSE calculateCompoundedInterest(userReserve.borrowRate, t,
                                         userReserve.lastUpdateTimestamp)
  IN  IF userReserve.principalBorrows = 0 THEN 0
      ELSE Grown(userReserve.principalBorrows, cumulatedInterest)

computeUserReserveData(reserve, user, t) ==
  [balance |-> calculateCurrentUnderlyingBalance(user, reserve, t),
   borrows |-> getCompoundedBorrowBalance(reserve, user, t),
   fee |-> user.originationFee]

-----------------------------------------------------------------------------
(* The summary.  Its sums are integers: a value in ETH has no decimals. *)

InEth(r, balance) == DivDown(balance * Config[r].price, Config[r].scale)

\* An average over the collateral, to the integer below.
Averaged(sum, collateral) ==
  IF sum > 0 THEN Quotient(sum, collateral) \div Dp ELSE 0

healthFactorWithFees(collateral, borrows, fees, threshold) ==
  IF borrows = 0 THEN -1 ELSE Quotient(collateral * threshold, LtvScale * (borrows + fees))

\* Mutants: the fees that are due already are forgotten; nothing keeps what
\* the debts exceed from being shown.
availableBorrowsIgnoringFees(collateral, borrows, fees, ltv) ==
  LET capacity == DivDown(collateral * ltv, LtvScale)
  IN  IF ltv = 0 \/ capacity < borrows THEN 0
      ELSE (capacity - borrows) * (FeeDivisor - 1)

availableBorrowsUnclamped(collateral, borrows, fees, ltv) ==
  (DivDown(collateral * ltv, LtvScale) - borrows - fees) * (FeeDivisor - 1)

\* In units of 1 / FeeDivisor: room is left for the fee of the loan to come.
\* Only borrows are compared, so that the fees can make it negative.
availableBorrowsAfterFees(collateral, borrows, fees, ltv) ==
  LET capacity == DivDown(collateral * ltv, LtvScale)
  IN  IF ltv = 0 \/ capacity < borrows THEN 0
      ELSE (capacity - borrows - fees) * (FeeDivisor - 1)

\* Mutant: the same.
maxAmountToWithdrawIgnoringFees(liquidity, borrows, fees, threshold) ==
  IF borrows = 0 THEN liquidity
  ELSE IF threshold = 0 THEN None
  ELSE liquidity - DivDown(borrows * LtvScale, threshold)

\* None is -Infinity, the quotient by a threshold of zero.
maxAmountToWithdraw(liquidity, borrows, fees, threshold) ==
  IF borrows + fees = 0 THEN liquidity
  ELSE IF threshold = 0 THEN None
  ELSE liquidity - DivDown((borrows + fees) * LtvScale, threshold)

SomeUnknown(reserves, users) == \E r \in DOMAIN users : r \notin DOMAIN reserves

collateralOf(reserves, users) ==
  {r \in DOMAIN users : /\ reserves[r].usageAsCollateralEnabled
                        /\ users[r].usageAsCollateralEnabledOnUser}

\* What the page says of these balances, debts and fees.
summaryOf(reserves, users, data, t) ==
  LET eth == [r \in DOMAIN users |-> InEth(r, data[r].balance)]
      pledged == collateralOf(reserves, users)
      liquidity == Total(eth, DOMAIN users)
      collateral == Total(eth, pledged)
      borrows == Total([r \in DOMAIN users |-> InEth(r, data[r].borrows)], DOMAIN users)
      fees == Total([r \in DOMAIN users |-> InEth(r, data[r].fee)], DOMAIN users)
      ltv == Averaged(Total([r \in pledged |-> eth[r] * Config[r].ltv], pledged),
                      collateral)
      threshold ==
        Averaged(Total([r \in pledged |-> eth[r] * Config[r].threshold], pledged),
                 collateral)
  IN  [kind |-> "summary", at |-> t, reserves |-> data, liquidity |-> liquidity,
       collateral |-> collateral, borrows |-> borrows, fees |-> fees,
       ltv |-> ltv, threshold |-> threshold,
       available |-> availableBorrowsAfterFees(collateral, borrows, fees, ltv),
       maxWithdraw |-> maxAmountToWithdraw(liquidity, borrows, fees, threshold),
       healthFactor |-> healthFactorWithFees(collateral, borrows, fees, threshold)]

computeRawUserSummaryData(reserves, users, t) ==
  IF SomeUnknown(reserves, users) THEN Thrown
  ELSE summaryOf(reserves, users,
                 [r \in DOMAIN users |-> computeUserReserveData(reserves[r], users[r], t)], t)

-----------------------------------------------------------------------------
(* The list of reserves, and rates foretold. *)

\* Rates of use are in units of 1 / Dp, interest rates in units of RAY / Dp;
\* the optimum arrives in rays, like every rate of the subscription, so that
\* a use above it is one of 10^27, and one minus it is negative.
calculateInterestRates(r, reserve, amountToDeposit, amountToBorrow, borrowMode) ==
  LET c == Config[r]
      stable == reserve.totals.stable + (IF borrowMode = "stable" THEN amountToBorrow ELSE 0)
      variable ==
        reserve.totals.variable + (IF borrowMode = "variable" THEN amountToBorrow ELSE 0)
      deposits == reserve.totals.liquidity + amountToDeposit
      utilization == Quotient(stable + variable, deposits)
      optimal == c.optimal * Dp
      ratio == Quotient(utilization, optimal)
      excess == Quotient(utilization - optimal, optimal - Dp)
      above == utilization > optimal
      variableRate ==
        c.base * Dp + (IF above THEN c.variableSlope1 * Dp - excess * c.variableSlope2
                       ELSE ratio * c.variableSlope1)
  IN  [variable |-> variableRate,
       stable |-> IF above THEN (reserve.rates.stable + c.stableSlope1) * Dp
                                  - excess * c.stableSlope2
                  ELSE ratio * c.stableSlope1,
       liquidity |-> IF stable + variable = 0 THEN 0
                     ELSE Quotient(variableRate * variable + c.averageStable * Dp * stable,
                                   (stable + variable) * Dp)]

\* What both averages of a reserve are computed from, unless the 30 days ago
\* list has no entry for it: the entry, then what the reserve has now.
Average(reserve, ago, index) ==
  calculateAverageRate(ago[index], reserve[index], ago.timestamp,
                       reserve.lastUpdateTimestamp)

formatReserves(reserves, ago) ==
  [r \in DOMAIN reserves |->
     IF r \notin DOMAIN ago THEN [kind |-> "undefined"]
     ELSE [kind |-> "averages",
           variable |-> Average(reserves[r], ago[r], "variableBorrowIndex"),
           liquidity |-> Average(reserves[r], ago[r], "liquidityIndex")]]

-----------------------------------------------------------------------------
(* The contracts of the first protocol, as far as the page can tell. *)

NormalizedIncome(r) ==
  getReserveNormalizedIncome(market[r].rates.liquidity, market[r].liquidityIndex,
                             market[r].lastUpdateTimestamp, now)

\* A user earns interest on what others redirect to him, and on his own
\* deposit unless he redirects that.
Earning(a) ==
  a.redirectedBalance
    + (IF a.interestRedirectionAddress = None THEN a.principalATokenBalance ELSE 0)

Interest(r, a) ==
  rayToWad(rayDiv(rayMul(wadToRay(Earning(a)), NormalizedIncome(r)), a.userBalanceIndex))
    - Earning(a)

Debt(r, a) ==
  IF a.principalBorrows = 0 THEN 0
  ELSE Grown(a.principalBorrows,
    IF a.borrowRateMode = "Stable"
    THEN calculateCompoundedInterest(a.borrowRate, now, a.lastUpdateTimestamp)
    ELSE rayDiv(rayMul(calculateCompoundedInterest(market[r].rates.variable, now,
                                                   market[r].lastUpdateTimestamp),
                       market[r].variableBorrowIndex), a.variableBorrowIndex))

\* The strategy of a reserve: rates that rise more steeply above the optimum.
StrategyRates(r, t) ==
  LET c == Config[r]
      use == rayDiv(t.stable + t.variable, t.liquidity)
      above == rayDiv(use - c.optimal, RAY - c.optimal)
      below == rayDiv(use, c.optimal)
      Sloped(slope1, slope2) == IF use > c.optimal THEN slope1 + rayMul(slope2, above)
                                ELSE rayMul(slope1, below)
      variable == c.base + Sloped(c.variableSlope1, c.variableSlope2)
  IN  [variable |-> variable,
       stable |-> c.marketStable + Sloped(c.stableSlope1, c.stableSlope2),
       liquidity |-> rayMul(variable, use)]

NewReserve(r, t) ==
  [liquidityIndex |-> RAY, variableBorrowIndex |-> RAY, totals |-> t,
   rates |-> StrategyRates(r, t), lastUpdateTimestamp |-> 0,
   usageAsCollateralEnabled |-> TRUE]

NewUserReserve(u, r) ==
  [principalATokenBalance |-> Opening[u][r], userBalanceIndex |-> RAY,
   redirectedBalance |-> 0, interestRedirectionAddress |-> None,
   borrowRateMode |-> "None", principalBorrows |-> 0, variableBorrowIndex |-> RAY,
   borrowRate |-> 0, lastUpdateTimestamp |-> 0, originationFee |-> 0,
   usageAsCollateralEnabledOnUser |-> TRUE]

Nothing == [r \in {} |-> 0]

Init ==
  /\ now = 0 /\ transactions = 0
  /\ \E t \in {f \in [Reserves -> AllTotals] : \A r \in Reserves : f[r] \in Totals[r]} :
       market = [r \in Reserves |-> NewReserve(r, t[r])]
  /\ account = [u \in Users |-> [r \in Reserves |-> NewUserReserve(u, r)]]
  /\ pool = Nothing /\ position = Nothing
  /\ page = Blank

Tick == /\ now < MaxTime /\ now' = now + 1
        /\ UNCHANGED <<transactions, market, account, pool, position, page>>

\* A transaction: a reserve accrues what is due; then its totals are others,
\* and with them its rates.
Transact(r) ==
  /\ transactions < MaxTransactions /\ transactions' = transactions + 1
  /\ r \in Moving
  /\ LET m == market[r]
         variable == calculateCompoundedInterest(m.rates.variable, now,
                                                 m.lastUpdateTimestamp)
     IN  \E t \in Totals[r] :
           market' = [market EXCEPT ![r] =
             [m EXCEPT !.liquidityIndex = NormalizedIncome(r),
                       !.variableBorrowIndex = rayMul(variable, @),
                       !.totals = t, !.rates = StrategyRates(r, t),
                       !.lastUpdateTimestamp = now]]
  /\ UNCHANGED <<now, pool, position, page>>

\* Somebody else's.
Touch(r) == Transact(r) /\ UNCHANGED account

\* cumulateBalance: the interest of a is added to the deposit.
Settled(r, a) ==
  [a EXCEPT !.principalATokenBalance = @ + Interest(r, a),
            !.userBalanceIndex = NormalizedIncome(r)]

\* The accounts after u settles, and whoever receives the interest of u, whose
\* redirected balance changes by redirected.
SettledWith(u, r, receiver, redirected) ==
  [x \in Users |->
     IF x = u \/ x = receiver
     THEN [account[x] EXCEPT ![r] =
             [Settled(r, account[x][r]) EXCEPT !.redirectedBalance =
                IF x = receiver THEN @ + redirected ELSE @]]
     ELSE account[x]]

Deposit(u, r, amount) ==
  /\ Transact(r)
  /\ account' =
       [SettledWith(u, r, account[u][r].interestRedirectionAddress,
                    Interest(r, account[u][r]) + amount)
          EXCEPT ![u][r].principalATokenBalance = @ + amount]

\* Nobody receives interest who redirects his own: bound of the model.
Redirect(u, v, r) ==
  /\ Transact(r)
  /\ u # v /\ account[u][r].principalATokenBalance > 0
  /\ account[u][r].interestRedirectionAddress = None
  /\ account[v][r].interestRedirectionAddress = None
  /\ account[u][r].redirectedBalance = 0
  /\ account' =
       [SettledWith(u, r, v, account[u][r].principalATokenBalance
                               + Interest(r, account[u][r]))
          EXCEPT ![u][r].interestRedirectionAddress = v]

StopRedirecting(u, r) ==
  /\ Transact(r)
  /\ account[u][r].interestRedirectionAddress # None
  /\ account' =
       [SettledWith(u, r, account[u][r].interestRedirectionAddress,
                    -account[u][r].principalATokenBalance)
          EXCEPT ![u][r].interestRedirectionAddress = None]

Worth(r, n) == (n * Config[r].price) \div Config[r].scale

Fee(amount) == (amount + FeeDivisor - 1) \div FeeDivisor

\* What Wallet has pledged covers its debts, more in reserve r, and the fees.
Covered(r, more) ==
  LET power(x) ==
        IF market[x].usageAsCollateralEnabled
           /\ account[Wallet][x].usageAsCollateralEnabledOnUser
        THEN Config[x].ltv * Worth(x, account[Wallet][x].principalATokenBalance)
        ELSE 0
      due(x) == Worth(x, Debt(x, account[Wallet][x]) + account[Wallet][x].originationFee)
  IN  LtvScale * (Worth(r, more) + MapThenSumSet(due, Reserves))
        <= MapThenSumSet(power, Reserves)

\* A loan adds to what Wallet owes, and its fee to the fees.
Borrow(r, mode, amount) ==
  LET a == account[Wallet][r]
  IN  /\ Transact(r)
      /\ Covered(r, amount + Fee(amount))
      /\ account' = [account EXCEPT ![Wallet][r] =
           [a EXCEPT !.principalBorrows = Debt(r, a) + amount,
                     !.originationFee = @ + Fee(amount),
                     !.borrowRateMode = mode,
                     !.borrowRate = IF mode = "Stable" THEN market[r].rates.stable ELSE 0,
                     !.variableBorrowIndex = market'[r].variableBorrowIndex,
                     !.lastUpdateTimestamp = now]]

\* Of everything that is owed, with the fees.
Repay(r) ==
  /\ Transact(r)
  /\ account[Wallet][r].principalBorrows > 0
  /\ account' = [account EXCEPT ![Wallet][r] =
       [@ EXCEPT !.principalBorrows = 0, !.originationFee = 0,
                 !.borrowRateMode = "None", !.borrowRate = 0,
                 !.lastUpdateTimestamp = now]]

\* The protocol's governance stops a reserve from serving as collateral.
DisableCollateral(r) ==
  /\ transactions < MaxTransactions /\ transactions' = transactions + 1
  /\ r \in Moving /\ market[r].usageAsCollateralEnabled
  /\ market' = [market EXCEPT ![r].usageAsCollateralEnabled = FALSE]
  /\ UNCHANGED <<now, account, pool, position, page>>

\* Wallet does, which the contracts allow without debts.
WithdrawCollateral(r) ==
  /\ Transact(r)
  /\ account[Wallet][r].usageAsCollateralEnabledOnUser
  /\ \A x \in Reserves : account[Wallet][x].principalBorrows = 0
  /\ account' = [account EXCEPT ![Wallet][r].usageAsCollateralEnabledOnUser = FALSE]

Chain ==
  \/ Tick
  \/ \E r \in Reserves :
       \/ Touch(r) \/ Repay(r) \/ DisableCollateral(r) \/ WithdrawCollateral(r)
       \/ \E mode \in {"Stable", "Variable"}, amount \in Loans : Borrow(r, mode, amount)
       \/ \E u \in Users : \/ StopRedirecting(u, r)
                           \/ \E amount \in Deposits : Deposit(u, r, amount)
                           \/ \E v \in Users : Redirect(u, v, r)

-----------------------------------------------------------------------------
(* The application: three subscriptions, the last of which is of the past   *)
(* and arrives first, and three pages.                                      *)

FetchPool ==
  /\ pool' = market
  /\ UNCHANGED <<now, transactions, market, account, position, page>>

FetchPosition ==
  /\ position' = account[Wallet]
  /\ UNCHANGED <<now, transactions, market, account, pool, page>>

Turn(p) == /\ page = Blank /\ page' = p
           /\ UNCHANGED <<now, transactions, market, account, pool, position>>

\* formatUserSummaryData, at the application's current time.
Show(lag) == Turn(computeRawUserSummaryData(pool, position, now - lag))

\* What each reserve was at date 0, 30 days ago.
ThirtyDaysAgo == [r \in Reserves |-> [liquidityIndex |-> RAY, variableBorrowIndex |-> RAY,
                                     timestamp |-> 0]]

ShowReserves == Turn([kind |-> "list", reserves |-> formatReserves(pool, ThirtyDaysAgo)])

Simulate(r, amountToDeposit, amountToBorrow, borrowMode) ==
  LET rates == calculateInterestRates(r, pool[r], amountToDeposit, amountToBorrow, borrowMode)
  IN  /\ r \in DOMAIN pool
      /\ Turn([kind |-> "rates", of |-> r, variable |-> rates.variable,
               stable |-> rates.stable, liquidity |-> rates.liquidity])

Close == /\ page # Blank /\ page' = Blank
         /\ UNCHANGED <<now, transactions, market, account, pool, position>>

\* Nothing depends on a page: it is closed before anything else happens.
Next ==
  \/ page = Blank /\ (Chain \/ FetchPool \/ FetchPosition)
  \/ \E lag \in Lags : Show(lag)
  \/ pool # Nothing /\ ShowReserves
  \/ \E r \in Moving : Simulate(r, 0, 0, "variable")
  \/ Close

Spec == Init /\ [][Next]_vars

-----------------------------------------------------------------------------
\* Everything has its type: no shown debt is negative, and what is
\* available is so by the fees at most.
TypeOK ==
  /\ now \in 0..MaxTime /\ transactions \in 0..MaxTransactions
  /\ market \in [Reserves -> Reserve]
  /\ account \in [Users -> [Reserves -> UserReserve]]
  /\ pool = Nothing \/ pool \in [Reserves -> Reserve]
  /\ position = Nothing \/ position \in [Reserves -> UserReserve]
  /\ \/ page \in {Blank, Thrown}
     \/ page.kind = "summary" /\ IsSummary(page)
     \/ page.kind = "list" /\ IsList(page)
     \/ page.kind = "rates" /\ IsRates(page)

\* What the library shows a user who has everything that is on chain.
Balance(u, r) == calculateCurrentUnderlyingBalance(account[u][r], market[r], now)

\* Redirecting interest, ceasing to, and what others do to a reserve changes
\* nobody's shown balance: the contracts settle the accounts, and the library
\* has to read the same balance from the settled ones as from those before.
RedirectingMovesNothing ==
  [][\A r \in Moving :
       (\/ Touch(r)
        \/ \E u \in Users : StopRedirecting(u, r) \/ \E v \in Users : Redirect(u, v, r))
       => \A u \in Users : Balance(u, r)' = Balance(u, r)]_vars

\* Interest that is redirected is shown to one user, its receiver, and to no
\* other: what all are shown beyond their deposits is what all the deposits
\* have earned, whoever earns it, within one unit for each user.
InterestShownOnce ==
  \A r \in Moving :
    LET principal == Total([u \in Users |-> account[u][r].principalATokenBalance], Users)
        shown == Total([u \in Users |-> Balance(u, r)], Users)
        indices == {account[u][r].userBalanceIndex : u \in Users}
        Earned(index) == (principal * NormalizedIncome(r)) \div index - principal
    IN  shown - principal \in (Earned(Max(indices)) - Cardinality(Users))
                              ..(Earned(Min(indices)) + Cardinality(Users))

\* Borrowing what is shown as available, with the fee that the loan adds,
\* leaves a health factor of at least one, rounding included.
AvailableKeepsHealth ==
  page.kind = "summary" =>
    LET loan == page.available \div FeeDivisor
    IN  loan > 0 => healthFactorWithFees(page.collateral, page.borrows + loan,
                                         page.fees + Fee(loan), page.threshold) >= Dp

\* The page again, when n of what it shows of a reserve is no longer there.
AfterWithdrawing(r, n) ==
  summaryOf(pool, position, [page.reserves EXCEPT ![r].balance = @ - n], page.at)

\* So does withdrawing less than is shown as possible, by a unit of ETH, when
\* all that is deposited serves as collateral: the page computed anew, with
\* the thresholds averaged over what remains, shows a health factor of at
\* least one.  Not so for a reserve whose threshold is above the average, as
\* the average then falls: the library offers one amount for all reserves.
WithdrawalKeepsHealth ==
  (/\ page.kind = "summary" /\ page.borrows > 0
   /\ page.liquidity = page.collateral /\ page.maxWithdraw # None) =>
    LET pledged == collateralOf(pool, position)
        weighted == Total([x \in pledged |-> InEth(x, page.reserves[x].balance)
                                              * Config[x].threshold], pledged)
    IN  \A r \in pledged : \A n \in 0..page.reserves[r].balance :
          (/\ Config[r].threshold * page.collateral <= weighted
           /\ n * Config[r].price <= (page.maxWithdraw - 1) * Config[r].scale)
          => AfterWithdrawing(r, n).healthFactor >= Dp

\* A shown debt is the contract's although the snapshot of the reserve is old,
\* if it is stable; a variable debt needs the rate and index of its reserve.
ShownDebts ==
  (page.kind = "summary" /\ page.at = now) =>
    \A r \in DOMAIN position :
      (/\ position[r] = account[Wallet][r]
       /\ position[r].borrowRateMode = "Stable" \/ pool[r] = market[r])
      => page.reserves[r].borrows = Debt(r, account[Wallet][r])

\* An average rate explains the growth of its index since the date of the
\* entry, to the decimals that a quotient keeps, for a reserve that was used
\* since.
AverageExplainsIndex ==
  page.kind = "list" =>
    \A r \in Reserves : \A index \in {"variable", "liquidity"} :
      LET average == page.reserves[r][index]
          dt == pool[r].lastUpdateTimestamp
          grown == IF index = "variable" THEN pool[r].variableBorrowIndex
                   ELSE pool[r].liquidityIndex
          decimals == 1 + (RAY * (dt + 1)) \div (2 * Dp)
      IN  /\ average.kind = "number" <=> dt > 0
          /\ dt > 0 => (RAY * average.is * dt) \div (SECONDS_PER_YEAR * Dp)
                         \in (grown - RAY - decimals)..(grown - RAY + decimals)
=============================================================================
