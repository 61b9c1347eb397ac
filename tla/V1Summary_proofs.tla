-------------------------- MODULE V1Summary_proofs --------------------------
(***************************************************************************)
(* The pages of the first protocol, for any reserves, users, amounts,      *)
(* interest strategies and number of transactions: redirected interest is  *)
(* shown once and moves nothing, shown debts are the contracts', borrowing *)
(* what is shown as available keeps the health factor, and so does         *)
(* withdrawing, from a reserve whose threshold is not above the average.   *)
(***************************************************************************)
EXTENDS V1Summary, PoolMath_proofs

(***************************************************************************)
(* A reserve at time n: its indices are at least one, its rates are those  *)
(* of the strategy for its totals.                                         *)
(***************************************************************************)
ReserveOK(r, m, n) ==
  /\ m \in Reserve
  /\ m.liquidityIndex >= RAY /\ m.variableBorrowIndex >= RAY
  /\ m.lastUpdateTimestamp <= n
  /\ m.totals \in Totals[r] /\ m.rates = StrategyRates(r, m.totals)

StableRates(r) == {0} \cup {StrategyRates(r, t).stable : t \in Totals[r]}

UserReserveOK(r, a, n) ==
  /\ a \in UserReserve
  /\ a.userBalanceIndex >= RAY /\ a.variableBorrowIndex >= RAY
  /\ a.lastUpdateTimestamp <= n
  /\ a.redirectedBalance >= 0
  /\ a.principalBorrows > 0 => a.borrowRateMode # "None"
  /\ a.borrowRate \in StableRates(r)

\* A user settled at an index the reserve has reached.
ChainOK ==
  /\ now \in Nat
  /\ market \in [Reserves -> Reserve]
  /\ \A r \in Reserves : ReserveOK(r, market[r], now)
  /\ account \in [Users -> [Reserves -> UserReserve]]
  /\ \A u \in Users : \A r \in Reserves :
       /\ UserReserveOK(r, account[u][r], now)
       /\ account[u][r].userBalanceIndex <= market[r].liquidityIndex

(***************************************************************************)
(* Whoever redirects has a deposit and redirects it to somebody who does   *)
(* not: no chains.  What is redirected to a user is what others redirect.  *)
(***************************************************************************)
Address(u, r) == account[u][r].interestRedirectionAddress
Principal(u, r) == account[u][r].principalATokenBalance
Received(u, r) == account[u][r].redirectedBalance

NoChains ==
  \A r \in Reserves : \A u \in Users :
    Address(u, r) # None => /\ Address(u, r) # u /\ Principal(u, r) > 0
                            /\ Address(Address(u, r), r) = None

RedirectedTo(v, r) == [u \in Users |-> IF Address(u, r) = v THEN Principal(u, r) ELSE 0]

ReceivedIsRedirected ==
  \A r \in Reserves : \A v \in Users : Received(v, r) = Total(RedirectedTo(v, r), Users)

AllReceived(r) == [u \in Users |-> Received(u, r)]
AllRedirected(r) == [u \in Users |-> IF Address(u, r) = None THEN 0 ELSE Principal(u, r)]

AllAccounted ==
  \A r \in Reserves : Total(AllReceived(r), Users) = Total(AllRedirected(r), Users)

Redirections == NoChains /\ ReceivedIsRedirected /\ AllAccounted

\* What the application holds was on chain; a page is the computation over it.
SnapshotsOK ==
  /\ \/ pool = Nothing
     \/ /\ pool \in [Reserves -> Reserve]
        /\ \A r \in Reserves : ReserveOK(r, pool[r], now)
  /\ \/ position = Nothing
     \/ /\ position \in [Reserves -> UserReserve]
        /\ \A r \in Reserves : UserReserveOK(r, position[r], now)

SimulatedRates(r) ==
  LET rates == calculateInterestRates(r, pool[r], 0, 0, "variable")
  IN  [kind |-> "rates", of |-> r, variable |-> rates.variable, stable |-> rates.stable,
       liquidity |-> rates.liquidity]

PageIsComputed ==
  \/ page = Blank
  \/ \E lag \in Lags : page = computeRawUserSummaryData(pool, position, now - lag)
  \/ pool # Nothing /\ page = [kind |-> "list", reserves |-> formatReserves(pool, ThirtyDaysAgo)]
  \/ \E r \in Moving : r \in DOMAIN pool /\ page = SimulatedRates(r)

IInv == ChainOK /\ Redirections /\ SnapshotsOK /\ PageIsComputed

-----------------------------------------------------------------------------
(* What a deposit has grown to.                                            *)

Cumulated(b, income, index) == rayToWad(rayDiv(rayMul(wadToRay(b), income), index))

\* Three roundings, of which the last is a thousandth of a wad or more: what a
\* deposit has grown to is within one unit of b * income / index.
LEMMA CumulatedBounds ==
  ASSUME NEW b \in Nat, NEW income \in Nat, NEW index \in Nat, index >= RAY
  PROVE  /\ Cumulated(b, income, index) \in Nat
         /\ index * Cumulated(b, income, index) <= b * income + index
         /\ b * income <= index * Cumulated(b, income, index) + index
<1> DEFINE W == WAD_RAY_RATIO
           x == index
           p == b * income
           B == wadToRay(b)
           m == rayMul(B, income)
           d == rayDiv(m, index)
           c == rayToWad(d)
<1>0. W \in Nat /\ W >= 2 /\ RAY \in Nat /\ RAY > 0 /\ x \in Nat \ {0} /\ x >= RAY
  BY RayAssumption
<1>1. B \in Nat /\ p \in Nat /\ B * income = W * p
  BY <1>0 DEF wadToRay
<1> HIDE DEF B
<1>2. m \in Nat /\ 2 * (RAY * m) <= 2 * (B * income) + RAY
      /\ 2 * (B * income) < 2 * (RAY * m) + RAY
  BY <1>1, RayMulBounds
<1> HIDE DEF m
<1>3. d \in Nat /\ 2 * (x * d) <= 2 * (m * RAY) + x /\ 2 * (m * RAY) <= 2 * (x * d) + x
  BY <1>0, <1>2, RayDivBounds
<1> HIDE DEF d
<1>4. c \in Nat /\ 2 * (W * c) <= 2 * d + W /\ 2 * d < 2 * (W * c) + W
  BY <1>3, RayToWadBounds
<1>5. Cumulated(b, income, index) = c
  BY DEF Cumulated, B, m, d
<1> HIDE DEF c, W, x, p
<1> DEFINE q == W * p
           xc == x * c
           xd == x * d
           xw == x * W
           rm == RAY * m
<1>6. /\ q \in Nat /\ xc \in Nat /\ xd \in Nat /\ xw \in Nat /\ rm \in Nat
      /\ m * RAY = rm /\ x * (W * c) = W * xc /\ W * xc \in Nat
      /\ xw >= 2 * x
  BY <1>0, <1>1, <1>2, <1>3, <1>4
<1>7. 2 * rm <= 2 * q + RAY /\ 2 * q < 2 * rm + RAY
  BY <1>1, <1>2
<1>8. 2 * xd <= 2 * rm + x /\ 2 * rm <= 2 * xd + x
  BY <1>3, <1>6
<1>9. 2 * (W * xc) <= 2 * xd + xw /\ 2 * xd <= 2 * (W * xc) + xw
  <2>1. x * (2 * (W * c)) <= x * (2 * d + W) /\ x * (2 * d) <= x * (2 * (W * c) + W)
    <3> DEFINE k == W * c
    <3>1. k \in Nat
      BY <1>0, <1>4
    <3> HIDE DEF k
    <3>2. 2 * k <= 2 * d + W /\ 2 * d <= 2 * k + W
      BY <1>0, <1>3, <1>4, <3>1 DEF k
    <3>3. x * (2 * k) <= x * (2 * d + W) /\ x * (2 * d) <= x * (2 * k + W)
      BY <1>0, <1>3, <3>1, <3>2
    <3> QED BY <3>3 DEF k
  <2>2. /\ x * (2 * (W * c)) = 2 * (x * (W * c)) /\ x * (2 * d + W) = 2 * xd + xw
        /\ x * (2 * d) = 2 * xd /\ x * (2 * (W * c) + W) = 2 * (x * (W * c)) + xw
    BY <1>0, <1>3, <1>4
  <2> QED BY <1>6, <2>1, <2>2
<1> HIDE DEF q, xc, xd, xw, rm
<1>10. W * xc <= q + xw /\ q <= W * xc + xw
  BY <1>0, <1>6, <1>7, <1>8, <1>9
<1>11. xc <= p + x /\ p <= xc + x
  <2>1. q = W * p /\ xw = W * x
    BY <1>0 DEF q, xw
  <2>2. W * (p + x - xc) >= 0 /\ W * (xc + x - p) >= 0
    <3>1. W * (p + x - xc) = W * p + W * x - W * xc
          /\ W * (xc + x - p) = W * xc + W * x - W * p
      BY <1>0, <1>1, <1>6
    <3>2. W * p \in Int /\ W * x \in Int /\ W * xc \in Int
      BY <1>0, <1>1, <1>6
    <3> QED BY <1>10, <2>1, <3>1, <3>2
  <2>3. p + x - xc \in Int /\ xc + x - p \in Int
    BY <1>0, <1>1, <1>6
  <2>4. p + x - xc >= 0 /\ xc + x - p >= 0
    BY <1>0, <2>2, <2>3
  <2> QED BY <1>0, <1>1, <1>6, <2>4
<1> QED BY <1>4, <1>5, <1>11 DEF xc, x, p

\* Nothing grows to nothing, at its own index a deposit is what it was, and
\* at a later one no less.
LEMMA CumulatedKeeps ==
  ASSUME NEW b \in Nat, NEW income \in Nat, NEW index \in Nat, index >= RAY,
         income >= index
  PROVE  /\ Cumulated(b, index, index) = b
         /\ Cumulated(b, income, index) >= b
<1> DEFINE B == wadToRay(b)
<1>1. B \in Nat /\ rayToWad(B) = b
  BY RayToWadOfWad
<1> HIDE DEF B
<1>2. rayDiv(rayMul(B, index), index) = B
  BY <1>1, RayDivOfProduct
<1>3. index \in Nat \ {0} /\ WAD_RAY_RATIO \in Nat \ {0} /\ WAD_RAY_RATIO \div 2 \in Nat
  BY RayAssumption
<1>4. rayMul(B, index) \in Nat /\ rayMul(B, income) \in Nat
      /\ rayMul(B, index) <= rayMul(B, income)
  <2>1. B <= B
    BY <1>1
  <2> QED BY <1>1, <2>1, RayMulNat, RayMulMonotone
<1> DEFINE x == rayMul(B, income)
           d == rayDiv(x, index)
<1>5. d \in Nat /\ B <= d
  <2>1. rayDiv(rayMul(B, index), index) <= d
    BY <1>3, <1>4, RayDivMonotone
  <2>2. x <= x
    BY <1>4
  <2>3. d \in Nat
    BY <1>3, <1>4, <2>2, RayDivMonotone
  <2> QED BY <1>2, <2>1, <2>3
<1> HIDE DEF x, d
<1>6. rayToWad(B) <= rayToWad(d)
  <2> DEFINE V == WAD_RAY_RATIO \div 2
  <2> HIDE DEF V
  <2>1. V + B \in Int /\ V + d \in Int /\ V + B <= V + d
    BY <1>1, <1>3, <1>5 DEF V
  <2>2. DivDown(V + B, WAD_RAY_RATIO) <= DivDown(V + d, WAD_RAY_RATIO)
    BY <1>3, <2>1, DivDownMonotone
  <2> QED BY <2>2 DEF rayToWad, V
<1>7. Cumulated(b, index, index) = b
  BY <1>1, <1>2 DEF Cumulated, B
<1>8. Cumulated(b, income, index) = rayToWad(d)
  BY DEF Cumulated, B, d, x
<1> QED BY <1>1, <1>6, <1>7, <1>8

LEMMA CumulatedNothing ==
  ASSUME NEW income \in Nat, NEW index \in Nat, index >= RAY
  PROVE  Cumulated(0, income, index) = 0
<1>1. index \in Nat \ {0} /\ RAY \in Nat \ {0} /\ HALF_RAY \in Nat /\ HALF_RAY < RAY
      /\ WAD_RAY_RATIO \in Nat \ {0} /\ RAY \in Nat
  BY RayAssumption, HalfRay
<1>2. wadToRay(0) = 0
  BY <1>1 DEF wadToRay
<1>3. rayMul(0, income) = 0
  <2>1. HALF_RAY \div RAY = 0 /\ 0 * income = 0
    BY <1>1
  <2> QED BY <1>1, <2>1 DEF rayMul, DivDown
<1>4. rayDiv(0, index) = 0
  <2>1. index \div 2 \in Nat /\ index \div 2 < index /\ 0 * RAY = 0
    BY <1>1
  <2>2. (index \div 2) \div index = 0
    BY <1>1, <2>1
  <2> QED BY <1>1, <2>1, <2>2 DEF rayDiv, DivDown
<1>5. rayToWad(0) = 0
  <2>1. WAD_RAY_RATIO \div 2 \in Nat /\ WAD_RAY_RATIO \div 2 < WAD_RAY_RATIO
    BY <1>1
  <2>2. (WAD_RAY_RATIO \div 2) \div WAD_RAY_RATIO = 0
    BY <1>1, <2>1
  <2> QED BY <2>1, <2>2 DEF rayToWad, DivDown
<1> QED BY <1>2, <1>3, <1>4, <1>5 DEF Cumulated

\* The rates of a strategy are natural: no use is above one.
LEMMA StrategyRatesNat ==
  ASSUME NEW r \in Reserves, NEW t \in Totals[r]
  PROVE  StrategyRates(r, t) \in [liquidity : Nat, variable : Nat, stable : Nat]
<1> DEFINE c == Config[r]
           use == rayDiv(t.stable + t.variable, t.liquidity)
           above == rayDiv(use - c.optimal, RAY - c.optimal)
           below == rayDiv(use, c.optimal)
           Sloped(slope1, slope2) == IF use > c.optimal THEN slope1 + rayMul(slope2, above)
                                     ELSE rayMul(slope1, below)
           variable == c.base + Sloped(c.variableSlope1, c.variableSlope2)
<1>1. /\ c \in Factors /\ c.optimal \in 2..(RAY - 1)
      /\ t \in [liquidity : Nat \ {0}, stable : Nat, variable : Nat]
  BY V1Assumption
<1>2. RAY - c.optimal \in Nat \ {0} /\ c.optimal \in Nat \ {0}
  BY <1>1, RayAssumption
<1>3. t.stable + t.variable \in Nat /\ t.liquidity \in Nat \ {0}
  BY <1>1
<1>4. use \in Nat
  <2> DEFINE n == t.stable + t.variable
  <2>1. n <= n
    BY <1>3
  <2> HIDE DEF n
  <2> QED BY <1>3, <2>1, RayDivMonotone DEF n
<1> HIDE DEF use
<1>5. use > c.optimal => above \in Nat
  <2> SUFFICES ASSUME use > c.optimal PROVE above \in Nat
    OBVIOUS
  <2> DEFINE n == use - c.optimal
  <2>1. n \in Nat /\ n <= n
    BY <1>2, <1>4
  <2> HIDE DEF n
  <2> QED BY <1>2, <2>1, RayDivMonotone DEF n
<1>6. below \in Nat
  <2>1. use <= use
    BY <1>4
  <2> QED BY <1>2, <1>4, <2>1, RayDivMonotone
<1> HIDE DEF above, below
<1>7. ASSUME NEW a \in Nat, NEW b \in Nat PROVE Sloped(a, b) \in Nat
  <2>1. rayMul(a, below) \in Nat
    BY <1>6, RayMulNat
  <2>2. use > c.optimal => rayMul(b, above) \in Nat
    BY <1>5, RayMulNat
  <2> QED BY <2>1, <2>2
<1> HIDE DEF Sloped
<1>8. /\ c.base \in Nat /\ c.variableSlope1 \in Nat /\ c.variableSlope2 \in Nat
      /\ c.stableSlope1 \in Nat /\ c.stableSlope2 \in Nat /\ c.marketStable \in Nat
  BY <1>1 DEF Factors
<1>9. /\ variable \in Nat /\ c.marketStable + Sloped(c.stableSlope1, c.stableSlope2) \in Nat
  <2>1. Sloped(c.variableSlope1, c.variableSlope2) \in Nat
        /\ Sloped(c.stableSlope1, c.stableSlope2) \in Nat
    BY <1>7, <1>8
  <2> QED BY <1>8, <2>1
<1> HIDE DEF variable
<1>10. rayMul(variable, use) \in Nat
  BY <1>4, <1>9, RayMulNat
<1>11. StrategyRates(r, t) =
         [variable |-> variable,
          stable |-> c.marketStable + Sloped(c.stableSlope1, c.stableSlope2),
          liquidity |-> rayMul(variable, use)]
  BY DEF StrategyRates, variable, Sloped, use, above, below
<1> HIDE DEF c
<1> QED BY <1>9, <1>10, <1>11

-----------------------------------------------------------------------------
(* The chain.                                                              *)

\* What the operators of the model compute, as growth of a deposit.
LEMMA CumulatedBalance ==
  ASSUME NEW balance, NEW userReserve, NEW poolReserve, NEW t
  PROVE  calculateCumulatedBalance(balance, userReserve, poolReserve, t) =
         Cumulated(balance, getReserveNormalizedIncome(poolReserve.rates.liquidity,
                     poolReserve.liquidityIndex, poolReserve.lastUpdateTimestamp, t),
                   userReserve.userBalanceIndex)
BY DEF calculateCumulatedBalance, Cumulated

\* The interest that settling adds is what the deposit has grown by.
LEMMA InterestIsGrowth ==
  ASSUME NEW r, NEW a
  PROVE  Interest(r, a) =
           Cumulated(Earning(a), NormalizedIncome(r), a.userBalanceIndex) - Earning(a)
BY DEF Interest, Cumulated

LEMMA NormalizedIncomeNat ==
  ASSUME ChainOK, NEW r \in Reserves
  PROVE  /\ NormalizedIncome(r) \in Nat
         /\ NormalizedIncome(r) >= market[r].liquidityIndex
         /\ NormalizedIncome(r) >= RAY
<1>1. /\ market[r] \in Reserve /\ market[r].liquidityIndex >= RAY
      /\ market[r].lastUpdateTimestamp <= now /\ now \in Nat
  BY DEF ChainOK, ReserveOK
<1>2. /\ market[r].liquidityIndex \in Nat /\ market[r].rates.liquidity \in Nat
      /\ market[r].lastUpdateTimestamp \in Int /\ now \in Int
  BY <1>1 DEF Reserve
<1>3. /\ NormalizedIncome(r) \in Nat
      /\ NormalizedIncome(r) >= market[r].liquidityIndex
  BY <1>1, <1>2, IncomeAtLeast DEF NormalizedIncome
<1> QED BY <1>1, <1>2, <1>3, RayAssumption

\* The rates and indices a reserve gets in a transaction.
LEMMA TransactKeeps ==
  ASSUME ChainOK, NEW r \in Reserves, Transact(r)
  PROVE  /\ now' = now /\ pool' = pool /\ position' = position /\ page' = page
         /\ market' \in [Reserves -> Reserve]
         /\ \A x \in Reserves : ReserveOK(x, market'[x], now')
         /\ \A x \in Reserves : x # r => market'[x] = market[x]
         /\ market'[r].liquidityIndex = NormalizedIncome(r)
         /\ market'[r].variableBorrowIndex \in Nat
         /\ market'[r].variableBorrowIndex >= RAY
         /\ market'[r].lastUpdateTimestamp = now
         /\ \A x \in Reserves : market'[x].liquidityIndex >= market[x].liquidityIndex
<1> DEFINE m == market[r]
           v == rayMul(calculateCompoundedInterest(m.rates.variable, now,
                                                   m.lastUpdateTimestamp),
                       m.variableBorrowIndex)
<1>1. PICK t \in Totals[r] :
        market' = [market EXCEPT ![r] =
          [m EXCEPT !.liquidityIndex = NormalizedIncome(r), !.variableBorrowIndex = v,
                    !.totals = t, !.rates = StrategyRates(r, t),
                    !.lastUpdateTimestamp = now]]
  BY DEF Transact
<1>2. /\ market \in [Reserves -> Reserve] /\ m \in Reserve /\ now \in Nat
      /\ m.lastUpdateTimestamp <= now /\ m.variableBorrowIndex >= RAY
  BY DEF ChainOK, ReserveOK
<1>3. /\ m.rates.variable \in Nat /\ m.variableBorrowIndex \in Nat
      /\ m.lastUpdateTimestamp \in Int /\ now \in Int /\ now <= now
  BY <1>2 DEF Reserve
<1>4. v \in Nat /\ v >= RAY
  <2>1. v \in Nat /\ v >= m.variableBorrowIndex
    BY <1>2, <1>3, DebtFactorMonotone
  <2> QED BY <1>2, <1>3, <2>1, RayAssumption
<1> HIDE DEF v
<1>5. NormalizedIncome(r) \in Nat /\ NormalizedIncome(r) >= RAY
      /\ NormalizedIncome(r) >= m.liquidityIndex
  BY NormalizedIncomeNat
<1>6. StrategyRates(r, t) \in [liquidity : Nat, variable : Nat, stable : Nat]
      /\ t \in AllTotals
  BY StrategyRatesNat DEF AllTotals
<1> DEFINE n == [m EXCEPT !.liquidityIndex = NormalizedIncome(r),
                          !.variableBorrowIndex = v, !.totals = t,
                          !.rates = StrategyRates(r, t), !.lastUpdateTimestamp = now]
<1>7. /\ n \in Reserve /\ n.liquidityIndex = NormalizedIncome(r)
      /\ n.variableBorrowIndex = v /\ n.totals = t /\ n.rates = StrategyRates(r, t)
      /\ n.lastUpdateTimestamp = now
  BY <1>2, <1>4, <1>5, <1>6 DEF Reserve
<1>8. market' = [market EXCEPT ![r] = n]
  BY <1>1
<1> HIDE DEF n, m
<1>9. /\ market' \in [Reserves -> Reserve] /\ market'[r] = n
      /\ \A x \in Reserves : x # r => market'[x] = market[x]
  BY <1>2, <1>7, <1>8
<1>10. now' = now /\ pool' = pool /\ position' = position /\ page' = page
  BY DEF Transact
<1>11. ReserveOK(r, n, now)
  BY <1>2, <1>4, <1>5, <1>7 DEF ReserveOK
<1>12. ASSUME NEW x \in Reserves
       PROVE  ReserveOK(x, market'[x], now')
  BY <1>9, <1>10, <1>11 DEF ChainOK
<1>13. ASSUME NEW x \in Reserves
       PROVE  market'[x].liquidityIndex >= market[x].liquidityIndex
  <2>1. CASE x = r
    BY <1>5, <1>7, <1>9, <2>1 DEF m
  <2>2. CASE x # r
    <3>1. market[x].liquidityIndex \in Nat
      BY <1>2 DEF Reserve
    <3> QED BY <1>9, <2>2, <3>1
  <2> QED BY <2>1, <2>2
<1> QED BY <1>4, <1>7, <1>9, <1>10, <1>12, <1>13

\* A transaction leaves the income of its reserve as it was.
LEMMA TransactKeepsIncome ==
  ASSUME ChainOK, NEW r \in Reserves, Transact(r)
  PROVE  NormalizedIncome(r)' = NormalizedIncome(r)
<1>1. /\ now' = now /\ market' \in [Reserves -> Reserve]
      /\ market'[r].liquidityIndex = NormalizedIncome(r)
      /\ market'[r].lastUpdateTimestamp = now
  BY TransactKeeps
<1>2. market'[r].rates.liquidity \in Nat /\ now \in Int
  BY <1>1 DEF Reserve, ChainOK
<1>3. NormalizedIncome(r) \in Nat
  BY NormalizedIncomeNat
<1> DEFINE rate == market'[r].rates.liquidity
           index == NormalizedIncome(r)
<1>4. NormalizedIncome(r)' = getReserveNormalizedIncome(rate, index, now, now)
  BY <1>1 DEF NormalizedIncome
<1> HIDE DEF rate, index
<1>5. getReserveNormalizedIncome(rate, index, now, now) = index
  BY <1>2, <1>3, IncomeNow DEF rate, index
<1> QED BY <1>4, <1>5 DEF index

\* What a user earns on, and what he has earned.
LEMMA InterestNat ==
  ASSUME ChainOK, NEW u \in Users, NEW r \in Reserves
  PROVE  /\ account[u][r] \in UserReserve
         /\ Earning(account[u][r]) \in Nat
         /\ Interest(r, account[u][r]) \in Nat
         /\ Earning(account[u][r]) = 0 => Interest(r, account[u][r]) = 0
<1> DEFINE a == account[u][r]
<1>1. /\ a \in UserReserve /\ a.userBalanceIndex >= RAY /\ a.redirectedBalance >= 0
      /\ a.userBalanceIndex <= market[r].liquidityIndex /\ market[r] \in Reserve
  BY DEF ChainOK, UserReserveOK
<1> HIDE DEF a
<1>2. /\ a.userBalanceIndex \in Nat /\ a.redirectedBalance \in Nat
      /\ a.principalATokenBalance \in Nat /\ market[r].liquidityIndex \in Nat
  BY <1>1 DEF UserReserve, Reserve
<1>3. Earning(a) \in Nat
  BY <1>2 DEF Earning
<1>4. NormalizedIncome(r) \in Nat /\ NormalizedIncome(r) >= a.userBalanceIndex
  BY <1>1, <1>2, NormalizedIncomeNat
<1> DEFINE E == Earning(a)
           I == NormalizedIncome(r)
           x == a.userBalanceIndex
<1> HIDE DEF E, I, x
<1>5. Cumulated(E, I, x) \in Nat /\ Cumulated(E, I, x) >= E
  <2>1. E \in Nat /\ I \in Nat /\ x \in Nat /\ x >= RAY /\ I >= x
    BY <1>1, <1>2, <1>3, <1>4 DEF E, I, x
  <2>2. Cumulated(E, I, x) \in Nat
    BY <2>1, CumulatedBounds
  <2>3. Cumulated(E, I, x) >= E
    BY <2>1, CumulatedKeeps
  <2> QED BY <2>2, <2>3
<1>6. E = 0 => Cumulated(E, I, x) = 0
  BY <1>1, <1>2, <1>4, CumulatedNothing DEF I, x
<1>7. Interest(r, a) = Cumulated(E, I, x) - E
  BY InterestIsGrowth DEF E, I, x
<1> QED BY <1>1, <1>3, <1>5, <1>6, <1>7 DEF E, a

(***************************************************************************)
(* Two accounts of one reserve settle at most: u's and that of whoever     *)
(* receives its interest.                                                  *)
(***************************************************************************)
SameDebts(b, a) ==
  /\ b.borrowRateMode = a.borrowRateMode /\ b.principalBorrows = a.principalBorrows
  /\ b.variableBorrowIndex = a.variableBorrowIndex /\ b.borrowRate = a.borrowRate
  /\ b.lastUpdateTimestamp = a.lastUpdateTimestamp

\* What settling makes of one account, whose redirected balance changes by d
\* and deposit by e.
SettledBy(b, a, r, d, e) ==
  /\ b \in UserReserve
  /\ b.principalATokenBalance = a.principalATokenBalance + Interest(r, a) + e
  /\ b.userBalanceIndex = NormalizedIncome(r)
  /\ b.redirectedBalance = a.redirectedBalance + d
  /\ SameDebts(b, a)

LEMMA SettledWithGives ==
  ASSUME ChainOK, NEW u \in Users, NEW w \in Users \cup {None}, NEW r \in Reserves,
         NEW d \in Int
  PROVE  LET S == SettledWith(u, r, w, d) IN
         /\ S \in [Users -> [Reserves -> UserReserve]]
         /\ \A x \in Users : \A y \in Reserves :
              (y # r \/ x \notin {u, w}) => S[x][y] = account[x][y]
         /\ \A x \in {u, w} \cap Users :
              /\ SettledBy(S[x][r], account[x][r], r, IF x = w THEN d ELSE 0, 0)
              /\ S[x][r].interestRedirectionAddress = Address(x, r)
<1> DEFINE S == SettledWith(u, r, w, d)
           one(x) == [Settled(r, account[x][r]) EXCEPT !.redirectedBalance =
                        IF x = w THEN @ + d ELSE @]
<1>0. /\ account \in [Users -> [Reserves -> UserReserve]]
      /\ NormalizedIncome(r) \in Nat \ {0}
  BY NormalizedIncomeNat, RayAssumption DEF ChainOK
<1>1. ASSUME NEW x \in Users
      PROVE  /\ one(x) \in UserReserve
             /\ SettledBy(one(x), account[x][r], r, IF x = w THEN d ELSE 0, 0)
             /\ one(x).interestRedirectionAddress = Address(x, r)
  <2> DEFINE a == account[x][r]
             i == Interest(r, a)
             n == NormalizedIncome(r)
             p == a.principalATokenBalance + i
             q == IF x = w THEN a.redirectedBalance + d ELSE a.redirectedBalance
  <2>1. a \in UserReserve /\ i \in Nat /\ n \in Nat \ {0}
    BY <1>0, InterestNat
  <2> HIDE DEF i, n
  <2>2. one(x) = [a EXCEPT !.principalATokenBalance = p, !.userBalanceIndex = n,
                           !.redirectedBalance = q]
    BY <2>1 DEF Settled, UserReserve, i, n
  <2> HIDE DEF a
  <2>3. p \in Nat /\ q \in Int /\ p = a.principalATokenBalance + i + 0
        /\ q = a.redirectedBalance + (IF x = w THEN d ELSE 0)
    BY <2>1 DEF UserReserve
  <2> HIDE DEF p, q, one
  <2>4. /\ one(x) \in UserReserve
        /\ one(x).principalATokenBalance = p /\ one(x).userBalanceIndex = n
        /\ one(x).redirectedBalance = q
        /\ SameDebts(one(x), a)
        /\ one(x).interestRedirectionAddress = a.interestRedirectionAddress
    BY <2>1, <2>2, <2>3 DEF UserReserve, SameDebts
  <2>5. /\ one(x) \in UserReserve
        /\ one(x).principalATokenBalance = a.principalATokenBalance + i + 0
        /\ one(x).userBalanceIndex = n
        /\ one(x).redirectedBalance = a.redirectedBalance + (IF x = w THEN d ELSE 0)
        /\ SameDebts(one(x), a)
        /\ one(x).interestRedirectionAddress = a.interestRedirectionAddress
    BY ONLY <2>3, <2>4
  <2> QED BY ONLY <2>5 DEF SettledBy, Address, a, i, n
<1>2. S = [x \in Users |-> IF x = u \/ x = w THEN [account[x] EXCEPT ![r] = one(x)]
                           ELSE account[x]]
  BY DEF SettledWith
<1> HIDE DEF S, one
<1>3. S \in [Users -> [Reserves -> UserReserve]]
  BY <1>0, <1>1, <1>2
<1>4. ASSUME NEW x \in Users, NEW y \in Reserves, y # r \/ x \notin {u, w}
      PROVE  S[x][y] = account[x][y]
  BY <1>0, <1>2, <1>4
<1>5. ASSUME NEW x \in {u, w} \cap Users
      PROVE  S[x][r] = one(x)
  BY <1>0, <1>2
<1> QED BY <1>1, <1>3, <1>4, <1>5 DEF S

\* A deposit is added to what is redirected with it.
LEMMA DepositGives ==
  ASSUME IInv, NEW u \in Users, NEW r \in Reserves, NEW amount \in Nat,
         Deposit(u, r, amount)
  PROVE  LET w == Address(u, r) IN
         /\ Transact(r)
         /\ w \in Users \cup {None} /\ w # u
         /\ account' \in [Users -> [Reserves -> UserReserve]]
         /\ \A x \in Users : \A y \in Reserves :
              (y # r \/ x \notin {u, w}) => account'[x][y] = account[x][y]
         /\ SettledBy(account'[u][r], account[u][r], r, 0, amount)
         /\ account'[u][r].interestRedirectionAddress = w
         /\ w # None =>
              /\ SettledBy(account'[w][r], account[w][r], r,
                           Interest(r, account[u][r]) + amount, 0)
              /\ account'[w][r].interestRedirectionAddress = Address(w, r)
<1> DEFINE w == Address(u, r)
           d == Interest(r, account[u][r]) + amount
           S == SettledWith(u, r, w, d)
<1>1. w \in Users \cup {None} /\ w # u /\ d \in Int
  BY InterestNat, V1Assumption DEF IInv, Redirections, NoChains, Address, UserReserve
<1>2. account' = [S EXCEPT ![u][r].principalATokenBalance = @ + amount] /\ Transact(r)
  BY DEF Deposit, Address
<1> HIDE DEF w, d
<1>0. ChainOK
  BY DEF IInv
<1>3. /\ S \in [Users -> [Reserves -> UserReserve]]
      /\ \A x \in Users : \A y \in Reserves :
           (y # r \/ x \notin {u, w}) => S[x][y] = account[x][y]
      /\ \A x \in {u, w} \cap Users :
           /\ SettledBy(S[x][r], account[x][r], r, IF x = w THEN d ELSE 0, 0)
           /\ S[x][r].interestRedirectionAddress = Address(x, r)
  BY <1>0, <1>1, SettledWithGives
<1> HIDE DEF S
<1> DEFINE a == S[u][r]
           b == [a EXCEPT !.principalATokenBalance = @ + amount]
<1>4. /\ a \in UserReserve /\ SettledBy(a, account[u][r], r, 0, 0)
      /\ a.interestRedirectionAddress = Address(u, r)
  BY <1>1, <1>3
<1>5. account' = [S EXCEPT ![u] = [S[u] EXCEPT ![r] = b]]
  BY <1>2, <1>3
<1> HIDE DEF a
<1>6. b \in UserReserve /\ SettledBy(b, account[u][r], r, 0, amount)
      /\ b.interestRedirectionAddress = Address(u, r)
  <2>1. /\ b \in UserReserve /\ SameDebts(b, a)
        /\ b.principalATokenBalance = a.principalATokenBalance + amount
        /\ b.userBalanceIndex = a.userBalanceIndex
        /\ b.redirectedBalance = a.redirectedBalance
        /\ b.interestRedirectionAddress = a.interestRedirectionAddress
    BY <1>4 DEF UserReserve, SameDebts
  <2> HIDE DEF b
  <2>2. /\ account[u][r].principalATokenBalance \in Int
        /\ Interest(r, account[u][r]) \in Int
    BY InterestNat DEF IInv, UserReserve
  <2> QED BY <1>4, <2>1, <2>2 DEF SettledBy, SameDebts
<1> HIDE DEF b
<1>7. /\ account' \in [Users -> [Reserves -> UserReserve]] /\ account'[u][r] = b
      /\ \A x \in Users : \A y \in Reserves : (x # u \/ y # r) => account'[x][y] = S[x][y]
  BY <1>3, <1>5, <1>6
<1>8. w # None => /\ SettledBy(account'[w][r], account[w][r], r, d, 0)
                  /\ account'[w][r].interestRedirectionAddress = Address(w, r)
  BY <1>1, <1>3, <1>7
<1>9. \A x \in Users : \A y \in Reserves :
        (y # r \/ x \notin {u, w}) => account'[x][y] = account[x][y]
  BY <1>3, <1>7
<1> QED BY <1>1, <1>2, <1>6, <1>7, <1>8, <1>9 DEF w, d

\* Redirecting one's interest gives its receiver the deposit with what it has
\* earned to earn on.
LEMMA RedirectGives ==
  ASSUME IInv, NEW u \in Users, NEW v \in Users, NEW r \in Reserves, Redirect(u, v, r)
  PROVE  /\ Transact(r)
         /\ u # v /\ Address(u, r) = None /\ Address(v, r) = None /\ Received(u, r) = 0
         /\ Principal(u, r) > 0
         /\ account' \in [Users -> [Reserves -> UserReserve]]
         /\ \A x \in Users : \A y \in Reserves :
              (y # r \/ x \notin {u, v}) => account'[x][y] = account[x][y]
         /\ SettledBy(account'[u][r], account[u][r], r, 0, 0)
         /\ account'[u][r].interestRedirectionAddress = v
         /\ SettledBy(account'[v][r], account[v][r], r,
                      Principal(u, r) + Interest(r, account[u][r]), 0)
         /\ account'[v][r].interestRedirectionAddress = None
<1> DEFINE d == Principal(u, r) + Interest(r, account[u][r])
           S == SettledWith(u, r, v, d)
<1>1. d \in Int
  BY InterestNat DEF IInv, Principal, UserReserve
<1>2. /\ account' = [S EXCEPT ![u][r].interestRedirectionAddress = v] /\ Transact(r)
      /\ u # v /\ Address(u, r) = None /\ Address(v, r) = None /\ Received(u, r) = 0
      /\ Principal(u, r) > 0
  BY DEF Redirect, Address, Received, Principal
<1> HIDE DEF d
<1>3. /\ S \in [Users -> [Reserves -> UserReserve]]
      /\ \A x \in Users : \A y \in Reserves :
           (y # r \/ x \notin {u, v}) => S[x][y] = account[x][y]
      /\ \A x \in {u, v} \cap Users :
           /\ SettledBy(S[x][r], account[x][r], r, IF x = v THEN d ELSE 0, 0)
           /\ S[x][r].interestRedirectionAddress = Address(x, r)
  BY <1>1, SettledWithGives DEF IInv
<1> HIDE DEF S
<1> DEFINE a == S[u][r]
           b == [a EXCEPT !.interestRedirectionAddress = v]
<1>4. a \in UserReserve /\ SettledBy(a, account[u][r], r, 0, 0)
  BY <1>2, <1>3
<1>5. account' = [S EXCEPT ![u] = [S[u] EXCEPT ![r] = b]]
  BY <1>2, <1>3
<1> HIDE DEF a
<1>6. b \in UserReserve /\ SettledBy(b, account[u][r], r, 0, 0)
      /\ b.interestRedirectionAddress = v
  BY <1>4 DEF UserReserve, SameDebts, SettledBy
<1> HIDE DEF b
<1>7. /\ account' \in [Users -> [Reserves -> UserReserve]] /\ account'[u][r] = b
      /\ \A x \in Users : \A y \in Reserves : (x # u \/ y # r) => account'[x][y] = S[x][y]
  BY <1>3, <1>5, <1>6
<1>8. /\ SettledBy(account'[v][r], account[v][r], r, d, 0)
      /\ account'[v][r].interestRedirectionAddress = None
  BY <1>2, <1>3, <1>7
<1>9. \A x \in Users : \A y \in Reserves :
        (y # r \/ x \notin {u, v}) => account'[x][y] = account[x][y]
  BY <1>3, <1>7
<1> QED BY <1>2, <1>6, <1>7, <1>8, <1>9 DEF d

\* Ceasing to takes the deposit back from the receiver.
LEMMA StopRedirectingGives ==
  ASSUME IInv, NEW u \in Users, NEW r \in Reserves, StopRedirecting(u, r)
  PROVE  LET w == Address(u, r) IN
         /\ Transact(r)
         /\ w \in Users /\ w # u /\ Address(w, r) = None /\ Principal(u, r) > 0
         /\ account' \in [Users -> [Reserves -> UserReserve]]
         /\ \A x \in Users : \A y \in Reserves :
              (y # r \/ x \notin {u, w}) => account'[x][y] = account[x][y]
         /\ SettledBy(account'[u][r], account[u][r], r, 0, 0)
         /\ account'[u][r].interestRedirectionAddress = None
         /\ SettledBy(account'[w][r], account[w][r], r, -Principal(u, r), 0)
         /\ account'[w][r].interestRedirectionAddress = None
<1> DEFINE w == Address(u, r)
           d == -Principal(u, r)
           S == SettledWith(u, r, w, d)
<1>1. d \in Int
  BY InterestNat DEF IInv, Principal, UserReserve
<1>2. /\ account' = [S EXCEPT ![u][r].interestRedirectionAddress = None] /\ Transact(r)
      /\ w # None
  BY DEF StopRedirecting, Address, Principal
<1>3. w \in Users /\ w # u /\ Address(w, r) = None /\ Principal(u, r) > 0
  BY <1>2, InterestNat DEF IInv, Redirections, NoChains, Address, UserReserve
<1> HIDE DEF w, d
<1>4. /\ S \in [Users -> [Reserves -> UserReserve]]
      /\ \A x \in Users : \A y \in Reserves :
           (y # r \/ x \notin {u, w}) => S[x][y] = account[x][y]
      /\ \A x \in {u, w} \cap Users :
           /\ SettledBy(S[x][r], account[x][r], r, IF x = w THEN d ELSE 0, 0)
           /\ S[x][r].interestRedirectionAddress = Address(x, r)
  BY <1>1, <1>3, SettledWithGives DEF IInv
<1> HIDE DEF S
<1> DEFINE a == S[u][r]
           b == [a EXCEPT !.interestRedirectionAddress = None]
<1>5. a \in UserReserve /\ SettledBy(a, account[u][r], r, 0, 0)
  BY <1>3, <1>4
<1>6. account' = [S EXCEPT ![u] = [S[u] EXCEPT ![r] = b]]
  BY <1>2, <1>4
<1> HIDE DEF a
<1>7. b \in UserReserve /\ SettledBy(b, account[u][r], r, 0, 0)
      /\ b.interestRedirectionAddress = None
  BY <1>5 DEF UserReserve, SameDebts, SettledBy
<1> HIDE DEF b
<1>8. /\ account' \in [Users -> [Reserves -> UserReserve]] /\ account'[u][r] = b
      /\ \A x \in Users : \A y \in Reserves : (x # u \/ y # r) => account'[x][y] = S[x][y]
  BY <1>4, <1>6, <1>7
<1>9. /\ SettledBy(account'[w][r], account[w][r], r, d, 0)
      /\ account'[w][r].interestRedirectionAddress = None
  BY <1>3, <1>4, <1>8
<1>10. \A x \in Users : \A y \in Reserves :
        (y # r \/ x \notin {u, w}) => account'[x][y] = account[x][y]
  BY <1>4, <1>8
<1> QED BY <1>2, <1>3, <1>7, <1>8, <1>9, <1>10 DEF w, d

-----------------------------------------------------------------------------
(* Who receives whose interest.                                            *)

\* The values the redirections are counted from.
LEMMA AccountValues ==
  ASSUME ChainOK, NEW u \in Users, NEW r \in Reserves
  PROVE  /\ Principal(u, r) \in Nat /\ Received(u, r) \in Nat
         /\ Address(u, r) \in Users \cup {None}
BY InterestNat DEF ChainOK, UserReserveOK, Principal, Received, Address, UserReserve

\* The same in the next state.
LEMMA AccountValuesNext ==
  ASSUME ChainOK', NEW u \in Users, NEW r \in Reserves
  PROVE  Principal(u, r)' \in Nat /\ Received(u, r)' \in Nat
<1>1. account'[u][r] \in UserReserve /\ account'[u][r].redirectedBalance >= 0
  BY DEF ChainOK, UserReserveOK
<1> QED BY <1>1 DEF Principal, Received, UserReserve

\* A receiver has received what each of the others redirects to him.
LEMMA ReceiverReceives ==
  ASSUME ChainOK, Redirections, NEW r \in Reserves, NEW u \in Users, NEW v \in Users,
         Address(u, r) = v
  PROVE  Received(v, r) >= Principal(u, r) /\ Received(v, r) > 0
<1> DEFINE f == RedirectedTo(v, r)
<1>1. \A x \in Users : f[x] \in Nat
  BY AccountValues DEF RedirectedTo
<1>2. f[u] = Principal(u, r)
  BY DEF RedirectedTo
<1>3. Received(v, r) = Total(f, Users)
  BY DEF Redirections, ReceivedIsRedirected
<1> HIDE DEF f
<1>4. IsFiniteSet(Users) /\ Users \in SUBSET Users /\ \A x \in Users : f[x] \in Int
  BY <1>1, V1Assumption
<1>5. Total(f, Users) = f[u] + Total(f, Users \ {u})
  BY <1>4, TotalTakes
<1>6. Total(f, Users \ {u}) \in Nat
  <2>1. IsFiniteSet(Users \ {u})
    BY <1>4, FS_Subset
  <2> QED BY <1>1, <2>1, TotalNat
<1>7. Principal(u, r) \in Nat /\ Principal(u, r) > 0
  BY AccountValues, V1Assumption DEF Redirections, NoChains
<1> QED BY <1>2, <1>3, <1>5, <1>6, <1>7

\* Whoever redirects has nobody redirect to him, and earns nothing himself.
LEMMA RedirectorEarnsNothing ==
  ASSUME ChainOK, Redirections, NEW r \in Reserves, NEW u \in Users, Address(u, r) # None
  PROVE  /\ Received(u, r) = 0 /\ Earning(account[u][r]) = 0
         /\ Interest(r, account[u][r]) = 0
<1> DEFINE f == RedirectedTo(u, r)
           z == [x \in Users |-> 0]
<1>1. \A x \in Users : f[x] = 0
  <2> SUFFICES ASSUME NEW x \in Users, Address(x, r) = u PROVE FALSE
    BY DEF RedirectedTo
  <2>1. Address(x, r) # None
    BY V1Assumption
  <2>2. Address(u, r) = None
    BY <2>1 DEF Redirections, NoChains
  <2> QED BY <2>2
<1> HIDE DEF f
<1>2. IsFiniteSet(Users)
  BY V1Assumption
<1>3. Total(f, Users) = 0
  <2> DEFINE one == 1
             none == 0
  <2>1. /\ one \in Int /\ none \in Int
        /\ \A x \in Users : f[x] \in Int /\ one * f[x] <= none * f[x] + none
    BY <1>1
  <2> HIDE DEF one, none
  <2>2. /\ Cardinality(Users) \in Nat /\ Total(f, Users) \in Int
        /\ one * Total(f, Users) <= none * Total(f, Users) + none * Cardinality(Users)
    BY <1>2, <2>1, TotalCompare
  <2>3. Total(f, Users) <= 0
    BY <2>2 DEF one, none
  <2>4. Total(f, Users) \in Nat
    BY <1>1, <1>2, TotalNat
  <2> QED BY <2>3, <2>4
<1>4. Received(u, r) = 0
  BY <1>3 DEF Redirections, ReceivedIsRedirected, f
<1>5. Earning(account[u][r]) = 0
  BY <1>4 DEF Earning, Received, Address
<1> QED BY <1>4, <1>5, InterestNat

(***************************************************************************)
(* One user begins, ceases or adds to redirecting, by k in all, and one    *)
(* receives k more: everything is still accounted for.                     *)
(***************************************************************************)
LEMMA AccountedStep ==
  ASSUME ChainOK, Redirections, ChainOK',
         NEW r \in Reserves, NEW u \in Users, NEW w \in Users \cup {None}, NEW k \in Int,
         \A x \in Users : \A y \in Reserves : y # r => account'[x][y] = account[x][y],
         \A x \in Users \ {u} :
           /\ Address(x, r)' = Address(x, r)
           /\ Address(x, r) # None => Principal(x, r)' = Principal(x, r),
         \A x \in Users : Received(x, r)' = Received(x, r) + (IF x = w THEN k ELSE 0),
         \A x \in Users :
           RedirectedTo(x, r)'[u] = RedirectedTo(x, r)[u] + (IF x = w THEN k ELSE 0),
         AllRedirected(r)'[u] = AllRedirected(r)[u] + k,
         w = None => k = 0
  PROVE  ReceivedIsRedirected' /\ AllAccounted'
<1>0. IsFiniteSet(Users)
  BY V1Assumption
<1>1. ASSUME NEW y \in Reserves, y # r
      PROVE  /\ \A v \in Users : Received(v, y)' = Total(RedirectedTo(v, y), Users)'
             /\ Total(AllReceived(y), Users)' = Total(AllRedirected(y), Users)'
  <2>1. /\ \A v \in Users : RedirectedTo(v, y)' = RedirectedTo(v, y)
        /\ AllReceived(y)' = AllReceived(y) /\ AllRedirected(y)' = AllRedirected(y)
        /\ \A v \in Users : Received(v, y)' = Received(v, y)
    BY <1>1 DEF RedirectedTo, AllReceived, AllRedirected, Address, Principal, Received
  <2>2. /\ \A v \in Users : Total(RedirectedTo(v, y), Users)' = Total(RedirectedTo(v, y), Users)
        /\ Total(AllReceived(y), Users)' = Total(AllReceived(y), Users)
        /\ Total(AllRedirected(y), Users)' = Total(AllRedirected(y), Users)
    BY <2>1
  <2> QED BY <2>1, <2>2 DEF Redirections, ReceivedIsRedirected, AllAccounted
<1>2. ASSUME NEW v \in Users
      PROVE  Received(v, r)' = Total(RedirectedTo(v, r), Users)'
  <2> DEFINE f == RedirectedTo(v, r)
             h == RedirectedTo(v, r)'
             j == IF v = w THEN k ELSE 0
  <2>1. \A x \in Users : f[x] \in Int
    BY AccountValues DEF RedirectedTo
  <2>2. \A x \in Users : h[x] \in Int
    <3>1. \A x \in Users : Principal(x, r)' \in Nat
      BY AccountValuesNext
    <3> QED BY <3>1 DEF RedirectedTo
  <2>3. \A x \in Users \ {u} : h[x] = f[x]
    <3> SUFFICES ASSUME NEW x \in Users \ {u} PROVE h[x] = f[x]
      OBVIOUS
    <3>1. v # None
      BY V1Assumption
    <3> QED BY <3>1 DEF RedirectedTo
  <2>4. h[u] = f[u] + j
    OBVIOUS
  <2>5. Received(v, r) = Total(f, Users) /\ Received(v, r)' = Received(v, r) + j
    BY DEF Redirections, ReceivedIsRedirected
  <2>6. j \in Int
    OBVIOUS
  <2> HIDE DEF f, h, j
  <2>7. Total(h, Users) = Total(f, Users) - f[u] + h[u]
    <3>1. \A x \in Users : f[x] \in Int /\ h[x] \in Int
      BY <2>1, <2>2
    <3> QED BY <1>0, <2>3, <3>1, TotalChanges
  <2>8. Total(f, Users) \in Int
    BY <1>0, <2>1, TotalTakes
  <2>9. Received(v, r)' = Total(h, Users)
    BY <2>1, <2>4, <2>5, <2>6, <2>7, <2>8
  <2> QED BY <2>9 DEF h
<1>3. Total(AllReceived(r), Users)' = Total(AllRedirected(r), Users)'
  <2> DEFINE f == AllReceived(r)
             h == AllReceived(r)'
             p == AllRedirected(r)
             q == AllRedirected(r)'
  <2>1. \A x \in Users : f[x] \in Int /\ p[x] \in Int
    BY AccountValues DEF AllReceived, AllRedirected
  <2>2. \A x \in Users : h[x] \in Int /\ q[x] \in Int
    <3>1. \A x \in Users : Principal(x, r)' \in Nat /\ Received(x, r)' \in Nat
      BY AccountValuesNext
    <3> QED BY <3>1 DEF AllReceived, AllRedirected
  <2>3. \A x \in Users \ {u} : q[x] = p[x]
    BY DEF AllRedirected
  <2>4. q[u] = p[u] + k
    OBVIOUS
  <2>5. Total(f, Users) = Total(p, Users)
    BY DEF Redirections, AllAccounted
  <2>6. \A x \in Users : h[x] = f[x] + (IF x = w THEN k ELSE 0)
    BY DEF AllReceived
  <2> HIDE DEF f, h, p, q
  <2>7. Total(q, Users) = Total(p, Users) - p[u] + q[u]
    <3>1. \A x \in Users : p[x] \in Int /\ q[x] \in Int
      BY <2>1, <2>2
    <3> QED BY <1>0, <2>3, <3>1, TotalChanges
  <2>8. Total(p, Users) \in Int /\ Total(f, Users) \in Int
    BY <1>0, <2>1, TotalTakes
  <2>9. Total(q, Users) = Total(p, Users) + k
    BY <2>1, <2>4, <2>7, <2>8
  <2>10. Total(h, Users) = Total(f, Users) + k
    <3>1. CASE w = None
      <4>1. \A x \in Users : f[x] \in Int /\ h[x] = f[x]
        BY <2>1, <2>6, <3>1, V1Assumption
      <4>2. Total(h, Users) = Total(f, Users)
        BY <1>0, <4>1, TotalAgrees
      <4> QED BY <2>8, <3>1, <4>2
    <3>2. CASE w \in Users
      <4>1. \A x \in Users \ {w} : h[x] = f[x]
        BY <2>1, <2>6
      <4>2. h[w] = f[w] + k
        BY <2>6, <3>2
      <4>3. Total(h, Users) = Total(f, Users) - f[w] + h[w]
        <5>1. \A x \in Users : f[x] \in Int /\ h[x] \in Int
          BY <2>1, <2>2
        <5> QED BY <1>0, <3>2, <4>1, <5>1, TotalChanges
      <4> QED BY <2>1, <2>8, <3>2, <4>2, <4>3
    <3> QED BY <3>1, <3>2
  <2>11. Total(h, Users) = Total(q, Users)
    BY <2>5, <2>8, <2>9, <2>10
  <2> QED BY <2>11 DEF h, q
<1> QED BY <1>1, <1>2, <1>3 DEF ReceivedIsRedirected, AllAccounted

-----------------------------------------------------------------------------
(* Every action keeps the chain's invariant.                               *)

\* Settling keeps a position one that the contracts can hold.
LEMMA SettledOK ==
  ASSUME ChainOK, NEW u \in Users, NEW r \in Reserves, Transact(r), NEW b, NEW d \in Int,
         NEW e \in Int, SettledBy(b, account[u][r], r, d, e), Received(u, r) + d >= 0
  PROVE  /\ UserReserveOK(r, b, now')
         /\ b.userBalanceIndex <= market'[r].liquidityIndex
<1>1. /\ UserReserveOK(r, account[u][r], now) /\ now' = now
      /\ market'[r].liquidityIndex = NormalizedIncome(r)
  BY TransactKeeps DEF ChainOK
<1>2. NormalizedIncome(r) \in Nat /\ NormalizedIncome(r) >= RAY
  BY NormalizedIncomeNat
<1> QED BY <1>1, <1>2 DEF SettledBy, SameDebts, UserReserveOK, Received

\* In reserve r accounts of U change, to what the contracts can hold; the others
\* stay.
OnlyThese(r, U) ==
  /\ \A x \in Users : \A y \in Reserves :
       (y # r \/ x \notin U) => account'[x][y] = account[x][y]
  /\ \A x \in U \cap Users :
       /\ UserReserveOK(r, account'[x][r], now')
       /\ account'[x][r].userBalanceIndex <= market'[r].liquidityIndex

\* Only reserve r of the users in U changes.
LEMMA ChainStep ==
  ASSUME ChainOK, NEW r \in Reserves, Transact(r), NEW U,
         account' \in [Users -> [Reserves -> UserReserve]], OnlyThese(r, U)
  PROVE  ChainOK'
<1>1. /\ now' = now /\ now \in Nat
      /\ market' \in [Reserves -> Reserve] /\ market \in [Reserves -> Reserve]
      /\ \A x \in Reserves : ReserveOK(x, market'[x], now')
      /\ \A x \in Reserves : market'[x].liquidityIndex >= market[x].liquidityIndex
  BY TransactKeeps DEF ChainOK
<1>2. ASSUME NEW x \in Users, NEW y \in Reserves
      PROVE  /\ UserReserveOK(y, account'[x][y], now')
             /\ account'[x][y].userBalanceIndex <= market'[y].liquidityIndex
  <2>1. CASE y = r /\ x \in U
    BY <2>1 DEF OnlyThese
  <2>2. CASE y # r \/ x \notin U
    <3>1. /\ account'[x][y] = account[x][y] /\ UserReserveOK(y, account[x][y], now)
          /\ account[x][y].userBalanceIndex <= market[y].liquidityIndex
      BY <2>2 DEF ChainOK, OnlyThese
    <3>2. /\ account[x][y].userBalanceIndex \in Int /\ market[y].liquidityIndex \in Int
          /\ market'[y].liquidityIndex \in Int
      BY <1>1, <3>1 DEF UserReserveOK, UserReserve, Reserve
    <3> QED BY <1>1, <3>1, <3>2
  <2> QED BY <2>1, <2>2
<1> QED BY <1>1, <1>2 DEF ChainOK

\* Two accounts of reserve r settle, or one.
LEMMA SettlingKeeps ==
  ASSUME ChainOK, NEW u \in Users, NEW r \in Reserves, Transact(r),
         NEW w, NEW d \in Int, NEW e \in Int,
         account' \in [Users -> [Reserves -> UserReserve]],
         \A x \in Users : \A y \in Reserves :
           (y # r \/ x \notin {u, w}) => account'[x][y] = account[x][y],
         SettledBy(account'[u][r], account[u][r], r, 0, e),
         w \in Users => /\ SettledBy(account'[w][r], account[w][r], r, d, 0)
                        /\ Received(w, r) + d >= 0
  PROVE  ChainOK'
<1> DEFINE none == 0
           U == {u, w}
           OK(x) == /\ UserReserveOK(r, account'[x][r], now')
                    /\ account'[x][r].userBalanceIndex <= market'[r].liquidityIndex
<1>1. none \in Int /\ Received(u, r) + none >= 0
  BY AccountValues
<1>2. SettledBy(account'[u][r], account[u][r], r, none, e)
  OBVIOUS
<1>3. w \in Users => SettledBy(account'[w][r], account[w][r], r, d, none)
  OBVIOUS
<1> HIDE DEF none
<1>4. OK(u)
  BY <1>1, <1>2, SettledOK
<1>5. w \in Users => OK(w)
  BY <1>1, <1>3, SettledOK
<1>6. \A x \in U \cap Users :
        /\ UserReserveOK(r, account'[x][r], now')
        /\ account'[x][r].userBalanceIndex <= market'[r].liquidityIndex
  BY <1>4, <1>5
<1>7. \A x \in Users : \A y \in Reserves :
        (y # r \/ x \notin U) => account'[x][y] = account[x][y]
  OBVIOUS
<1> HIDE DEF U
<1>8. OnlyThese(r, U)
  BY <1>6, <1>7 DEF OnlyThese
<1>9. /\ ChainOK /\ r \in Reserves /\ Transact(r)
      /\ account' \in [Users -> [Reserves -> UserReserve]]
  OBVIOUS
<1> QED BY ONLY <1>8, <1>9, ChainStep

\* Nothing about the redirections changes.
LEMMA SameRedirections ==
  ASSUME ChainOK, Redirections,
         \A x \in Users : \A y \in Reserves :
           /\ Address(x, y)' = Address(x, y) /\ Principal(x, y)' = Principal(x, y)
           /\ Received(x, y)' = Received(x, y)
  PROVE  Redirections'
<1>1. NoChains'
  <2> SUFFICES ASSUME NEW y \in Reserves, NEW x \in Users, Address(x, y)' # None
               PROVE  /\ Address(x, y)' # x /\ Principal(x, y)' > 0
                      /\ Address(Address(x, y), y)' = None
    BY DEF NoChains
  <2>1. /\ Address(x, y) \in Users /\ Address(x, y) # x /\ Principal(x, y) > 0
        /\ Address(Address(x, y), y) = None
    BY AccountValues DEF Redirections, NoChains
  <2>2. Address(Address(x, y), y)' = account'[Address(x, y)'][y].interestRedirectionAddress
    BY DEF Address
  <2>3. account'[Address(x, y)][y].interestRedirectionAddress = None
    BY <2>1 DEF Address
  <2> QED BY <2>1, <2>2, <2>3
<1>2. ASSUME NEW y \in Reserves
      PROVE  /\ \A v \in Users : RedirectedTo(v, y)' = RedirectedTo(v, y)
             /\ AllReceived(y)' = AllReceived(y) /\ AllRedirected(y)' = AllRedirected(y)
  BY DEF RedirectedTo, AllReceived, AllRedirected
<1>3. ASSUME NEW y \in Reserves
      PROVE  /\ \A v \in Users : Total(RedirectedTo(v, y), Users)' = Total(RedirectedTo(v, y), Users)
             /\ Total(AllReceived(y), Users)' = Total(AllReceived(y), Users)
             /\ Total(AllRedirected(y), Users)' = Total(AllRedirected(y), Users)
  BY <1>2
<1> QED BY <1>1, <1>3 DEF Redirections, ReceivedIsRedirected, AllAccounted

LEMMA DepositKeeps ==
  ASSUME IInv, NEW u \in Users, NEW r \in Reserves, NEW amount \in Nat,
         Deposit(u, r, amount)
  PROVE  ChainOK' /\ Redirections'
<1> DEFINE i == Interest(r, account[u][r])
<1>0. ChainOK /\ Redirections
  BY DEF IInv
<1>w. PICK w : w = Address(u, r)
  OBVIOUS
<1>1. /\ Transact(r)
      /\ w \in Users \cup {None} /\ w # u
      /\ account' \in [Users -> [Reserves -> UserReserve]]
      /\ \A x \in Users : \A y \in Reserves :
           (y # r \/ x \notin {u, w}) => account'[x][y] = account[x][y]
      /\ SettledBy(account'[u][r], account[u][r], r, 0, amount)
      /\ account'[u][r].interestRedirectionAddress = w
      /\ w # None =>
           /\ SettledBy(account'[w][r], account[w][r], r, i + amount, 0)
           /\ account'[w][r].interestRedirectionAddress = Address(w, r)
  BY <1>w, DepositGives
<1>2. /\ i \in Nat /\ Principal(u, r) \in Nat /\ Received(u, r) \in Nat
      /\ \A x \in Users : Received(x, r) \in Nat /\ Principal(x, r) \in Nat
  BY <1>0, InterestNat, AccountValues
<1>3. w # None => i = 0 /\ Principal(u, r) > 0 /\ Address(w, r) = None
  BY <1>0, <1>w, RedirectorEarnsNothing DEF Redirections, NoChains
<1>4. w # None => w \in Users
  BY <1>1
<1> HIDE DEF i
<1>5. ChainOK'
  <2>d. PICK d : d = i + amount
    OBVIOUS
  <2>1. /\ d \in Int /\ amount \in Int
        /\ w \in Users => /\ SettledBy(account'[w][r], account[w][r], r, d, 0)
                          /\ Received(w, r) + d >= 0
    BY <1>1, <1>2, <2>d, V1Assumption
  <2>2. CASE w \in Users
    BY <1>0, <1>1, <2>1, <2>2, SettlingKeeps
  <2>3. CASE w \notin Users
    <3> DEFINE none == 0
               U == {u, w}
    <3>1. /\ SettledBy(account'[u][r], account[u][r], r, none, amount)
          /\ none \in Int /\ amount \in Int /\ Received(u, r) + none >= 0
      BY <1>1, <1>2
    <3> HIDE DEF none
    <3>2. /\ UserReserveOK(r, account'[u][r], now')
          /\ account'[u][r].userBalanceIndex <= market'[r].liquidityIndex
      BY <1>0, <1>1, <3>1, SettledOK
    <3>3. /\ \A x \in Users : \A y \in Reserves :
               (y # r \/ x \notin U) => account'[x][y] = account[x][y]
          /\ \A x \in U \cap Users :
               /\ UserReserveOK(r, account'[x][r], now')
               /\ account'[x][r].userBalanceIndex <= market'[r].liquidityIndex
      BY <1>1, <2>3, <3>2
    <3> HIDE DEF U
    <3>4. OnlyThese(r, U)
      BY <3>3 DEF OnlyThese
    <3> QED BY <1>0, <1>1, <3>4, ChainStep
  <2> QED BY <2>2, <2>3
<1> DEFINE k == IF w = None THEN 0 ELSE amount
<1>6. /\ Address(u, r)' = w /\ Principal(u, r)' = Principal(u, r) + i + amount
      /\ Received(u, r)' = Received(u, r)
  BY <1>1, <1>2 DEF SettledBy, Address, Principal, Received, i
<1>7. w # None => /\ Address(w, r)' = None
                  /\ Received(w, r)' = Received(w, r) + amount
  <2> SUFFICES ASSUME w # None
               PROVE  Address(w, r)' = None /\ Received(w, r)' = Received(w, r) + amount
    OBVIOUS
  <2>1. account'[w][r].redirectedBalance = account[w][r].redirectedBalance + (i + amount)
        /\ account'[w][r].interestRedirectionAddress = Address(w, r)
    BY <1>1 DEF SettledBy
  <2>2. i + amount = amount /\ Address(w, r) = None
    BY <1>3
  <2> QED BY <2>1, <2>2 DEF Address, Received
<1>8. \A x \in Users \ {u, w} :
        /\ Address(x, r)' = Address(x, r) /\ Principal(x, r)' = Principal(x, r)
        /\ Received(x, r)' = Received(x, r)
  BY <1>1 DEF Address, Principal, Received
<1>9. /\ \A x \in Users \ {u} :
           /\ Address(x, r)' = Address(x, r)
           /\ Address(x, r) # None => Principal(x, r)' = Principal(x, r)
      /\ \A x \in Users : Address(x, r)' = Address(x, r)
      /\ Address(u, r) # None => Principal(u, r)' = Principal(u, r) + amount
  <2>1. Address(u, r) = w
    BY <1>w
  <2>2. w # None => Principal(u, r)' = Principal(u, r) + amount
    BY <1>2, <1>3, <1>6
  <2>3. None \notin Users
    BY V1Assumption
  <2>4. \A x \in Users \ {u} : /\ Address(x, r)' = Address(x, r)
                               /\ Address(x, r) # None => Principal(x, r)' = Principal(x, r)
    BY <1>3, <1>7, <1>8, <2>3
  <2> QED BY <1>6, <2>1, <2>2, <2>4
<1>10. \A x \in Users : Received(x, r)' = Received(x, r) + (IF x = w THEN k ELSE 0)
  BY <1>1, <1>2, <1>6, <1>7, <1>8, V1Assumption
<1>11. /\ AllRedirected(r)'[u] = AllRedirected(r)[u] + k
       /\ \A x \in Users : RedirectedTo(x, r)'[u] = RedirectedTo(x, r)[u] + (IF x = w THEN k ELSE 0)
  <2>1. Address(u, r) = w /\ Principal(u, r) \in Nat
    BY <1>2, <1>w
  <2>2. w # None => Principal(u, r)' = Principal(u, r) + amount
    BY <1>2, <1>3, <1>6
  <2> QED BY <1>6, <2>1, <2>2, V1Assumption DEF AllRedirected, RedirectedTo
<1>12. k \in Int /\ (w = None => k = 0)
  OBVIOUS
<1>13. \A x \in Users : \A y \in Reserves : y # r => account'[x][y] = account[x][y]
  BY <1>1
<1> HIDE DEF k
<1>14. ReceivedIsRedirected' /\ AllAccounted'
  BY <1>0, <1>1, <1>5, <1>9, <1>10, <1>11, <1>12, <1>13, AccountedStep
<1>15. NoChains'
  <2> SUFFICES ASSUME NEW y \in Reserves, NEW x \in Users, Address(x, y)' # None
               PROVE  /\ Address(x, y)' # x /\ Principal(x, y)' > 0
                      /\ Address(Address(x, y), y)' = None
    BY DEF NoChains
  <2>1. \A z \in Users : Address(z, y)' = Address(z, y)
    BY <1>9, <1>13 DEF Address
  <2>2. /\ Address(x, y) \in Users /\ Address(x, y) # x /\ Principal(x, y) > 0
        /\ Address(Address(x, y), y) = None
    BY <1>0, <2>1, AccountValues DEF Redirections, NoChains
  <2>3. Principal(x, y)' > 0
    <3>1. CASE y = r
      BY <1>2, <1>9, <2>1, <2>2, <3>1
    <3>2. CASE y # r
      BY <1>13, <2>2, <3>2 DEF Principal
    <3> QED BY <3>1, <3>2
  <2>4. Address(Address(x, y), y)' = account'[Address(x, y)'][y].interestRedirectionAddress
    BY DEF Address
  <2>5. account'[Address(x, y)][y].interestRedirectionAddress = None
    BY <2>1, <2>2 DEF Address
  <2> QED BY <2>1, <2>2, <2>3, <2>4, <2>5
<1> QED BY <1>5, <1>14, <1>15 DEF Redirections

\* A new redirection: the old address, the new one and all others.
LEMMA RedirectKeeps ==
  ASSUME IInv, NEW u \in Users, NEW v \in Users, NEW r \in Reserves, Redirect(u, v, r)
  PROVE  ChainOK' /\ Redirections'
<1> DEFINE i == Interest(r, account[u][r])
<1>0. ChainOK /\ Redirections
  BY DEF IInv
<1>k. PICK k : k = Principal(u, r) + i
  OBVIOUS
<1>1. /\ Transact(r)
      /\ u # v /\ Address(u, r) = None /\ Address(v, r) = None /\ Received(u, r) = 0
      /\ Principal(u, r) > 0
      /\ account' \in [Users -> [Reserves -> UserReserve]]
      /\ \A x \in Users : \A y \in Reserves :
           (y # r \/ x \notin {u, v}) => account'[x][y] = account[x][y]
      /\ SettledBy(account'[u][r], account[u][r], r, 0, 0)
      /\ account'[u][r].interestRedirectionAddress = v
      /\ SettledBy(account'[v][r], account[v][r], r, k, 0)
      /\ account'[v][r].interestRedirectionAddress = None
  BY <1>k, RedirectGives
<1>2. /\ i \in Nat /\ k \in Nat
      /\ \A x \in Users : Received(x, r) \in Nat /\ Principal(x, r) \in Nat
  BY <1>0, <1>k, InterestNat, AccountValues
<1>3. None \notin Users
  BY V1Assumption
<1>5. ChainOK'
  <2> DEFINE none == 0
  <2>1. /\ none \in Int /\ k \in Int /\ v \in Users
        /\ SettledBy(account'[u][r], account[u][r], r, 0, none)
        /\ Received(v, r) + k >= 0
    BY <1>1, <1>2
  <2> HIDE DEF none
  <2> QED BY <1>0, <1>1, <2>1, SettlingKeeps
<1>6. /\ Address(u, r)' = v /\ Principal(u, r)' = k /\ Received(u, r)' = Received(u, r)
      /\ Address(v, r)' = None /\ Received(v, r)' = Received(v, r) + k
  <2>1. /\ account'[u][r].principalATokenBalance = Principal(u, r) + i + 0
        /\ account'[u][r].redirectedBalance = Received(u, r) + 0
        /\ account'[v][r].redirectedBalance = Received(v, r) + k
    BY <1>1 DEF SettledBy, Principal, Received, i
  <2>2. Principal(u, r) + i + 0 = k /\ Received(u, r) + 0 = Received(u, r)
    BY <1>2, <1>k
  <2> QED BY <1>1, <2>1, <2>2 DEF Address, Principal, Received
<1> HIDE DEF i
<1>8. \A x \in Users \ {u, v} :
        /\ Address(x, r)' = Address(x, r) /\ Principal(x, r)' = Principal(x, r)
        /\ Received(x, r)' = Received(x, r)
  BY <1>1 DEF Address, Principal, Received
<1>9. \A x \in Users \ {u} :
        /\ Address(x, r)' = Address(x, r)
        /\ Address(x, r) # None => Principal(x, r)' = Principal(x, r)
  BY <1>1, <1>6, <1>8
<1>10. \A x \in Users : Received(x, r)' = Received(x, r) + (IF x = v THEN k ELSE 0)
  BY <1>1, <1>2, <1>6, <1>8
<1>11. /\ AllRedirected(r)'[u] = AllRedirected(r)[u] + k
       /\ \A x \in Users : RedirectedTo(x, r)'[u] = RedirectedTo(x, r)[u] + (IF x = v THEN k ELSE 0)
  BY <1>1, <1>2, <1>3, <1>6 DEF AllRedirected, RedirectedTo
<1>12. k \in Int /\ v \in Users \cup {None} /\ (v = None => k = 0)
  BY <1>2, <1>3
<1>13. \A x \in Users : \A y \in Reserves : y # r => account'[x][y] = account[x][y]
  BY <1>1
<1>14. ReceivedIsRedirected' /\ AllAccounted'
  BY <1>0, <1>5, <1>9, <1>10, <1>11, <1>12, <1>13, AccountedStep
<1>15. NoChains'
  <2> SUFFICES ASSUME NEW y \in Reserves, NEW x \in Users, Address(x, y)' # None
               PROVE  /\ Address(x, y)' # x /\ Principal(x, y)' > 0
                      /\ Address(Address(x, y), y)' = None
    BY DEF NoChains
  <2>1. CASE x = u /\ y = r
    <3>1. Address(Address(x, y), y)' = account'[v][r].interestRedirectionAddress
      BY <1>6, <2>1 DEF Address
    <3> QED BY <1>1, <1>2, <1>6, <1>k, <2>1, <3>1
  <2>2. CASE x # u \/ y # r
    <3>1. Address(x, y)' = Address(x, y) /\ Principal(x, y)' = Principal(x, y)
      BY <1>9, <1>13, <2>2 DEF Address, Principal
    <3>2. /\ Address(x, y) \in Users /\ Address(x, y) # x /\ Principal(x, y) > 0
          /\ Address(Address(x, y), y) = None
      BY <1>0, <3>1, AccountValues DEF Redirections, NoChains
    <3>3. y = r => Address(x, y) # u
      BY <1>0, <1>1, <3>2, ReceiverReceives
    <3>4. Address(Address(x, y), y)' = account'[Address(x, y)][y].interestRedirectionAddress
      BY <3>1 DEF Address
    <3>5. account'[Address(x, y)][y].interestRedirectionAddress
            = account[Address(x, y)][y].interestRedirectionAddress
      <4>1. CASE y = r
        BY <1>9, <3>2, <3>3, <4>1 DEF Address
      <4>2. CASE y # r
        BY <1>13, <3>2, <4>2
      <4> QED BY <4>1, <4>2
    <3> QED BY <3>1, <3>2, <3>4, <3>5 DEF Address
  <2> QED BY <2>1, <2>2
<1> QED BY <1>5, <1>14, <1>15 DEF Redirections

LEMMA StopRedirectingKeeps ==
  ASSUME IInv, NEW u \in Users, NEW r \in Reserves, StopRedirecting(u, r)
  PROVE  ChainOK' /\ Redirections'
<1>0. ChainOK /\ Redirections
  BY DEF IInv
<1>w. PICK w : w = Address(u, r)
  OBVIOUS
<1>k. PICK k : k = -Principal(u, r)
  OBVIOUS
<1>1. /\ Transact(r)
      /\ w \in Users /\ w # u /\ Address(w, r) = None /\ Principal(u, r) > 0
      /\ account' \in [Users -> [Reserves -> UserReserve]]
      /\ \A x \in Users : \A y \in Reserves :
           (y # r \/ x \notin {u, w}) => account'[x][y] = account[x][y]
      /\ SettledBy(account'[u][r], account[u][r], r, 0, 0)
      /\ account'[u][r].interestRedirectionAddress = None
      /\ SettledBy(account'[w][r], account[w][r], r, k, 0)
      /\ account'[w][r].interestRedirectionAddress = None
  BY <1>w, <1>k, StopRedirectingGives
<1>2. /\ k \in Int /\ Principal(u, r) + k = 0
      /\ \A x \in Users : Received(x, r) \in Nat /\ Principal(x, r) \in Nat
  BY <1>0, <1>k, AccountValues
<1>3. None \notin Users
  BY V1Assumption
<1>4. /\ Interest(r, account[u][r]) = 0 /\ Received(w, r) >= Principal(u, r)
  BY <1>0, <1>1, <1>3, <1>w, RedirectorEarnsNothing, ReceiverReceives
<1>5. ChainOK'
  <2> DEFINE none == 0
  <2>1. /\ none \in Int
        /\ SettledBy(account'[u][r], account[u][r], r, 0, none)
        /\ Received(w, r) + k >= 0
    BY <1>1, <1>2, <1>4, <1>k
  <2> HIDE DEF none
  <2> QED BY <1>0, <1>1, <1>2, <2>1, SettlingKeeps
<1>6. /\ Address(u, r)' = None /\ Principal(u, r)' = Principal(u, r)
      /\ Received(u, r)' = Received(u, r)
      /\ Address(w, r)' = None /\ Received(w, r)' = Received(w, r) + k
  <2>1. /\ account'[u][r].principalATokenBalance
             = Principal(u, r) + Interest(r, account[u][r]) + 0
        /\ account'[u][r].redirectedBalance = Received(u, r) + 0
        /\ account'[w][r].redirectedBalance = Received(w, r) + k
    BY <1>1 DEF SettledBy, Principal, Received
  <2>2. Principal(u, r) + Interest(r, account[u][r]) + 0 = Principal(u, r)
        /\ Received(u, r) + 0 = Received(u, r)
    BY <1>2, <1>4
  <2> QED BY <1>1, <2>1, <2>2 DEF Address, Principal, Received
<1>8. \A x \in Users \ {u, w} :
        /\ Address(x, r)' = Address(x, r) /\ Principal(x, r)' = Principal(x, r)
        /\ Received(x, r)' = Received(x, r)
  BY <1>1 DEF Address, Principal, Received
<1>9. \A x \in Users \ {u} :
        /\ Address(x, r)' = Address(x, r)
        /\ Address(x, r) # None => Principal(x, r)' = Principal(x, r)
  BY <1>1, <1>6, <1>8
<1>10. \A x \in Users : Received(x, r)' = Received(x, r) + (IF x = w THEN k ELSE 0)
  BY <1>1, <1>2, <1>6, <1>8
<1>11. /\ AllRedirected(r)'[u] = AllRedirected(r)[u] + k
       /\ \A x \in Users : RedirectedTo(x, r)'[u] = RedirectedTo(x, r)[u] + (IF x = w THEN k ELSE 0)
  BY <1>1, <1>2, <1>3, <1>6, <1>w DEF AllRedirected, RedirectedTo
<1>12. w \in Users \cup {None} /\ (w = None => k = 0)
  BY <1>1, <1>3
<1>13. \A x \in Users : \A y \in Reserves : y # r => account'[x][y] = account[x][y]
  BY <1>1
<1>14. ReceivedIsRedirected' /\ AllAccounted'
  BY <1>0, <1>2, <1>5, <1>9, <1>10, <1>11, <1>12, <1>13, AccountedStep
<1>15. NoChains'
  <2> SUFFICES ASSUME NEW y \in Reserves, NEW x \in Users, Address(x, y)' # None
               PROVE  /\ Address(x, y)' # x /\ Principal(x, y)' > 0
                      /\ Address(Address(x, y), y)' = None
    BY DEF NoChains
  <2>1. x # u \/ y # r
    BY <1>6
  <2>2. Address(x, y)' = Address(x, y) /\ Principal(x, y)' = Principal(x, y)
    <3>1. CASE y = r
      BY <1>9, <2>1, <3>1
    <3>2. CASE y # r
      BY <1>13, <3>2 DEF Address, Principal
    <3> QED BY <3>1, <3>2
  <2>3. /\ Address(x, y) \in Users /\ Address(x, y) # x /\ Principal(x, y) > 0
        /\ Address(Address(x, y), y) = None
    BY <1>0, <2>2, AccountValues DEF Redirections, NoChains
  <2>4. Address(Address(x, y), y)' = account'[Address(x, y)][y].interestRedirectionAddress
    BY <2>2 DEF Address
  <2>5. account'[Address(x, y)][y].interestRedirectionAddress = None
    <3>1. CASE y = r /\ Address(x, y) = u
      BY <1>1, <3>1
    <3>2. CASE y = r /\ Address(x, y) # u
      BY <1>9, <2>3, <3>2 DEF Address
    <3>3. CASE y # r
      BY <1>13, <2>3, <3>3 DEF Address
    <3> QED BY <3>1, <3>2, <3>3
  <2> QED BY <2>2, <2>3, <2>4, <2>5
<1> QED BY <1>5, <1>14, <1>15 DEF Redirections

LEMMA ShownDebtNat ==
  ASSUME NEW m \in Reserve, NEW a \in UserReserve, NEW t \in Int,
         Behind(m.rates.variable, t, m.lastUpdateTimestamp),
         Behind(a.borrowRate, t, a.lastUpdateTimestamp)
  PROVE  getCompoundedBorrowBalance(m, a, t) \in Nat
<1>1. /\ m.rates.variable \in Nat /\ m.lastUpdateTimestamp \in Int /\ m.variableBorrowIndex \in Nat
      /\ a.borrowRate \in Nat /\ a.lastUpdateTimestamp \in Int /\ a.principalBorrows \in Nat
      /\ a.variableBorrowIndex \in Nat \ {0}
  BY DEF Reserve, UserReserve
<1> DEFINE c == calculateCompoundedInterest(m.rates.variable, t, m.lastUpdateTimestamp)
           s == calculateCompoundedInterest(a.borrowRate, t, a.lastUpdateTimestamp)
           p == rayMul(c, m.variableBorrowIndex)
           v == rayDiv(p, a.variableBorrowIndex)
<1>2. c \in Nat /\ s \in Nat
  BY <1>1, CompoundedBehind
<1> HIDE DEF c, s
<1>3. p \in Nat
  BY <1>1, <1>2, RayMulNat
<1> HIDE DEF p
<1>4. v \in Nat
  <2>1. p <= p
    BY <1>3
  <2> QED BY <1>1, <1>3, <2>1, RayDivMonotone
<1> HIDE DEF v
<1>5. s <= s /\ v <= v
  BY <1>2, <1>4
<1>6. Grown(a.principalBorrows, s) \in Nat /\ Grown(a.principalBorrows, v) \in Nat
  BY <1>1, <1>2, <1>4, <1>5, GrownMonotone
<1> QED BY <1>6 DEF getCompoundedBorrowBalance, v, p, c, s

\* The contract's debt is computed as the library computes it.
LEMMA DebtIsShown ==
  ASSUME NEW r, NEW a,
         a.principalBorrows = 0 \/ a.borrowRateMode \in {"Stable", "Variable"}
  PROVE  Debt(r, a) = getCompoundedBorrowBalance(market[r], a, now)
BY DEF Debt, getCompoundedBorrowBalance

LEMMA DebtNat ==
  ASSUME ChainOK, NEW u \in Users, NEW r \in Reserves
  PROVE  Debt(r, account[u][r]) \in Nat
<1> DEFINE m == market[r]
           a == account[u][r]
<1>1. /\ m \in Reserve /\ m.lastUpdateTimestamp <= now /\ now \in Int
      /\ UserReserveOK(r, a, now)
  BY DEF ChainOK, ReserveOK
<1> HIDE DEF m, a
<1>2. /\ a \in UserReserve /\ a.lastUpdateTimestamp <= now
      /\ a.principalBorrows > 0 => a.borrowRateMode # "None"
  BY <1>1 DEF UserReserveOK
<1>3. /\ m.rates.variable \in Nat /\ m.lastUpdateTimestamp \in Int
      /\ a.borrowRate \in Nat /\ a.lastUpdateTimestamp \in Int
      /\ a.principalBorrows = 0 \/ a.borrowRateMode \in {"Stable", "Variable"}
  BY <1>1, <1>2 DEF Reserve, UserReserve
<1>4. Behind(m.rates.variable, now, m.lastUpdateTimestamp)
      /\ Behind(a.borrowRate, now, a.lastUpdateTimestamp)
  BY <1>1, <1>2, <1>3, NotBehind
<1>5. getCompoundedBorrowBalance(m, a, now) \in Nat
  BY <1>1, <1>2, <1>4, ShownDebtNat
<1>6. Debt(r, a) = getCompoundedBorrowBalance(m, a, now)
  BY <1>3, DebtIsShown DEF m
<1> QED BY <1>5, <1>6 DEF a

\* Only a debt of Wallet changes.
LEMMA WalletChanges ==
  ASSUME ChainOK, NEW r \in Reserves, NEW b \in UserReserve,
         account' = [account EXCEPT ![Wallet] = [account[Wallet] EXCEPT ![r] = b]]
  PROVE  /\ account' \in [Users -> [Reserves -> UserReserve]] /\ account'[Wallet][r] = b
         /\ \A x \in Users : \A y \in Reserves :
              (y # r \/ x # Wallet) => account'[x][y] = account[x][y]
<1>1. account \in [Users -> [Reserves -> UserReserve]] /\ Wallet \in Users
  BY V1Assumption DEF ChainOK
<1> QED BY <1>1

LEMMA WalletStep ==
  ASSUME IInv, NEW r \in Reserves, Transact(r), NEW b,
         account' \in [Users -> [Reserves -> UserReserve]], account'[Wallet][r] = b,
         \A x \in Users : \A y \in Reserves :
           (y # r \/ x # Wallet) => account'[x][y] = account[x][y],
         UserReserveOK(r, b, now'),
         b.interestRedirectionAddress = Address(Wallet, r),
         b.principalATokenBalance = Principal(Wallet, r),
         b.redirectedBalance = Received(Wallet, r),
         b.userBalanceIndex = account[Wallet][r].userBalanceIndex
  PROVE  ChainOK' /\ Redirections'
<1> DEFINE U == {Wallet}
<1>0. ChainOK /\ Redirections /\ Wallet \in Users
  BY V1Assumption DEF IInv
<1>2. \A x \in Users : \A y \in Reserves :
           (y # r \/ x \notin U) => account'[x][y] = account[x][y]
  OBVIOUS
<1>3. b.userBalanceIndex <= market'[r].liquidityIndex
  <2>1. /\ account[Wallet][r].userBalanceIndex <= market[r].liquidityIndex
        /\ account[Wallet][r] \in UserReserve
        /\ market[r] \in Reserve /\ market'[r] \in Reserve
        /\ market'[r].liquidityIndex >= market[r].liquidityIndex
    BY <1>0, TransactKeeps DEF ChainOK, UserReserveOK
  <2>2. /\ account[Wallet][r].userBalanceIndex \in Int /\ market[r].liquidityIndex \in Int
        /\ market'[r].liquidityIndex \in Int
    BY <2>1 DEF UserReserve, Reserve
  <2> QED BY <2>1, <2>2
<1>4. \A x \in U \cap Users :
        /\ UserReserveOK(r, account'[x][r], now')
        /\ account'[x][r].userBalanceIndex <= market'[r].liquidityIndex
  BY <1>2, <1>3
<1>5. ASSUME NEW x \in Users, NEW y \in Reserves
      PROVE  /\ Address(x, y)' = Address(x, y) /\ Principal(x, y)' = Principal(x, y)
             /\ Received(x, y)' = Received(x, y)
  <2>1. CASE y = r /\ x = Wallet
    BY <2>1 DEF Address, Principal, Received
  <2>2. CASE y # r \/ x # Wallet
    BY <2>2 DEF Address, Principal, Received
  <2> QED BY <2>1, <2>2
<1>6. ChainOK'
  <2>1. ChainOK /\ Transact(r) /\ account' \in [Users -> [Reserves -> UserReserve]]
    BY <1>0
  <2> HIDE DEF U
  <2>2. OnlyThese(r, U)
    BY <1>2, <1>4 DEF OnlyThese
  <2> QED BY ONLY <2>1, <2>2, ChainStep
<1>7. Redirections'
  BY <1>0, <1>5, SameRedirections
<1> QED BY <1>6, <1>7

LEMMA BorrowKeeps ==
  ASSUME IInv, NEW r \in Reserves, NEW mode \in {"Stable", "Variable"}, NEW amount \in Nat,
         Borrow(r, mode, amount)
  PROVE  ChainOK' /\ Redirections'
<1> DEFINE a == account[Wallet][r]
           d == Debt(r, a) + amount
           f == a.originationFee + Fee(amount)
           s == IF mode = "Stable" THEN market[r].rates.stable ELSE 0
           i == market'[r].variableBorrowIndex
           b == [a EXCEPT !.principalBorrows = d, !.originationFee = f,
                          !.borrowRateMode = mode, !.borrowRate = s,
                          !.variableBorrowIndex = i, !.lastUpdateTimestamp = now]
<1>0. ChainOK /\ Wallet \in Users /\ now \in Nat
      /\ account \in [Users -> [Reserves -> UserReserve]]
      /\ UserReserveOK(r, a, now)
  BY V1Assumption DEF IInv, ChainOK
<1>1. /\ Transact(r)
      /\ account' = [account EXCEPT ![Wallet] = [account[Wallet] EXCEPT ![r] = b]]
  BY <1>0 DEF Borrow, UserReserve
<1>2. d \in Nat
  BY <1>0, DebtNat
<1>3. i \in Nat \ {0} /\ i >= RAY /\ now' = now
  BY <1>0, <1>1, TransactKeeps, RayAssumption
<1>4. s \in Nat /\ s \in StableRates(r)
  <2>1. market[r] \in Reserve /\ market[r].totals \in Totals[r]
        /\ market[r].rates = StrategyRates(r, market[r].totals)
    BY <1>0 DEF ChainOK, ReserveOK
  <2>2. market[r].rates.stable \in Nat
    BY <2>1 DEF Reserve
  <2> QED BY <2>1, <2>2 DEF StableRates
<1>5. f \in Nat
  <2>1. a.originationFee \in Nat
    BY <1>0 DEF UserReserveOK, UserReserve
  <2>2. amount + FeeDivisor - 1 \in Nat /\ FeeDivisor \in Nat \ {0}
    BY V1Assumption
  <2>3. Fee(amount) \in Nat
    BY <2>2, DivNat DEF Fee
  <2> QED BY <2>1, <2>3
<1> HIDE DEF d, f, s, i
<1>6. /\ b \in UserReserve /\ b.principalBorrows = d /\ b.borrowRateMode = mode
      /\ b.borrowRate = s /\ b.variableBorrowIndex = i /\ b.lastUpdateTimestamp = now
      /\ b.interestRedirectionAddress = a.interestRedirectionAddress
      /\ b.principalATokenBalance = a.principalATokenBalance
      /\ b.redirectedBalance = a.redirectedBalance
      /\ b.userBalanceIndex = a.userBalanceIndex
  BY <1>0, <1>2, <1>3, <1>4, <1>5 DEF UserReserve, UserReserveOK
<1> HIDE DEF b
<1>7. UserReserveOK(r, b, now')
  BY <1>0, <1>3, <1>4, <1>6 DEF UserReserveOK
<1>8. /\ b.interestRedirectionAddress = Address(Wallet, r)
      /\ b.principalATokenBalance = Principal(Wallet, r)
      /\ b.redirectedBalance = Received(Wallet, r)
      /\ b.userBalanceIndex = account[Wallet][r].userBalanceIndex
  BY <1>6 DEF Address, Principal, Received
<1>9. /\ account' \in [Users -> [Reserves -> UserReserve]] /\ account'[Wallet][r] = b
      /\ \A x \in Users : \A y \in Reserves :
           (y # r \/ x # Wallet) => account'[x][y] = account[x][y]
  BY <1>0, <1>1, <1>6, WalletChanges
<1> HIDE DEF a
<1> QED BY <1>1, <1>7, <1>8, <1>9, WalletStep

LEMMA RepayKeeps ==
  ASSUME IInv, NEW r \in Reserves, Repay(r)
  PROVE  ChainOK' /\ Redirections'
<1> DEFINE a == account[Wallet][r]
           b == [a EXCEPT !.principalBorrows = 0, !.originationFee = 0,
                          !.borrowRateMode = "None", !.borrowRate = 0,
                          !.lastUpdateTimestamp = now]
<1>0. ChainOK /\ Wallet \in Users /\ now \in Nat
      /\ account \in [Users -> [Reserves -> UserReserve]]
      /\ UserReserveOK(r, a, now)
  BY V1Assumption DEF IInv, ChainOK
<1>1. /\ Transact(r)
      /\ account' = [account EXCEPT ![Wallet] = [account[Wallet] EXCEPT ![r] = b]]
  BY <1>0 DEF Repay
<1>3. now' = now
  BY <1>0, <1>1, TransactKeeps
<1>6. /\ b \in UserReserve /\ b.principalBorrows = 0
      /\ b.borrowRate = 0 /\ b.lastUpdateTimestamp = now
      /\ b.variableBorrowIndex = a.variableBorrowIndex
      /\ b.interestRedirectionAddress = a.interestRedirectionAddress
      /\ b.principalATokenBalance = a.principalATokenBalance
      /\ b.redirectedBalance = a.redirectedBalance
      /\ b.userBalanceIndex = a.userBalanceIndex
  BY <1>0 DEF UserReserve, UserReserveOK
<1> HIDE DEF b
<1>7. UserReserveOK(r, b, now')
  BY <1>0, <1>3, <1>6 DEF UserReserveOK, StableRates
<1>8. /\ b.interestRedirectionAddress = Address(Wallet, r)
      /\ b.principalATokenBalance = Principal(Wallet, r)
      /\ b.redirectedBalance = Received(Wallet, r)
      /\ b.userBalanceIndex = account[Wallet][r].userBalanceIndex
  BY <1>6 DEF Address, Principal, Received
<1>9. /\ account' \in [Users -> [Reserves -> UserReserve]] /\ account'[Wallet][r] = b
      /\ \A x \in Users : \A y \in Reserves :
           (y # r \/ x # Wallet) => account'[x][y] = account[x][y]
  BY <1>0, <1>1, <1>6, WalletChanges
<1> HIDE DEF a
<1> QED BY <1>1, <1>7, <1>8, <1>9, WalletStep

LEMMA WithdrawCollateralKeeps ==
  ASSUME IInv, NEW r \in Reserves, WithdrawCollateral(r)
  PROVE  ChainOK' /\ Redirections'
<1> DEFINE a == account[Wallet][r]
           b == [a EXCEPT !.usageAsCollateralEnabledOnUser = FALSE]
<1>0. ChainOK /\ Wallet \in Users /\ now \in Nat
      /\ account \in [Users -> [Reserves -> UserReserve]]
      /\ UserReserveOK(r, a, now)
  BY V1Assumption DEF IInv, ChainOK
<1>1. /\ Transact(r)
      /\ account' = [account EXCEPT ![Wallet] = [account[Wallet] EXCEPT ![r] = b]]
  BY <1>0 DEF WithdrawCollateral
<1>3. now' = now
  BY <1>0, <1>1, TransactKeeps
<1>6. /\ b \in UserReserve /\ b.principalBorrows = a.principalBorrows
      /\ b.borrowRateMode = a.borrowRateMode
      /\ b.borrowRate = a.borrowRate /\ b.lastUpdateTimestamp = a.lastUpdateTimestamp
      /\ b.variableBorrowIndex = a.variableBorrowIndex
      /\ b.interestRedirectionAddress = a.interestRedirectionAddress
      /\ b.principalATokenBalance = a.principalATokenBalance
      /\ b.redirectedBalance = a.redirectedBalance
      /\ b.userBalanceIndex = a.userBalanceIndex
  BY <1>0 DEF UserReserve, UserReserveOK
<1> HIDE DEF b
<1>7. UserReserveOK(r, b, now')
  BY <1>0, <1>3, <1>6 DEF UserReserveOK
<1>8. /\ b.interestRedirectionAddress = Address(Wallet, r)
      /\ b.principalATokenBalance = Principal(Wallet, r)
      /\ b.redirectedBalance = Received(Wallet, r)
      /\ b.userBalanceIndex = account[Wallet][r].userBalanceIndex
  BY <1>6 DEF Address, Principal, Received
<1>9. /\ account' \in [Users -> [Reserves -> UserReserve]] /\ account'[Wallet][r] = b
      /\ \A x \in Users : \A y \in Reserves :
           (y # r \/ x # Wallet) => account'[x][y] = account[x][y]
  BY <1>0, <1>1, <1>6, WalletChanges
<1> HIDE DEF a
<1> QED BY <1>1, <1>7, <1>8, <1>9, WalletStep

LEMMA TouchKeeps ==
  ASSUME IInv, NEW r \in Reserves, Touch(r)
  PROVE  ChainOK' /\ Redirections'
<1> DEFINE U == {}
<1>0. ChainOK /\ Redirections /\ Transact(r) /\ account' = account
  BY DEF IInv, Touch
<1>1. account' \in [Users -> [Reserves -> UserReserve]]
  BY <1>0 DEF ChainOK
<1>2. \A x \in Users : \A y \in Reserves :
        (y # r \/ x \notin U) => account'[x][y] = account[x][y]
  BY <1>0
<1>3. \A x \in U \cap Users :
        /\ UserReserveOK(r, account'[x][r], now')
        /\ account'[x][r].userBalanceIndex <= market'[r].liquidityIndex
  OBVIOUS
<1> HIDE DEF U
<1>4. ChainOK'
  <2>1. OnlyThese(r, U)
    BY <1>2, <1>3 DEF OnlyThese
  <2> QED BY ONLY <1>0, <1>1, <2>1, ChainStep
<1>5. Redirections'
  BY <1>0, SameRedirections DEF Address, Principal, Received
<1> QED BY <1>4, <1>5

LEMMA TickKeeps ==
  ASSUME IInv, Tick
  PROVE  ChainOK' /\ Redirections'
<1>0. /\ ChainOK /\ Redirections /\ now' = now + 1 /\ now \in Nat
      /\ market' = market /\ account' = account
  BY DEF IInv, Tick, ChainOK
<1>1. ASSUME NEW r \in Reserves
      PROVE  /\ ReserveOK(r, market[r], now + 1)
             /\ \A u \in Users : UserReserveOK(r, account[u][r], now + 1)
  <2>1. /\ ReserveOK(r, market[r], now)
        /\ \A u \in Users : UserReserveOK(r, account[u][r], now)
    BY <1>0 DEF ChainOK
  <2>2. /\ market[r].lastUpdateTimestamp \in Nat
        /\ \A u \in Users : account[u][r].lastUpdateTimestamp \in Nat
    BY <2>1 DEF ReserveOK, UserReserveOK, Reserve, UserReserve
  <2> QED BY <1>0, <2>1, <2>2 DEF ReserveOK, UserReserveOK
<1>2. ChainOK'
  BY <1>0, <1>1 DEF ChainOK
<1>3. Redirections'
  BY <1>0, SameRedirections DEF Address, Principal, Received
<1> QED BY <1>2, <1>3

LEMMA DisableCollateralKeeps ==
  ASSUME IInv, NEW r \in Reserves, DisableCollateral(r)
  PROVE  ChainOK' /\ Redirections'
<1> DEFINE b == [market[r] EXCEPT !.usageAsCollateralEnabled = FALSE]
<1>0. /\ ChainOK /\ Redirections /\ now' = now /\ account' = account
      /\ market' = [market EXCEPT ![r] = b]
      /\ market \in [Reserves -> Reserve]
  BY DEF IInv, DisableCollateral, ChainOK
<1>1. /\ ReserveOK(r, market[r], now) /\ market[r] \in Reserve
  BY <1>0 DEF ChainOK, ReserveOK
<1>2. /\ b \in Reserve /\ b.liquidityIndex = market[r].liquidityIndex
      /\ b.variableBorrowIndex = market[r].variableBorrowIndex
      /\ b.totals = market[r].totals /\ b.rates = market[r].rates
      /\ b.lastUpdateTimestamp = market[r].lastUpdateTimestamp
  BY <1>1 DEF Reserve
<1> HIDE DEF b
<1>3. market' \in [Reserves -> Reserve] /\ market'[r] = b
      /\ \A x \in Reserves : x # r => market'[x] = market[x]
  BY <1>0, <1>2
<1>4. ReserveOK(r, b, now)
  BY <1>1, <1>2 DEF ReserveOK
<1>5. ASSUME NEW x \in Reserves
      PROVE  ReserveOK(x, market'[x], now')
             /\ market'[x].liquidityIndex = market[x].liquidityIndex
  BY <1>0, <1>2, <1>3, <1>4 DEF ChainOK
<1>6. ChainOK'
  BY <1>0, <1>3, <1>5 DEF ChainOK
<1>7. Redirections'
  BY <1>0, SameRedirections DEF Address, Principal, Received
<1> QED BY <1>6, <1>7

\* What the application holds stays what it was.
LEMMA SnapshotsStay ==
  ASSUME SnapshotsOK, now \in Nat, now' \in Nat, now <= now',
         pool' = pool, position' = position
  PROVE  SnapshotsOK'
<1>1. ASSUME NEW r \in Reserves, NEW m, ReserveOK(r, m, now)
      PROVE  ReserveOK(r, m, now')
  <2>1. m.lastUpdateTimestamp \in Nat
    BY <1>1 DEF ReserveOK, Reserve
  <2> QED BY <1>1, <2>1 DEF ReserveOK
<1>2. ASSUME NEW r \in Reserves, NEW a, UserReserveOK(r, a, now)
      PROVE  UserReserveOK(r, a, now')
  <2>1. a.lastUpdateTimestamp \in Nat
    BY <1>2 DEF UserReserveOK, UserReserve
  <2> QED BY <1>2, <2>1 DEF UserReserveOK
<1> QED BY <1>1, <1>2 DEF SnapshotsOK

\* Every transaction keeps what is on chain.
LEMMA ChainKeeps ==
  ASSUME IInv, Chain
  PROVE  ChainOK' /\ Redirections'
<1>1. CASE Tick
  BY <1>1, TickKeeps
<1>2. ASSUME NEW r \in Reserves, Touch(r) PROVE ChainOK' /\ Redirections'
  BY <1>2, TouchKeeps
<1>3. ASSUME NEW r \in Reserves, Repay(r) PROVE ChainOK' /\ Redirections'
  BY <1>3, RepayKeeps
<1>4. ASSUME NEW r \in Reserves, DisableCollateral(r) PROVE ChainOK' /\ Redirections'
  BY <1>4, DisableCollateralKeeps
<1>5. ASSUME NEW r \in Reserves, WithdrawCollateral(r) PROVE ChainOK' /\ Redirections'
  BY <1>5, WithdrawCollateralKeeps
<1>6. ASSUME NEW r \in Reserves, NEW mode \in {"Stable", "Variable"}, NEW amount \in Loans,
             Borrow(r, mode, amount)
      PROVE  ChainOK' /\ Redirections'
  <2>1. amount \in Nat
    BY V1Assumption
  <2> QED BY <1>6, <2>1, BorrowKeeps
<1>7. ASSUME NEW r \in Reserves, NEW u \in Users, StopRedirecting(u, r)
      PROVE  ChainOK' /\ Redirections'
  BY <1>7, StopRedirectingKeeps
<1>8. ASSUME NEW r \in Reserves, NEW u \in Users, NEW amount \in Deposits,
             Deposit(u, r, amount)
      PROVE  ChainOK' /\ Redirections'
  <2>1. amount \in Nat
    BY V1Assumption
  <2> QED BY <1>8, <2>1, DepositKeeps
<1>9. ASSUME NEW r \in Reserves, NEW u \in Users, NEW v \in Users, Redirect(u, v, r)
      PROVE  ChainOK' /\ Redirections'
  BY <1>9, RedirectKeeps
<1> QED BY <1>1, <1>2, <1>3, <1>4, <1>5, <1>6, <1>7, <1>8, <1>9 DEF Chain

\* What every transaction leaves alone.
LEMMA ChainLeaves ==
  ASSUME IInv, Chain
  PROVE  /\ now' \in Nat /\ now <= now'
         /\ pool' = pool /\ position' = position /\ page' = page
<1>0. now \in Nat
  BY DEF IInv, ChainOK
<1>1. CASE Tick
  BY <1>0, <1>1 DEF Tick
<1>2. CASE ~Tick
  <2>1. now' = now /\ pool' = pool /\ position' = position /\ page' = page
    <3>1. ASSUME NEW r \in Reserves, Touch(r) PROVE Transact(r)
      BY <3>1 DEF Touch
    <3>2. ASSUME NEW r \in Reserves, Repay(r) PROVE Transact(r)
      BY <3>2 DEF Repay
    <3>3. ASSUME NEW r \in Reserves, WithdrawCollateral(r) PROVE Transact(r)
      BY <3>3 DEF WithdrawCollateral
    <3>4. ASSUME NEW r \in Reserves, NEW mode, NEW amount, Borrow(r, mode, amount)
          PROVE  Transact(r)
      BY <3>4 DEF Borrow
    <3>5. ASSUME NEW r \in Reserves, NEW u, StopRedirecting(u, r) PROVE Transact(r)
      BY <3>5 DEF StopRedirecting
    <3>6. ASSUME NEW r \in Reserves, NEW u, NEW amount, Deposit(u, r, amount)
          PROVE  Transact(r)
      BY <3>6 DEF Deposit
    <3>7. ASSUME NEW r \in Reserves, NEW u, NEW v, Redirect(u, v, r) PROVE Transact(r)
      BY <3>7 DEF Redirect
    <3>8. PICK r \in Reserves : Transact(r) \/ DisableCollateral(r)
      BY <1>2, <3>1, <3>2, <3>3, <3>4, <3>5, <3>6, <3>7 DEF Chain
    <3>9. CASE Transact(r)
      BY <3>9 DEF Transact
    <3>10. CASE DisableCollateral(r)
      BY <3>10 DEF DisableCollateral
    <3> QED BY <3>8, <3>9, <3>10
  <2> QED BY <1>0, <2>1
<1> QED BY <1>1, <1>2

\* Nobody has a position at first, and nothing was fetched.
THEOREM InvInit == Init => IInv
<1> SUFFICES ASSUME Init PROVE IInv
  OBVIOUS
<1>0. IsFiniteSet(Users) /\ None \notin Users /\ RAY \in Nat \ {0}
      /\ Opening \in [Users -> [Reserves -> Nat]]
  BY V1Assumption, RayAssumption
<1>1. PICK t \in [Reserves -> AllTotals] :
        /\ \A r \in Reserves : t[r] \in Totals[r]
        /\ market = [r \in Reserves |-> NewReserve(r, t[r])]
  BY DEF Init
<1>2. /\ now = 0 /\ account = [u \in Users |-> [r \in Reserves |-> NewUserReserve(u, r)]]
      /\ pool = Nothing /\ position = Nothing /\ page = Blank
  BY DEF Init
<1>3. ASSUME NEW r \in Reserves
      PROVE  market[r] = NewReserve(r, t[r]) /\ ReserveOK(r, market[r], 0)
  <2>1. StrategyRates(r, t[r]) \in [liquidity : Nat, variable : Nat, stable : Nat]
        /\ t[r] \in AllTotals /\ t[r] \in Totals[r]
    BY <1>1, StrategyRatesNat
  <2>2. market[r] = NewReserve(r, t[r])
    BY <1>1
  <2> QED BY <1>0, <2>1, <2>2 DEF ReserveOK, Reserve, NewReserve
<1>4. ASSUME NEW u \in Users, NEW r \in Reserves
      PROVE  account[u][r] = NewUserReserve(u, r) /\ UserReserveOK(r, account[u][r], 0)
  <2>1. Opening[u][r] \in Nat
    BY <1>0
  <2>2. account[u][r] = NewUserReserve(u, r)
    BY <1>2
  <2> QED BY <1>0, <2>1, <2>2 DEF UserReserveOK, UserReserve, NewUserReserve, StableRates
<1>5. ChainOK
  <2>1. market \in [Reserves -> Reserve]
    BY <1>1, <1>3 DEF ReserveOK
  <2>2. account \in [Users -> [Reserves -> UserReserve]]
    BY <1>2, <1>4 DEF UserReserveOK
  <2>3. ASSUME NEW u \in Users, NEW r \in Reserves
        PROVE  account[u][r].userBalanceIndex <= market[r].liquidityIndex
    <3>0. account[u][r] = NewUserReserve(u, r) /\ market[r] = NewReserve(r, t[r])
      BY <1>3, <1>4
    <3>1. account[u][r].userBalanceIndex = RAY
      BY ONLY <3>0 DEF NewUserReserve
    <3>2. market[r].liquidityIndex = RAY
      BY ONLY <3>0 DEF NewReserve
    <3> QED BY <1>0, <3>1, <3>2
  <2>4. now \in Nat
    BY <1>2
  <2>5. /\ \A r \in Reserves : ReserveOK(r, market[r], now)
        /\ \A u \in Users : \A r \in Reserves : UserReserveOK(r, account[u][r], now)
    BY <1>2, <1>3, <1>4
  <2> QED BY <2>1, <2>2, <2>3, <2>4, <2>5 DEF ChainOK
<1>6. ASSUME NEW u \in Users, NEW r \in Reserves
      PROVE  Address(u, r) = None /\ Received(u, r) = 0
  <2>1. account[u][r] = NewUserReserve(u, r)
    BY <1>4
  <2> QED BY ONLY <2>1 DEF Address, Received, NewUserReserve
<1>7. Redirections
  <2>1. NoChains
    BY <1>6 DEF NoChains
  <2> DEFINE z == [u \in Users |-> 0]
  <2>2. Total(z, Users) = 0
    <3> DEFINE one == 1
               none == 0
    <3>1. /\ one \in Int /\ none \in Int
          /\ \A x \in Users : z[x] \in Int /\ one * z[x] <= none * z[x] + none
      OBVIOUS
    <3>2. \A x \in Users : z[x] \in Nat
      OBVIOUS
    <3> HIDE DEF one, none, z
    <3>3. /\ Cardinality(Users) \in Nat /\ Total(z, Users) \in Int
          /\ one * Total(z, Users) <= none * Total(z, Users) + none * Cardinality(Users)
      BY <1>0, <3>1, TotalCompare
    <3>4. Total(z, Users) <= 0
      BY <3>3 DEF one, none
    <3>5. Total(z, Users) \in Nat
      BY <1>0, <3>2, TotalNat
    <3> QED BY <3>4, <3>5
  <2>3. ASSUME NEW r \in Reserves
        PROVE  /\ AllReceived(r) = z /\ AllRedirected(r) = z
               /\ \A v \in Users : RedirectedTo(v, r) = z
    BY <1>0, <1>6 DEF AllReceived, AllRedirected, RedirectedTo
  <2> HIDE DEF z
  <2>4. ReceivedIsRedirected
    BY <1>6, <2>2, <2>3 DEF ReceivedIsRedirected
  <2>5. AllAccounted
    BY <2>3 DEF AllAccounted
  <2> QED BY <2>1, <2>4, <2>5 DEF Redirections
<1>8. SnapshotsOK /\ PageIsComputed
  BY <1>2 DEF SnapshotsOK, PageIsComputed
<1> QED BY <1>5, <1>7, <1>8 DEF IInv

\* Every transaction, fetch and computation keeps the invariant.
THEOREM InvStep == IInv /\ [Next]_vars => IInv'
<1> SUFFICES ASSUME IInv, [Next]_vars PROVE IInv'
  OBVIOUS
<1>0. ChainOK /\ Redirections /\ SnapshotsOK /\ PageIsComputed /\ now \in Nat
  BY DEF IInv, ChainOK
<1>1. CASE page = Blank /\ Chain
  <2>1. ChainOK' /\ Redirections'
    BY <1>1, ChainKeeps
  <2>2. /\ now' \in Nat /\ now <= now'
        /\ pool' = pool /\ position' = position /\ page' = page
    BY <1>1, ChainLeaves
  <2>3. SnapshotsOK'
    BY <1>0, <2>2, SnapshotsStay
  <2>4. PageIsComputed'
    BY <1>1, <2>2 DEF PageIsComputed
  <2> QED BY <2>1, <2>3, <2>4 DEF IInv
<1>2. ASSUME now' = now, market' = market, account' = account
      PROVE  ChainOK' /\ Redirections'
  <2>1. ChainOK'
    BY <1>0, <1>2 DEF ChainOK
  <2>2. Redirections'
    BY <1>0, <1>2, SameRedirections DEF Address, Principal, Received
  <2> QED BY <2>1, <2>2
<1>3. CASE page = Blank /\ FetchPool
  <2>1. now' = now /\ market' = market /\ account' = account /\ position' = position
        /\ pool' = market /\ page' = page
    BY <1>3 DEF FetchPool
  <2>2. ChainOK' /\ Redirections'
    BY <1>2, <2>1
  <2>3. SnapshotsOK'
    BY <1>0, <2>1 DEF SnapshotsOK, ChainOK
  <2>4. PageIsComputed'
    BY <1>3, <2>1 DEF PageIsComputed
  <2> QED BY <2>2, <2>3, <2>4 DEF IInv
<1>4. CASE page = Blank /\ FetchPosition
  <2>1. now' = now /\ market' = market /\ account' = account /\ pool' = pool
        /\ position' = account[Wallet] /\ page' = page
    BY <1>4 DEF FetchPosition
  <2>2. ChainOK' /\ Redirections'
    BY <1>2, <2>1
  <2>3. position' \in [Reserves -> UserReserve]
        /\ \A r \in Reserves : UserReserveOK(r, position'[r], now)
    BY <1>0, <2>1, V1Assumption DEF ChainOK
  <2>4. SnapshotsOK'
    BY <1>0, <2>1, <2>3 DEF SnapshotsOK
  <2>5. PageIsComputed'
    BY <1>4, <2>1 DEF PageIsComputed
  <2> QED BY <2>2, <2>4, <2>5 DEF IInv
<1>5. ASSUME NEW p, Turn(p),
             \/ \E lag \in Lags : p = computeRawUserSummaryData(pool, position, now - lag)
             \/ pool # Nothing
                /\ p = [kind |-> "list", reserves |-> formatReserves(pool, ThirtyDaysAgo)]
             \/ \E r \in Moving : r \in DOMAIN pool /\ p = SimulatedRates(r)
      PROVE  IInv'
  <2>1. now' = now /\ market' = market /\ account' = account /\ pool' = pool
        /\ position' = position /\ page' = p
    BY <1>5 DEF Turn
  <2>2. ChainOK' /\ Redirections'
    BY <1>2, <2>1
  <2>3. SnapshotsOK'
    BY <1>0, <2>1 DEF SnapshotsOK
  <2>4. PageIsComputed'
    <3>1. \A r : SimulatedRates(r)' = SimulatedRates(r)
      BY <2>1 DEF SimulatedRates
    <3> QED BY <1>5, <2>1, <3>1 DEF PageIsComputed
  <2> QED BY <2>2, <2>3, <2>4 DEF IInv
<1>6. ASSUME NEW lag \in Lags, Show(lag) PROVE IInv'
  BY <1>5, <1>6 DEF Show
<1>7. CASE pool # Nothing /\ ShowReserves
  BY <1>5, <1>7 DEF ShowReserves
<1>8. ASSUME NEW r \in Moving, Simulate(r, 0, 0, "variable") PROVE IInv'
  BY <1>5, <1>8 DEF Simulate, SimulatedRates
<1>9. CASE Close
  <2>1. now' = now /\ market' = market /\ account' = account /\ pool' = pool
        /\ position' = position /\ page' = Blank
    BY <1>9 DEF Close
  <2>2. ChainOK' /\ Redirections'
    BY <1>2, <2>1
  <2> QED BY <1>0, <2>1, <2>2 DEF IInv, SnapshotsOK, PageIsComputed
<1>10. CASE UNCHANGED vars
  <2>1. now' = now /\ market' = market /\ account' = account /\ pool' = pool
        /\ position' = position /\ page' = page
    BY <1>10 DEF vars
  <2>2. ChainOK' /\ Redirections'
    BY <1>2, <2>1
  <2>3. SnapshotsOK'
    BY <1>0, <2>1 DEF SnapshotsOK
  <2>4. PageIsComputed'
    <3>1. \A r : SimulatedRates(r)' = SimulatedRates(r)
      BY <2>1 DEF SimulatedRates
    <3> QED BY <1>0, <2>1, <3>1 DEF PageIsComputed
  <2> QED BY <2>2, <2>3, <2>4 DEF IInv
<1> QED BY <1>1, <1>3, <1>4, <1>6, <1>7, <1>8, <1>9, <1>10 DEF Next

\* The invariant, in every state: rates are the strategy's, nobody redirects in a
\* chain, and what is redirected to a user is what the others redirect.
THEOREM Invariant == Spec => []IInv
BY InvInit, InvStep, PTL DEF Spec

-----------------------------------------------------------------------------
(* What is shown of a deposit.                                             *)

\* The deposit with the interest that its owner has earned since he settled.
LEMMA ShownBalance ==
  ASSUME NEW a \in UserReserve, a.redirectedBalance >= 0, a.userBalanceIndex >= RAY,
         NEW m, NEW t, NEW income \in Nat,
         income = getReserveNormalizedIncome(m.rates.liquidity, m.liquidityIndex,
                                             m.lastUpdateTimestamp, t)
  PROVE  /\ Earning(a) \in Nat
         /\ Cumulated(Earning(a), income, a.userBalanceIndex) \in Nat
         /\ calculateCurrentUnderlyingBalance(a, m, t)
              = a.principalATokenBalance
                  + (Cumulated(Earning(a), income, a.userBalanceIndex) - Earning(a))
<1> DEFINE x == a.userBalanceIndex
           P == a.principalATokenBalance
           R == a.redirectedBalance
           E == Earning(a)
           S == calculateCurrentUnderlyingBalance(a, m, t)
           C(b) == Cumulated(b, income, x)
<1>1. x \in Nat /\ x >= RAY /\ P \in Nat /\ R \in Nat
  BY DEF UserReserve
<1>2. \A b \in Nat : C(b) \in Nat
  BY <1>1, CumulatedBounds
<1>3. C(0) = 0
  BY <1>1, CumulatedNothing
<1>4. E = R + (IF a.interestRedirectionAddress = None THEN P ELSE 0)
  BY DEF Earning
<1>5. \A b : calculateCumulatedBalance(b, a, m, t) = C(b)
  BY CumulatedBalance
<1>6. S = IF P = 0 /\ R = 0 THEN 0
          ELSE IF a.interestRedirectionAddress # None THEN P + C(R) - R
          ELSE C(R + P) - R
  BY <1>5 DEF calculateCurrentUnderlyingBalance
<1>7. E \in Nat /\ C(E) \in Nat /\ C(R) \in Nat /\ R + P \in Nat /\ C(R + P) \in Nat
  BY <1>1, <1>2, <1>4
<1> HIDE DEF P, R, E, S, C, x
<1>8. S = P + (C(E) - E)
  <2>1. CASE P = 0 /\ R = 0
    <3>1. E = 0
      BY <1>4, <2>1
    <3>2. S = 0 /\ C(E) = 0
      BY <1>3, <1>6, <2>1, <3>1
    <3> QED BY <2>1, <3>1, <3>2
  <2>2. CASE ~(P = 0 /\ R = 0) /\ a.interestRedirectionAddress # None
    <3>1. E = R
      BY <1>1, <1>4, <2>2
    <3>2. S = P + C(R) - R
      BY <1>6, <2>2
    <3> QED BY <1>1, <1>7, <3>1, <3>2
  <2>3. CASE ~(P = 0 /\ R = 0) /\ a.interestRedirectionAddress = None
    <3>1. E = R + P
      BY <1>1, <1>4, <2>3
    <3>2. S = C(R + P) - R
      BY <1>6, <2>3
    <3> QED BY <1>1, <1>7, <3>1, <3>2
  <2> QED BY <2>1, <2>2, <2>3
<1> QED BY <1>7, <1>8 DEF P, E, S, C, x

\* Everything on chain.
LEMMA BalanceIs ==
  ASSUME ChainOK, NEW u \in Users, NEW r \in Reserves
  PROVE  Balance(u, r) = Principal(u, r) + Interest(r, account[u][r])
<1> DEFINE a == account[u][r]
           m == market[r]
           income == NormalizedIncome(r)
<1>1. UserReserveOK(r, a, now)
  BY DEF ChainOK
<1>2. a \in UserReserve /\ a.redirectedBalance >= 0 /\ a.userBalanceIndex >= RAY
  BY <1>1 DEF UserReserveOK
<1>3. income \in Nat
  BY NormalizedIncomeNat
<1>4. income = getReserveNormalizedIncome(m.rates.liquidity, m.liquidityIndex,
                                          m.lastUpdateTimestamp, now)
  BY DEF NormalizedIncome
<1>5. Interest(r, a) = Cumulated(Earning(a), income, a.userBalanceIndex) - Earning(a)
  BY InterestIsGrowth
<1>6. Balance(u, r) = calculateCurrentUnderlyingBalance(a, m, now)
      /\ Principal(u, r) = a.principalATokenBalance
  BY DEF Balance, Principal
<1> HIDE DEF a, m, income
<1>7. calculateCurrentUnderlyingBalance(a, m, now)
        = a.principalATokenBalance
            + (Cumulated(Earning(a), income, a.userBalanceIndex) - Earning(a))
  BY <1>2, <1>3, <1>4, ShownBalance
<1> QED BY <1>5, <1>6, <1>7 DEF a

\* After a transaction: who settled, and who did not.
LEMMA BalanceAfter ==
  ASSUME ChainOK, ChainOK', NEW u \in Users, NEW r \in Reserves, Transact(r),
         NEW d,
         \/ account'[u][r] = account[u][r]
         \/ SettledBy(account'[u][r], account[u][r], r, d, 0)
  PROVE  Balance(u, r)' = Balance(u, r)
<1> DEFINE a == account'[u][r]
           m == market'[r]
           income == NormalizedIncome(r)
           C == Cumulated(Earning(a), income, a.userBalanceIndex)
<1>1. UserReserveOK(r, a, now')
  BY DEF ChainOK
<1>2. a \in UserReserve /\ a.redirectedBalance >= 0 /\ a.userBalanceIndex >= RAY
  BY <1>1 DEF UserReserveOK
<1>3. income \in Nat /\ income >= RAY
  BY NormalizedIncomeNat
<1>4. income = getReserveNormalizedIncome(m.rates.liquidity, m.liquidityIndex,
                                          m.lastUpdateTimestamp, now')
  BY TransactKeepsIncome DEF NormalizedIncome
<1>5. Balance(u, r)' = calculateCurrentUnderlyingBalance(a, m, now')
  BY DEF Balance
<1>6. Balance(u, r) = Principal(u, r) + Interest(r, account[u][r])
  BY BalanceIs
<1>7. Principal(u, r) \in Nat /\ Interest(r, account[u][r]) \in Nat
  BY InterestNat, AccountValues
<1> HIDE DEF m, income
<1>8. /\ Balance(u, r)' = a.principalATokenBalance + (C - Earning(a))
      /\ C \in Nat /\ Earning(a) \in Nat
  BY <1>2, <1>3, <1>4, <1>5, ShownBalance
<1>9. CASE account'[u][r] = account[u][r]
  <2>1. Interest(r, account[u][r]) = C - Earning(a)
    BY <1>9, InterestIsGrowth DEF income
  <2>2. Principal(u, r) = a.principalATokenBalance
    BY <1>9 DEF Principal
  <2> QED BY <1>6, <1>8, <2>1, <2>2
<1>10. CASE SettledBy(account'[u][r], account[u][r], r, d, 0)
  <2>1. /\ a.principalATokenBalance = Principal(u, r) + Interest(r, account[u][r]) + 0
        /\ a.userBalanceIndex = income
    BY <1>10 DEF SettledBy, Principal, income
  <2>2. Cumulated(Earning(a), income, income) = Earning(a)
    <3>1. income >= income
      BY <1>3
    <3> QED BY <1>3, <1>8, <3>1, CumulatedKeeps
  <2>3. C - Earning(a) = 0
    BY <1>8, <2>1, <2>2
  <2> QED BY <1>6, <1>7, <1>8, <2>1, <2>3
<1> QED BY <1>9, <1>10

(***************************************************************************)
(* Redirecting interest, ceasing to and others' transactions change what   *)
(* no user is shown: his account settles at the income at which the page   *)
(* reads it.                                                               *)
(***************************************************************************)
LEMMA StepMovesNothing ==
  ASSUME IInv, IInv', NEW r \in Moving,
         \/ Touch(r)
         \/ \E u \in Users : StopRedirecting(u, r) \/ \E v \in Users : Redirect(u, v, r)
  PROVE  \A x \in Users : Balance(x, r)' = Balance(x, r)
<1>0. ChainOK /\ ChainOK' /\ r \in Reserves
  BY V1Assumption DEF IInv
<1>1. CASE Touch(r)
  BY <1>0, <1>1, BalanceAfter DEF Touch
<1>2. ASSUME NEW u \in Users, StopRedirecting(u, r), NEW x \in Users
      PROVE  Balance(x, r)' = Balance(x, r)
  <2>w. PICK w : w = Address(u, r)
    OBVIOUS
  <2>d. PICK d : d = -Principal(u, r)
    OBVIOUS
  <2>1. /\ Transact(r)
        /\ \A z \in Users : \A y \in Reserves :
             (y # r \/ z \notin {u, w}) => account'[z][y] = account[z][y]
        /\ SettledBy(account'[u][r], account[u][r], r, 0, 0)
        /\ SettledBy(account'[w][r], account[w][r], r, d, 0)
    BY <1>0, <1>2, <2>w, <2>d, StopRedirectingGives
  <2>2. CASE x \notin {u, w}
    BY <1>0, <2>1, <2>2, BalanceAfter
  <2>3. CASE x \in {u, w}
    BY <1>0, <2>1, <2>3, BalanceAfter
  <2> QED BY <2>2, <2>3
<1>3. ASSUME NEW u \in Users, NEW v \in Users, Redirect(u, v, r), NEW x \in Users
      PROVE  Balance(x, r)' = Balance(x, r)
  <2>d. PICK d : d = Principal(u, r) + Interest(r, account[u][r])
    OBVIOUS
  <2>1. /\ Transact(r)
        /\ \A z \in Users : \A y \in Reserves :
             (y # r \/ z \notin {u, v}) => account'[z][y] = account[z][y]
        /\ SettledBy(account'[u][r], account[u][r], r, 0, 0)
        /\ SettledBy(account'[v][r], account[v][r], r, d, 0)
    BY <1>0, <1>3, <2>d, RedirectGives
  <2>2. CASE x \notin {u, v}
    BY <1>0, <2>1, <2>2, BalanceAfter
  <2>3. CASE x \in {u, v}
    BY <1>0, <2>1, <2>3, BalanceAfter
  <2> QED BY <2>2, <2>3
<1> QED BY <1>1, <1>2, <1>3

\* A transaction that settles interest changes no balance that getATokenBalance
\* computes: what one user gives up is what another receives.
THEOREM SettlingMovesNothing == Spec => RedirectingMovesNothing
<1> DEFINE Moves ==
      \A r \in Moving :
        (\/ Touch(r)
         \/ \E u \in Users : StopRedirecting(u, r) \/ \E v \in Users : Redirect(u, v, r))
        => \A u \in Users : Balance(u, r)' = Balance(u, r)
<1>1. IInv /\ IInv' /\ [Next]_vars => [Moves]_vars
  <2>1. IInv /\ IInv' => Moves
    BY StepMovesNothing
  <2> QED BY <2>1
<1> QED BY <1>1, Invariant, PTL DEF Spec, RedirectingMovesNothing

-----------------------------------------------------------------------------
(* Interest is shown once.                                                 *)

EarningOf(r) == [u \in Users |-> Earning(account[u][r])]
InterestOf(r) == [u \in Users |-> Interest(r, account[u][r])]
GrownOf(r) == [u \in Users |-> Cumulated(Earning(account[u][r]), NormalizedIncome(r),
                                         account[u][r].userBalanceIndex)]
PrincipalOf(r) == [u \in Users |-> account[u][r].principalATokenBalance]
BalanceOf(r) == [u \in Users |-> Balance(u, r)]

\* All deposits are earned on, by their owners or by others.
LEMMA AllEarned ==
  ASSUME ChainOK, Redirections, NEW r \in Reserves
  PROVE  /\ Total(EarningOf(r), Users) = Total(PrincipalOf(r), Users)
         /\ Total(PrincipalOf(r), Users) \in Nat
<1> DEFINE own == [u \in Users |-> IF Address(u, r) = None THEN Principal(u, r) ELSE 0]
           R == AllReceived(r)
           D == AllRedirected(r)
           E == EarningOf(r)
           P == PrincipalOf(r)
<1>0. IsFiniteSet(Users)
  BY V1Assumption
<1>1. \A u \in Users : Principal(u, r) \in Nat /\ Received(u, r) \in Nat
  BY AccountValues
<1>2. \A u \in Users : R[u] \in Int /\ own[u] \in Int /\ E[u] = R[u] + own[u]
  BY <1>1 DEF AllReceived, EarningOf, Earning, Address, Principal, Received
<1>3. \A u \in Users : D[u] \in Int /\ own[u] \in Int /\ P[u] = D[u] + own[u]
  BY <1>1 DEF AllRedirected, PrincipalOf, Address, Principal
<1>4. \A u \in Users : P[u] \in Nat
  BY <1>1 DEF PrincipalOf, Principal
<1> HIDE DEF own, E, P, D, R
<1>5. /\ Total(R, Users) \in Int /\ Total(own, Users) \in Int
      /\ Total(E, Users) = Total(R, Users) + Total(own, Users)
  BY <1>0, <1>2, TotalAdds
<1>6. /\ Total(D, Users) \in Int
      /\ Total(P, Users) = Total(D, Users) + Total(own, Users)
  BY <1>0, <1>3, TotalAdds
<1>7. Total(R, Users) = Total(D, Users)
  BY DEF Redirections, AllAccounted, R, D
<1>8. Total(P, Users) \in Nat
  BY <1>0, <1>4, TotalNat
<1> QED BY <1>5, <1>6, <1>7, <1>8 DEF E, P

\* What is shown beyond the deposits.
LEMMA AllShown ==
  ASSUME ChainOK, Redirections, NEW r \in Reserves
  PROVE  /\ Total(GrownOf(r), Users) \in Int
         /\ Total(BalanceOf(r), Users) - Total(PrincipalOf(r), Users)
              = Total(GrownOf(r), Users) - Total(PrincipalOf(r), Users)
<1> DEFINE I == InterestOf(r)
           B == BalanceOf(r)
           E == EarningOf(r)
           P == PrincipalOf(r)
           C == GrownOf(r)
<1>0. IsFiniteSet(Users)
  BY V1Assumption
<1>1. ASSUME NEW u \in Users
      PROVE  /\ P[u] \in Int /\ I[u] \in Int /\ E[u] \in Int
             /\ B[u] = P[u] + I[u] /\ C[u] = E[u] + I[u]
  <2>1. /\ Principal(u, r) \in Nat /\ Interest(r, account[u][r]) \in Nat
        /\ Earning(account[u][r]) \in Nat
    BY AccountValues, InterestNat
  <2>2. Balance(u, r) = Principal(u, r) + Interest(r, account[u][r])
    BY BalanceIs
  <2> DEFINE c == Cumulated(Earning(account[u][r]), NormalizedIncome(r),
                            account[u][r].userBalanceIndex)
  <2>3. Interest(r, account[u][r]) = c - Earning(account[u][r])
    BY InterestIsGrowth
  <2>4. c \in Int
    <3>1. account[u][r] \in UserReserve /\ account[u][r].userBalanceIndex >= RAY
      BY DEF ChainOK, UserReserveOK
    <3>2. account[u][r].userBalanceIndex \in Nat
      BY <3>1 DEF UserReserve
    <3>3. c \in Nat
      BY <2>1, <3>1, <3>2, NormalizedIncomeNat, CumulatedBounds
    <3> QED BY <3>3
  <2>5. /\ P[u] = Principal(u, r) /\ I[u] = Interest(r, account[u][r])
        /\ E[u] = Earning(account[u][r]) /\ B[u] = Balance(u, r) /\ C[u] = c
    BY DEF PrincipalOf, InterestOf, EarningOf, BalanceOf, GrownOf, Principal
  <2> HIDE DEF c, P, I, E, B, C
  <2> QED BY <2>1, <2>2, <2>3, <2>4, <2>5
<1> HIDE DEF I, B, E, P, C
<1>2. /\ Total(P, Users) \in Int /\ Total(I, Users) \in Int
      /\ Total(B, Users) = Total(P, Users) + Total(I, Users)
  BY <1>0, <1>1, TotalAdds
<1>3. /\ Total(E, Users) \in Int
      /\ Total(C, Users) = Total(E, Users) + Total(I, Users)
  BY <1>0, <1>1, TotalAdds
<1>4. Total(E, Users) = Total(P, Users)
  BY AllEarned DEF E, P
<1> QED BY <1>2, <1>3, <1>4 DEF B, P, C

\* All balances together are the deposits grown, up to a rounding for each user:
\* no interest is shown twice and none is lost.
THEOREM EarnedIsShown == IInv => InterestShownOnce
<1> SUFFICES ASSUME IInv, NEW r \in Moving
             PROVE  LET principal == Total(PrincipalOf(r), Users)
                        shown == Total(BalanceOf(r), Users)
                        indices == {account[u][r].userBalanceIndex : u \in Users}
                        Earned(index) ==
                          (principal * NormalizedIncome(r)) \div index - principal
                    IN  shown - principal
                          \in (Earned(Max(indices)) - Cardinality(Users))
                              ..(Earned(Min(indices)) + Cardinality(Users))
  BY DEF InterestShownOnce, PrincipalOf, BalanceOf
<1>0. ChainOK /\ Redirections /\ r \in Reserves /\ IsFiniteSet(Users) /\ Wallet \in Users
  BY V1Assumption DEF IInv
<1> DEFINE principal == Total(PrincipalOf(r), Users)
           shown == Total(BalanceOf(r), Users)
           indices == {account[u][r].userBalanceIndex : u \in Users}
           index == [u \in Users |-> account[u][r].userBalanceIndex]
           C == GrownOf(r)
           E == EarningOf(r)
           income == NormalizedIncome(r)
           N == Cardinality(Users)
           grown == Total(C, Users)
<1>1. /\ principal \in Nat /\ Total(E, Users) = principal
      /\ grown \in Int /\ shown - principal = grown - principal
      /\ income \in Nat /\ N \in Nat
  <2>1. N \in Nat
    BY <1>0, FS_CardinalityType
  <2> QED BY <1>0, <2>1, AllEarned, AllShown, NormalizedIncomeNat
<1>2. ASSUME NEW u \in Users
      PROVE  /\ index[u] \in Nat \ {0} /\ E[u] \in Nat /\ C[u] \in Nat
             /\ index[u] * C[u] <= E[u] * income + index[u]
             /\ E[u] * income <= index[u] * C[u] + index[u]
  <2>1. UserReserveOK(r, account[u][r], now)
    BY <1>0 DEF ChainOK
  <2>2. /\ index[u] \in Nat /\ index[u] >= RAY /\ index[u] = account[u][r].userBalanceIndex
        /\ index[u] \in Nat \ {0}
    BY <2>1 DEF UserReserveOK, UserReserve
  <2>3. E[u] \in Nat /\ E[u] = Earning(account[u][r])
    BY <1>0, InterestNat DEF EarningOf
  <2>4. C[u] = Cumulated(E[u], income, index[u])
    BY <2>2, <2>3 DEF GrownOf
  <2> HIDE DEF index, C, E, income
  <2>5. income \in Nat /\ u \in Users
    BY <1>1
  <2>6. index[u] \in Nat \ {0} /\ E[u] \in Nat
    BY <2>2, <2>3
  <2>7. /\ C[u] \in Nat
        /\ index[u] * C[u] <= E[u] * income + index[u]
        /\ E[u] * income <= index[u] * C[u] + index[u]
    BY ONLY <2>2, <2>3, <2>4, <2>5, CumulatedBounds
  <2> QED BY ONLY <2>6, <2>7
<1>3. PICK M \in Users : \A u \in Users : index[u] <= index[M]
  <2>1. \A u \in Users : index[u] \in Int
    BY <1>2
  <2>2. Users \in SUBSET Users /\ Users # {}
    BY <1>0
  <2> HIDE DEF index
  <2>3. \A T \in SUBSET Users : T # {} => \E x \in T : \A y \in T : index[y] <= index[x]
    BY <1>0, <2>1, GreatestTerm
  <2> QED BY <2>2, <2>3
<1>4. PICK m \in Users : \A u \in Users : index[m] <= index[u]
  <2>1. \A u \in Users : index[u] \in Int
    BY <1>2
  <2>2. Users # {}
    BY <1>0
  <2> HIDE DEF index
  <2> QED BY <1>0, <2>1, <2>2, LeastTerm
<1>5. \A u \in Users : index[u] \in Int
  BY <1>2
<1>6. indices = {index[u] : u \in Users}
  OBVIOUS
<1> HIDE DEF index, indices, principal, shown, C, E, income, N, grown
<1>7. Max(indices) = index[M] /\ Min(indices) = index[m]
  <2>1. index[M] \in indices /\ index[m] \in indices
    BY <1>6
  <2>2. \A y \in indices : y \in Int /\ index[M] >= y /\ index[m] <= y
    BY <1>3, <1>4, <1>5, <1>6
  <2>3. \A x \in indices : (\A y \in indices : x >= y) => x = index[M]
    BY <2>1, <2>2
  <2>4. \A x \in indices : (\A y \in indices : x <= y) => x = index[m]
    BY <2>1, <2>2
  <2>5. Max(indices) \in indices /\ \A y \in indices : Max(indices) >= y
    BY <2>1, <2>2 DEF Max
  <2>6. Min(indices) \in indices /\ \A y \in indices : Min(indices) <= y
    BY <2>1, <2>2 DEF Min
  <2> QED BY <2>3, <2>4, <2>5, <2>6
<1> DEFINE big == index[M]
           small == index[m]
           earned == principal * income
<1>8. /\ big \in Nat \ {0} /\ small \in Nat \ {0} /\ earned \in Nat
      /\ income * principal = earned
  BY <1>1, <1>2
<1>9. income * principal <= big * grown + big * N
  <2>1. ASSUME NEW u \in Users
        PROVE  E[u] \in Int /\ C[u] \in Int /\ income * E[u] <= big * C[u] + big
    <3> DEFINE x == index[u]
               c == C[u]
               e == E[u]
    <3>1. x \in Nat /\ big \in Nat /\ x <= big /\ c \in Nat /\ e \in Nat
          /\ e * income <= x * c + x
      BY <1>2, <1>3
    <3> HIDE DEF x, c, e, big
    <3>2. x * c <= big * c /\ x * c \in Nat /\ big * c \in Nat /\ e * income = income * e
          /\ income * e \in Nat
      BY <1>1, <3>1
    <3>3. income * e <= big * c + big
      BY <3>1, <3>2
    <3> QED BY <3>1, <3>3 DEF c, e
  <2>2. income \in Int /\ big \in Int
    BY <1>1, <1>8
  <2> HIDE DEF big
  <2>3. income * Total(E, Users) <= big * Total(C, Users) + big * Cardinality(Users)
    BY <1>0, <2>1, <2>2, TotalCompare
  <2> QED BY <1>1, <2>3 DEF grown, N
<1>10. small * grown <= income * principal + small * N
  <2>1. ASSUME NEW u \in Users
        PROVE  E[u] \in Int /\ C[u] \in Int /\ small * C[u] <= income * E[u] + small
    <3> DEFINE x == index[u]
               c == C[u]
               e == E[u]
    <3>1. x \in Nat /\ small \in Nat /\ small <= x /\ c \in Nat /\ e \in Nat
          /\ x * c <= e * income + x
      BY <1>2, <1>4, <1>8
    <3> HIDE DEF x, c, e, small
    <3>2. e * income = income * e /\ income * e \in Nat
      BY <1>1, <3>1
    <3>3. small * c <= income * e + small
      <4>1. CASE c = 0
        <5>1. small * c = 0
          BY <3>1, <4>1
        <5> QED BY <3>1, <3>2, <5>1
      <4>2. CASE c # 0
        <5> DEFINE k == c - 1
        <5>1. k \in Nat /\ c = k + 1
          BY <3>1, <4>2
        <5> HIDE DEF k
        <5>2. small * k <= x * k /\ small * k \in Nat /\ x * k \in Nat
          BY <3>1, <5>1
        <5>3. x * c = x * k + x /\ small * c = small * k + small
          BY <3>1, <5>1
        <5> QED BY <3>1, <3>2, <5>2, <5>3
      <4> QED BY <4>1, <4>2
    <3> QED BY <3>1, <3>3 DEF c, e
  <2>2. income \in Int /\ small \in Int
    BY <1>1, <1>8
  <2> HIDE DEF small
  <2>3. small * Total(C, Users) <= income * Total(E, Users) + small * Cardinality(Users)
    BY <1>0, <2>1, <2>2, TotalCompare
  <2> QED BY <1>1, <2>3 DEF grown, N
<1> HIDE DEF big, small, earned
<1>11. earned \div big \in Int /\ earned \div big <= grown + N
  <2> DEFINE k == grown + N
             q == earned \div big
  <2>1. k \in Int /\ big * k = big * grown + big * N
    BY <1>1, <1>8
  <2>2. earned <= big * k
    BY <1>8, <1>9, <2>1
  <2>3. earned \in Int /\ big \in Nat \ {0}
    BY <1>8
  <2>4. q \in Int /\ big * q <= earned
    BY <2>3, DivBounds
  <2> HIDE DEF k, q
  <2>5. big * (k - q) >= 0 /\ k - q \in Int
    <3>0. big \in Int /\ k \in Int /\ q \in Int
      BY <2>1, <2>3, <2>4
    <3>1. big * (k - q) = big * k - big * q /\ big * k \in Int /\ big * q \in Int
      BY ONLY <3>0
    <3> QED BY <2>2, <2>3, <2>4, <3>0, <3>1
  <2>6. k - q >= 0
    BY <2>3, <2>5
  <2> QED BY <2>1, <2>4, <2>6 DEF k, q
<1>12. earned \div small \in Int /\ grown - N <= earned \div small
  <2> DEFINE k == grown - N
             q == earned \div small
  <2>1. k \in Int /\ small * k = small * grown - small * N
    BY <1>1, <1>8
  <2>2. small * grown \in Int /\ small * N \in Int /\ earned \in Int
        /\ small \in Nat \ {0}
    BY <1>1, <1>8
  <2>3. small * k <= earned
    BY <1>8, <1>10, <2>1, <2>2
  <2>4. q \in Int /\ earned < small * q + small
    BY <2>2, DivBounds
  <2> HIDE DEF k, q
  <2>5. small * (q + 1 - k) > 0 /\ q + 1 - k \in Int
    <3>0. small \in Int /\ k \in Int /\ q \in Int
      BY <2>1, <2>2, <2>4
    <3>1. small * (q + 1 - k) = small * q + small - small * k
          /\ small * k \in Int /\ small * q \in Int
      BY ONLY <3>0
    <3> QED BY <2>2, <2>3, <2>4, <3>0, <3>1
  <2>6. q + 1 - k > 0
    BY <2>2, <2>5
  <2> QED BY <2>1, <2>4, <2>6 DEF k, q
<1>13. grown - principal \in
         (earned \div big - principal - N)..(earned \div small - principal + N)
  BY <1>1, <1>11, <1>12
<1> QED BY <1>1, <1>7, <1>13 DEF big, small, earned, principal, shown, indices, income, N

\* So it is in every state, for any number of users and of redirections.
THEOREM ShownOnce == Spec => []InterestShownOnce
BY Invariant, EarnedIsShown, PTL

-----------------------------------------------------------------------------
(* The page.                                                               *)

ShownData(t) ==
  [r \in DOMAIN position |-> computeUserReserveData(pool[r], position[r], t)]
ShownEth(t) == [r \in DOMAIN position |-> InEth(r, ShownData(t)[r].balance)]
ShownDebtsEth(t) == [r \in DOMAIN position |-> InEth(r, ShownData(t)[r].borrows)]
ShownFeesEth(t) == [r \in DOMAIN position |-> InEth(r, ShownData(t)[r].fee)]
Pledged == collateralOf(pool, position)
LtvTerms(t) == [r \in Pledged |-> ShownEth(t)[r] * Config[r].ltv]
ThresholdTerms(t) == [r \in Pledged |-> ShownEth(t)[r] * Config[r].threshold]

\* A summary is computed over what was on chain.
LEMMA OnSummary ==
  ASSUME IInv, page.kind = "summary"
  PROVE  /\ \E lag \in Lags : page.at = now - lag
         /\ page.reserves = ShownData(page.at)
         /\ page.liquidity = Total(ShownEth(page.at), DOMAIN position)
         /\ page.collateral = Total(ShownEth(page.at), Pledged)
         /\ page.borrows = Total(ShownDebtsEth(page.at), DOMAIN position)
         /\ page.fees = Total(ShownFeesEth(page.at), DOMAIN position)
         /\ page.ltv = Averaged(Total(LtvTerms(page.at), Pledged), page.collateral)
         /\ page.threshold = Averaged(Total(ThresholdTerms(page.at), Pledged), page.collateral)
         /\ page.available = availableBorrowsAfterFees(page.collateral, page.borrows,
                                                       page.fees, page.ltv)
         /\ page.maxWithdraw = maxAmountToWithdraw(page.liquidity, page.borrows, page.fees,
                                                   page.threshold)
         /\ page.healthFactor = healthFactorWithFees(page.collateral, page.borrows,
                                                     page.fees, page.threshold)
         /\ page = [kind |-> "summary", at |-> page.at, reserves |-> page.reserves,
                    liquidity |-> page.liquidity, collateral |-> page.collateral,
                    borrows |-> page.borrows, fees |-> page.fees, ltv |-> page.ltv,
                    threshold |-> page.threshold, available |-> page.available,
                    maxWithdraw |-> page.maxWithdraw, healthFactor |-> page.healthFactor]
         /\ DOMAIN position \subseteq Reserves
         /\ DOMAIN position = {} \/ DOMAIN position = Reserves
         /\ \A r \in DOMAIN position : /\ ReserveOK(r, pool[r], now)
                                       /\ UserReserveOK(r, position[r], now)
<1>1. page # Blank
  BY DEF Blank
<1>2. page # [kind |-> "list", reserves |-> formatReserves(pool, ThirtyDaysAgo)]
  OBVIOUS
<1>3. \A r : page # SimulatedRates(r)
  BY DEF SimulatedRates
<1>4. PICK lag \in Lags : page = computeRawUserSummaryData(pool, position, now - lag)
  BY <1>1, <1>2, <1>3 DEF IInv, PageIsComputed
<1>5. ~SomeUnknown(pool, position)
  BY <1>4 DEF computeRawUserSummaryData, Thrown
<1> DEFINE t == now - lag
           data == ShownData(t)
           liquidity == Total(ShownEth(t), DOMAIN position)
           collateral == Total(ShownEth(t), Pledged)
           borrows == Total(ShownDebtsEth(t), DOMAIN position)
           fees == Total(ShownFeesEth(t), DOMAIN position)
           ltv == Averaged(Total(LtvTerms(t), Pledged), collateral)
           threshold == Averaged(Total(ThresholdTerms(t), Pledged), collateral)
           available == availableBorrowsAfterFees(collateral, borrows, fees, ltv)
           withdraw == maxAmountToWithdraw(liquidity, borrows, fees, threshold)
           health == healthFactorWithFees(collateral, borrows, fees, threshold)
<1>6. page = [kind |-> "summary", at |-> t, reserves |-> data, liquidity |-> liquidity,
              collateral |-> collateral, borrows |-> borrows, fees |-> fees,
              ltv |-> ltv, threshold |-> threshold, available |-> available,
              maxWithdraw |-> withdraw, healthFactor |-> health]
  BY <1>4, <1>5 DEF computeRawUserSummaryData, summaryOf, ShownData, ShownEth, ShownDebtsEth,
                    ShownFeesEth, Pledged, LtvTerms, ThresholdTerms
<1> HIDE DEF t, data, liquidity, collateral, borrows, fees, ltv, threshold, available,
             withdraw, health
<1>7. /\ page.at = t /\ page.reserves = data /\ page.liquidity = liquidity
      /\ page.collateral = collateral /\ page.borrows = borrows /\ page.fees = fees
      /\ page.ltv = ltv /\ page.threshold = threshold /\ page.available = available
      /\ page.maxWithdraw = withdraw /\ page.healthFactor = health
      /\ page = [kind |-> "summary", at |-> page.at, reserves |-> page.reserves,
                 liquidity |-> page.liquidity, collateral |-> page.collateral,
                 borrows |-> page.borrows, fees |-> page.fees, ltv |-> page.ltv,
                 threshold |-> page.threshold, available |-> page.available,
                 maxWithdraw |-> page.maxWithdraw, healthFactor |-> page.healthFactor]
  BY ONLY <1>6
<1>8. DOMAIN Nothing = {}
  BY DEF Nothing
<1>9. /\ DOMAIN position \subseteq Reserves
      /\ DOMAIN position = {} \/ DOMAIN position = Reserves
      /\ \A r \in DOMAIN position : /\ ReserveOK(r, pool[r], now)
                                    /\ UserReserveOK(r, position[r], now)
  <2>1. CASE position = Nothing
    BY <1>8, <2>1
  <2>2. CASE position # Nothing
    <3>1. /\ position \in [Reserves -> UserReserve]
          /\ \A r \in Reserves : UserReserveOK(r, position[r], now)
      BY <2>2 DEF IInv, SnapshotsOK
    <3>2. \A r \in Reserves : r \in DOMAIN pool
      BY <1>5, <3>1 DEF SomeUnknown
    <3>3. ASSUME NEW r \in Reserves PROVE ReserveOK(r, pool[r], now)
      <4>1. pool # Nothing
        BY <1>8, <3>2
      <4> QED BY <4>1 DEF IInv, SnapshotsOK
    <3> QED BY <3>1, <3>3
  <2> QED BY <2>1, <2>2
<1> QED BY <1>7, <1>9 DEF t, data, liquidity, collateral, borrows, fees, ltv, threshold,
                         available, withdraw, health

(***************************************************************************)
(* A shown debt is the contract's, from an old snapshot of the reserve if  *)
(* the debt is stable.                                                     *)
(***************************************************************************)
THEOREM DebtsAreShown == IInv => ShownDebts
<1> SUFFICES ASSUME IInv, page.kind = "summary", page.at = now, NEW r \in DOMAIN position,
                    position[r] = account[Wallet][r],
                    position[r].borrowRateMode = "Stable" \/ pool[r] = market[r]
             PROVE  page.reserves[r].borrows = Debt(r, account[Wallet][r])
  BY DEF ShownDebts
<1> DEFINE a == position[r]
<1>1. page.reserves[r].borrows = getCompoundedBorrowBalance(pool[r], a, now)
  BY OnSummary DEF ShownData, computeUserReserveData
<1>2. UserReserveOK(r, a, now) /\ a \in UserReserve
  BY OnSummary DEF UserReserveOK
<1>3. a.principalBorrows = 0 \/ a.borrowRateMode \in {"Stable", "Variable"}
  <2>1. /\ a.principalBorrows > 0 => a.borrowRateMode # "None"
        /\ a.principalBorrows \in Nat /\ a.borrowRateMode \in {"None", "Stable", "Variable"}
    BY <1>2 DEF UserReserveOK, UserReserve
  <2> HIDE DEF a
  <2> QED BY <2>1
<1>4. Debt(r, a) = getCompoundedBorrowBalance(market[r], a, now)
  BY <1>3, DebtIsShown
<1>5. CASE pool[r] = market[r]
  BY <1>1, <1>4, <1>5
<1>6. CASE a.borrowRateMode = "Stable"
  <2>1. getCompoundedBorrowBalance(market[r], a, now)
          = getCompoundedBorrowBalance(pool[r], a, now)
    BY <1>6 DEF getCompoundedBorrowBalance
  <2> QED BY <1>1, <1>4, <2>1
<1> QED BY <1>5, <1>6

\* A shown debt is the one the contracts would charge at the page's time, from the
\* position's own rate and date when stable and the reserve's snapshot when not.
THEOREM DebtsShown == Spec => []ShownDebts
BY Invariant, DebtsAreShown, PTL

\* The list of reserves is computed over what was on chain, against the
\* indices of the date of the entry.
LEMMA OnList ==
  ASSUME IInv, page.kind = "list"
  PROVE  /\ page = [kind |-> "list", reserves |-> formatReserves(pool, ThirtyDaysAgo)]
         /\ pool \in [Reserves -> Reserve]
         /\ \A r \in Reserves : ReserveOK(r, pool[r], now)
<1>1. page # Blank
  BY DEF Blank
<1>2. \A t : page # computeRawUserSummaryData(pool, position, t)
  BY DEF computeRawUserSummaryData, summaryOf, Thrown
<1>3. \A r : page # SimulatedRates(r)
  BY DEF SimulatedRates
<1>4. /\ pool # Nothing
      /\ page = [kind |-> "list", reserves |-> formatReserves(pool, ThirtyDaysAgo)]
  BY <1>1, <1>2, <1>3 DEF IInv, PageIsComputed
<1> QED BY <1>4 DEF IInv, SnapshotsOK

\* Grown by the average rate of the last month, the index of a month ago is the
\* index of today, to the decimals of a quotient (calculateAverageRate).
THEOREM AveragesExplain == IInv => AverageExplainsIndex
<1> SUFFICES ASSUME IInv, page.kind = "list", NEW r \in Reserves,
                    NEW index \in {"variable", "liquidity"}
             PROVE  LET average == page.reserves[r][index]
                        dt == pool[r].lastUpdateTimestamp
                        grown == IF index = "variable" THEN pool[r].variableBorrowIndex
                                 ELSE pool[r].liquidityIndex
                        decimals == 1 + (RAY * (dt + 1)) \div (2 * Dp)
                    IN  /\ average.kind = "number" <=> dt > 0
                        /\ dt > 0 =>
                             (RAY * average.is * dt) \div (SECONDS_PER_YEAR * Dp)
                               \in (grown - RAY - decimals)..(grown - RAY + decimals)
  BY DEF AverageExplainsIndex
<1> DEFINE average == page.reserves[r][index]
           dt == pool[r].lastUpdateTimestamp
           grown == IF index = "variable" THEN pool[r].variableBorrowIndex
                    ELSE pool[r].liquidityIndex
<1>1. pool \in [Reserves -> Reserve] /\ pool[r] \in Reserve
      /\ page = [kind |-> "list", reserves |-> formatReserves(pool, ThirtyDaysAgo)]
  BY OnList
<1>2. dt \in Nat /\ grown \in Nat
  BY <1>1 DEF Reserve
<1>3. average = calculateAverageRate(RAY, grown, 0, dt)
  <2>1. /\ ThirtyDaysAgo[r].liquidityIndex = RAY /\ ThirtyDaysAgo[r].variableBorrowIndex = RAY
        /\ ThirtyDaysAgo[r].timestamp = 0 /\ r \in DOMAIN ThirtyDaysAgo
    BY DEF ThirtyDaysAgo
  <2>2. page.reserves[r] =
          [kind |-> "averages",
           variable |-> Average(pool[r], ThirtyDaysAgo[r], "variableBorrowIndex"),
           liquidity |-> Average(pool[r], ThirtyDaysAgo[r], "liquidityIndex")]
    BY <1>1, <2>1 DEF formatReserves
  <2>3. CASE index = "variable"
    BY <2>1, <2>2, <2>3 DEF Average
  <2>4. CASE index = "liquidity"
    BY <2>1, <2>2, <2>4 DEF Average
  <2> QED BY <2>3, <2>4
<1> HIDE DEF dt, grown, average
<1>4. CASE dt = 0
  <2>1. average.kind \in {"NaN", "infinite"}
    BY <1>3, <1>4 DEF calculateAverageRate
  <2> QED BY <1>4, <2>1 DEF average, dt, grown
<1>5. CASE dt # 0
  <2> DEFINE rate == Quotient(Quotient(grown, RAY) - Dp, dt * Dp) * SECONDS_PER_YEAR
  <2>1. average = [kind |-> "number",
                   is |-> Quotient(Quotient(grown, RAY) - Dp, (dt - 0) * Dp)
                            * SECONDS_PER_YEAR]
    BY <1>3, <1>5 DEF calculateAverageRate
  <2>2. dt - 0 = dt /\ dt \in Nat \ {0}
    BY <1>2, <1>5
  <2>3. average.kind = "number" /\ average.is = rate
    BY <2>1, <2>2
  <2>4. LET decimals == 1 + (RAY * (dt + 1)) \div (2 * Dp)
        IN  (RAY * average.is * dt) \div (SECONDS_PER_YEAR * Dp)
              \in (grown - RAY - decimals)..(grown - RAY + decimals)
    BY <1>2, <2>2, <2>3, AverageOfGrowth
  <2>5. dt > 0
    BY <2>2
  <2> QED BY <2>3, <2>4, <2>5 DEF average, dt, grown
<1> QED BY <1>4, <1>5

\* So it is for every list of reserves shown in a behaviour.
THEOREM AveragesExplained == Spec => []AverageExplainsIndex
BY Invariant, AveragesExplain, PTL

-----------------------------------------------------------------------------
(* What is shown as available and as withdrawable.                         *)

LEMMA ShownIntegers ==
  ASSUME NEW m \in Reserve, NEW a \in UserReserve, NEW t \in Int
  PROVE  /\ calculateCurrentUnderlyingBalance(a, m, t) \in Int
         /\ getCompoundedBorrowBalance(m, a, t) \in Int
         /\ a.originationFee \in Nat
<1> DEFINE income == getReserveNormalizedIncome(m.rates.liquidity, m.liquidityIndex,
                                                m.lastUpdateTimestamp, t)
           x == a.userBalanceIndex
           P == a.principalATokenBalance
           R == a.redirectedBalance
           C(b) == Cumulated(b, income, x)
<1>1. /\ m.rates.liquidity \in Int /\ m.liquidityIndex \in Int /\ m.lastUpdateTimestamp \in Int
      /\ m.rates.variable \in Nat /\ m.variableBorrowIndex \in Int
  BY DEF Reserve
<1>2. /\ x \in Nat \ {0} /\ P \in Int /\ R \in Int /\ a.principalBorrows \in Int
      /\ a.variableBorrowIndex \in Nat \ {0} /\ a.borrowRate \in Nat
      /\ a.lastUpdateTimestamp \in Int /\ a.originationFee \in Nat
  BY DEF UserReserve
<1>3. income \in Int
  BY <1>1, IncomeIsInteger
<1> HIDE DEF income, x
<1>4. ASSUME NEW b \in Int PROVE C(b) \in Int
  <2>1. wadToRay(b) \in Int
    BY <1>2, RaysAreIntegers
  <2>2. rayMul(wadToRay(b), income) \in Int
    BY <1>2, <1>3, <2>1, RaysAreIntegers
  <2>3. rayDiv(rayMul(wadToRay(b), income), x) \in Int
    BY <1>2, <2>2, RaysAreIntegers
  <2>4. rayToWad(rayDiv(rayMul(wadToRay(b), income), x)) \in Int
    BY <1>2, <2>3, RaysAreIntegers
  <2> QED BY <2>4 DEF Cumulated
<1>5. \A b : calculateCumulatedBalance(b, a, m, t) = C(b)
  BY CumulatedBalance DEF income, x
<1>6. C(R) \in Int /\ C(R + P) \in Int
  BY <1>2, <1>4
<1> HIDE DEF C
<1>7. calculateCurrentUnderlyingBalance(a, m, t) \in Int
  BY <1>2, <1>5, <1>6 DEF calculateCurrentUnderlyingBalance
<1> DEFINE c == calculateCompoundedInterest(m.rates.variable, t, m.lastUpdateTimestamp)
           s == calculateCompoundedInterest(a.borrowRate, t, a.lastUpdateTimestamp)
           v == rayDiv(rayMul(c, m.variableBorrowIndex), a.variableBorrowIndex)
           p == a.principalBorrows
<1>8. c \in Int /\ s \in Int
  BY <1>1, <1>2, CompoundedIsInteger
<1> HIDE DEF c, s
<1>9. v \in Int
  <2>1. rayMul(c, m.variableBorrowIndex) \in Int
    BY <1>1, <1>2, <1>8, RaysAreIntegers
  <2> QED BY <1>2, <2>1, RaysAreIntegers
<1> HIDE DEF v, p
<1>10. ASSUME NEW i \in Int PROVE Grown(p, i) \in Int
  <2>1. wadToRay(p) \in Int
    BY <1>2, RaysAreIntegers DEF p
  <2>2. rayMul(wadToRay(p), i) \in Int
    BY <1>2, <2>1, RaysAreIntegers
  <2> QED BY <1>2, <2>2, RaysAreIntegers DEF Grown
<1>11. Grown(p, s) \in Int /\ Grown(p, v) \in Int
  BY <1>8, <1>9, <1>10
<1>12. getCompoundedBorrowBalance(m, a, t) \in Int
  BY <1>11 DEF getCompoundedBorrowBalance, p, s, v, c
<1> QED BY <1>2, <1>7, <1>12

LEMMA EthIs ==
  ASSUME NEW r \in Reserves, NEW b \in Int
  PROVE  InEth(r, b) \in Int /\ (b >= 0 => InEth(r, b) \in Nat)
<1>1. Config[r].price \in Nat /\ Config[r].scale \in Nat \ {0}
  BY V1Assumption DEF Factors
<1> DEFINE p == b * Config[r].price
<1>2. p \in Int /\ (b >= 0 => p \in Nat)
  BY <1>1
<1> HIDE DEF p
<1>3. DivDown(p, Config[r].scale) \in Int
  BY <1>1, <1>2, DivDownInt
<1>4. p <= p
  BY <1>2
<1>5. b >= 0 => DivDown(p, Config[r].scale) \in Nat
  BY <1>1, <1>2, <1>4, DivDownMonotone
<1> QED BY <1>3, <1>5 DEF InEth, p

\* The sums of the page are integers.
LEMMA SumsAre ==
  ASSUME IInv, page.kind = "summary"
  PROVE  /\ page.at \in Int
         /\ IsFiniteSet(DOMAIN position) /\ IsFiniteSet(Pledged)
         /\ Pledged \subseteq DOMAIN position /\ DOMAIN position \subseteq Reserves
         /\ \A r \in DOMAIN position :
              /\ ShownData(page.at)[r] = computeUserReserveData(pool[r], position[r], page.at)
              /\ ShownData(page.at)[r].balance \in Int
              /\ ShownData(page.at)[r].borrows \in Int
              /\ ShownData(page.at)[r].fee \in Nat
              /\ ShownEth(page.at)[r] \in Int
              /\ ShownDebtsEth(page.at)[r] \in Int
              /\ ShownFeesEth(page.at)[r] \in Nat
         /\ page.liquidity \in Int /\ page.collateral \in Int /\ page.borrows \in Int
         /\ page.fees \in Nat
         /\ Total(LtvTerms(page.at), Pledged) \in Int
         /\ Total(ThresholdTerms(page.at), Pledged) \in Int
<1> DEFINE t == page.at
<1>0. DOMAIN position \subseteq Reserves /\ Pledged \subseteq DOMAIN position
  BY OnSummary DEF Pledged, collateralOf
<1>1. t \in Int
  <2>1. PICK lag \in Lags : t = now - lag
    BY OnSummary
  <2>2. lag \in Nat /\ now \in Nat
    BY V1Assumption DEF IInv, ChainOK
  <2> QED BY <2>1, <2>2
<1>2. IsFiniteSet(DOMAIN position) /\ IsFiniteSet(Pledged)
  BY <1>0, FS_Subset, V1Assumption
<1> HIDE DEF t
<1>3. ASSUME NEW r \in DOMAIN position
      PROVE  /\ ShownData(t)[r] = computeUserReserveData(pool[r], position[r], t)
             /\ ShownData(t)[r].balance \in Int
             /\ ShownData(t)[r].borrows \in Int
             /\ ShownData(t)[r].fee \in Nat
             /\ ShownEth(t)[r] \in Int
             /\ ShownDebtsEth(t)[r] \in Int
             /\ ShownFeesEth(t)[r] \in Nat
  <2>1. pool[r] \in Reserve /\ position[r] \in UserReserve /\ r \in Reserves
    BY <1>0, OnSummary DEF ReserveOK, UserReserveOK
  <2>2. ShownData(t)[r] = computeUserReserveData(pool[r], position[r], t)
    BY DEF ShownData
  <2>3. /\ ShownData(t)[r].balance \in Int /\ ShownData(t)[r].borrows \in Int
        /\ ShownData(t)[r].fee \in Nat
    BY <1>1, <2>1, <2>2, ShownIntegers DEF computeUserReserveData
  <2>4. /\ ShownEth(t)[r] = InEth(r, ShownData(t)[r].balance)
        /\ ShownDebtsEth(t)[r] = InEth(r, ShownData(t)[r].borrows)
        /\ ShownFeesEth(t)[r] = InEth(r, ShownData(t)[r].fee)
    BY DEF ShownEth, ShownDebtsEth, ShownFeesEth
  <2>5. ShownData(t)[r].fee \in Int /\ ShownData(t)[r].fee >= 0
    BY <2>3
  <2> QED BY <2>1, <2>2, <2>3, <2>4, <2>5, EthIs
<1>4. ASSUME NEW r \in Pledged
      PROVE  LtvTerms(t)[r] \in Int /\ ThresholdTerms(t)[r] \in Int
  <2>1. ShownEth(t)[r] \in Int /\ Config[r].ltv \in Int /\ Config[r].threshold \in Int
    BY <1>0, <1>3, V1Assumption DEF Factors
  <2> QED BY <2>1 DEF LtvTerms, ThresholdTerms
<1>5. /\ Total(ShownEth(t), DOMAIN position) \in Int
      /\ Total(ShownDebtsEth(t), DOMAIN position) \in Int
      /\ Total(ShownFeesEth(t), DOMAIN position) \in Nat
  <2>1. DOMAIN position \in SUBSET (DOMAIN position)
    OBVIOUS
  <2>2. /\ \A r \in DOMAIN position : ShownEth(t)[r] \in Int
        /\ \A r \in DOMAIN position : ShownDebtsEth(t)[r] \in Int
        /\ \A r \in DOMAIN position : ShownFeesEth(t)[r] \in Nat
    BY <1>3
  <2>3. Total(ShownEth(t), DOMAIN position) \in Int
    BY <1>2, <2>1, <2>2, TotalTakes
  <2>4. Total(ShownDebtsEth(t), DOMAIN position) \in Int
    BY <1>2, <2>1, <2>2, TotalTakes
  <2> QED BY <1>2, <2>2, <2>3, <2>4, TotalNat
<1>6. /\ Total(ShownEth(t), Pledged) \in Int
      /\ Total(LtvTerms(t), Pledged) \in Int
      /\ Total(ThresholdTerms(t), Pledged) \in Int
  <2>1. Pledged \in SUBSET Pledged
    OBVIOUS
  <2>2. \A r \in Pledged : ShownEth(t)[r] \in Int
    BY <1>0, <1>3
  <2>3. Total(ShownEth(t), Pledged) \in Int
    BY <1>2, <2>1, <2>2, TotalTakes
  <2>4. Total(LtvTerms(t), Pledged) \in Int
    BY <1>2, <1>4, <2>1, TotalTakes
  <2>5. Total(ThresholdTerms(t), Pledged) \in Int
    BY <1>2, <1>4, <2>1, TotalTakes
  <2> QED BY <2>3, <2>4, <2>5
<1>7. /\ page.liquidity = Total(ShownEth(t), DOMAIN position)
      /\ page.collateral = Total(ShownEth(t), Pledged)
      /\ page.borrows = Total(ShownDebtsEth(t), DOMAIN position)
      /\ page.fees = Total(ShownFeesEth(t), DOMAIN position)
  BY OnSummary DEF t
<1> QED BY <1>0, <1>1, <1>2, <1>3, <1>5, <1>6, <1>7 DEF t

\* An average over a collateral is natural.
LEMMA AveragedNat ==
  ASSUME NEW sum \in Int, NEW collateral \in Int, sum > 0 => collateral > 0
  PROVE  Averaged(sum, collateral) \in Nat
<1>1. CASE sum > 0
  <2>1. sum \in Nat /\ collateral \in Nat \ {0} /\ sum <= sum
    BY <1>1
  <2>2. Quotient(sum, collateral) \div Dp \in Nat
    BY <2>1, QuotientFloor
  <2> QED BY <1>1, <2>2 DEF Averaged
<1>2. CASE ~(sum > 0)
  BY <1>2 DEF Averaged
<1> QED BY <1>1, <1>2

\* Of what is deposited, one unit less than what the debts and fees need at
\* the threshold may go: what is left covers them.
LEMMA WithdrawingKeeps ==
  ASSUME NEW collateral \in Int, NEW borrows \in Int, borrows > 0, NEW fees \in Nat,
         NEW threshold \in Nat, NEW withdraw,
         withdraw = maxAmountToWithdraw(collateral, borrows, fees, threshold),
         withdraw # None, threshold # 0
  PROVE  /\ withdraw \in Int /\ collateral - (withdraw - 1) > 0
         /\ (collateral - (withdraw - 1)) * threshold >= LtvScale * (borrows + fees)
<1> DEFINE owed == borrows + fees
           n == owed * LtvScale
           q == DivDown(n, threshold)
<1>1. /\ owed \in Nat \ {0} /\ LtvScale \in Nat \ {0} /\ threshold \in Nat \ {0}
      /\ Dp \in Nat
  BY PoolAssumption
<1> HIDE DEF owed
<1>2. n \in Nat /\ n \in Int /\ n > 0 /\ LtvScale * owed = n
  <2>1. n \in Nat /\ LtvScale * owed = n
    BY ONLY <1>1
  <2>2. n > 0
    BY ONLY <1>1
  <2> QED BY <2>1, <2>2
<1> HIDE DEF n
<1>3. q = n \div threshold /\ q \in Int /\ n < threshold * q + threshold
  BY <1>1, <1>2, DivBounds DEF DivDown
<1>4. withdraw = collateral - q
  BY <1>1 DEF maxAmountToWithdraw, owed, q, n
<1> HIDE DEF q
<1>5. collateral - (withdraw - 1) = q + 1
  BY <1>3, <1>4
<1> DEFINE m == (q + 1) * threshold
<1>6. m \in Int /\ m >= n /\ m = threshold * q + threshold
  <2>1. m = threshold * q + threshold /\ threshold * q \in Int
    BY ONLY <1>1, <1>3
  <2> QED BY <1>1, <1>2, <1>3, <2>1
<1> HIDE DEF m
<1>7. q + 1 > 0
  <2>1. q \in Nat
    BY <1>1, <1>2, <1>3, DivNat
  <2> QED BY <2>1
<1>8. withdraw \in Int
  BY <1>3, <1>4
<1>9. (q + 1) * threshold >= LtvScale * (borrows + fees)
  BY <1>2, <1>6 DEF m, owed
<1> QED BY <1>5, <1>7, <1>8, <1>9

\* No shown balance is negative.  One may be, when its snapshot is newer than
\* that of its reserve or the clock is behind: what others redirect is not the
\* user's, and may be worth more than all it has earned.
BalancesNotNegative ==
  page.kind = "summary" =>
    \A r \in DOMAIN page.reserves : page.reserves[r].balance >= 0

\* How far the clock may be behind: by a year at an interest of 100 %.
ClockNear ==
  \A r \in Reserves : \A t \in Totals[r] : \A lag \in Lags :
    /\ lag * StrategyRates(r, t).variable <= RAY * SECONDS_PER_YEAR
    /\ lag * StrategyRates(r, t).stable <= RAY * SECONDS_PER_YEAR

\* No factor of a shown debt is negative: neither the pool's growth nor that of
\* the user's stable rate is taken back further than to nothing.
FactorsNotNegative ==
  page.kind = "summary" =>
    \A r \in DOMAIN position :
      /\ Behind(pool[r].rates.variable, page.at, pool[r].lastUpdateTimestamp)
      /\ Behind(position[r].borrowRate, page.at, position[r].lastUpdateTimestamp)

\* With a clock that is near none is.
LEMMA NearFactors ==
  ASSUME IInv, ClockNear
  PROVE  FactorsNotNegative
<1> SUFFICES ASSUME page.kind = "summary", NEW r \in DOMAIN position
             PROVE  /\ Behind(pool[r].rates.variable, page.at, pool[r].lastUpdateTimestamp)
                    /\ Behind(position[r].borrowRate, page.at,
                              position[r].lastUpdateTimestamp)
  BY DEF FactorsNotNegative
<1> DEFINE t == page.at
           m == pool[r]
           a == position[r]
<1>1. PICK lag \in Lags : t = now - lag
  BY OnSummary
<1>2. lag \in Nat /\ now \in Int
  BY V1Assumption DEF IInv, ChainOK
<1>3. ReserveOK(r, m, now) /\ UserReserveOK(r, a, now) /\ r \in Reserves
  BY OnSummary, SumsAre
<1> HIDE DEF t, m, a
<1>4. /\ m.lastUpdateTimestamp \in Int /\ m.lastUpdateTimestamp <= now
      /\ m.rates.variable \in Nat
      /\ m.totals \in Totals[r] /\ m.rates = StrategyRates(r, m.totals)
  BY <1>3 DEF ReserveOK, Reserve
<1>5. /\ a.lastUpdateTimestamp \in Int /\ a.lastUpdateTimestamp <= now
      /\ a.borrowRate \in Nat /\ a.borrowRate \in StableRates(r)
  BY <1>3 DEF UserReserveOK, UserReserve
<1>6. Behind(m.rates.variable, t, m.lastUpdateTimestamp)
  <2>1. lag * m.rates.variable <= RAY * SECONDS_PER_YEAR
    BY <1>3, <1>4 DEF ClockNear
  <2> QED BY <1>1, <1>2, <1>4, <2>1, WithinLag
<1>7. Behind(a.borrowRate, t, a.lastUpdateTimestamp)
  <2>1. lag * a.borrowRate <= RAY * SECONDS_PER_YEAR
    <3>1. CASE a.borrowRate = 0
      BY <1>2, <3>1, RayAssumption, PoolAssumption
    <3>2. CASE a.borrowRate # 0
      <4>1. PICK tt \in Totals[r] : a.borrowRate = StrategyRates(r, tt).stable
        BY <1>5, <3>2 DEF StableRates
      <4> QED BY <1>3, <4>1 DEF ClockNear
    <3> QED BY <3>1, <3>2
  <2> QED BY <1>1, <1>2, <1>5, <2>1, WithinLag
<1> QED BY <1>6, <1>7 DEF t, m, a

\* Then no shown debt is negative.
LEMMA NearDebts ==
  ASSUME IInv, FactorsNotNegative, page.kind = "summary"
  PROVE  /\ \A r \in DOMAIN position : ShownData(page.at)[r].borrows \in Nat
         /\ page.borrows \in Nat
<1> DEFINE t == page.at
<1>0. t \in Int /\ DOMAIN position \subseteq Reserves /\ IsFiniteSet(DOMAIN position)
  BY SumsAre
<1> HIDE DEF t
<1>3. ASSUME NEW r \in DOMAIN position PROVE ShownData(t)[r].borrows \in Nat
  <2> DEFINE m == pool[r]
             a == position[r]
  <2>1. ReserveOK(r, m, now) /\ UserReserveOK(r, a, now) /\ r \in Reserves
    BY <1>0, OnSummary
  <2>2. ShownData(t)[r].borrows = getCompoundedBorrowBalance(m, a, t)
    BY DEF ShownData, computeUserReserveData
  <2>3. m \in Reserve /\ a \in UserReserve
    BY <2>1 DEF ReserveOK, UserReserveOK
  <2>4. /\ Behind(m.rates.variable, t, m.lastUpdateTimestamp)
        /\ Behind(a.borrowRate, t, a.lastUpdateTimestamp)
    BY DEF FactorsNotNegative, t
  <2> HIDE DEF m, a
  <2>5. getCompoundedBorrowBalance(m, a, t) \in Nat
    BY <1>0, <2>3, <2>4, ShownDebtNat
  <2> QED BY <2>2, <2>5
<1>4. ASSUME NEW r \in DOMAIN position PROVE ShownDebtsEth(t)[r] \in Nat
  <2>1. ShownDebtsEth(t)[r] = InEth(r, ShownData(t)[r].borrows) /\ r \in Reserves
    BY <1>0 DEF ShownDebtsEth
  <2>2. ShownData(t)[r].borrows \in Int /\ ShownData(t)[r].borrows >= 0
    BY <1>3
  <2> QED BY <2>1, <2>2, EthIs
<1>5. Total(ShownDebtsEth(t), DOMAIN position) \in Nat
  BY <1>0, <1>4, TotalNat
<1> QED BY <1>3, <1>5, OnSummary DEF t

\* Without negative balances the collateral and its averages are natural, and
\* the loan to value is at most the threshold.
LEMMA PledgedIs ==
  ASSUME IInv, BalancesNotNegative, page.kind = "summary"
  PROVE  /\ page.collateral \in Nat /\ page.ltv \in Nat /\ page.threshold \in Nat
         /\ page.ltv <= page.threshold
<1> DEFINE t == page.at
           S == Pledged
           eth == ShownEth(t)
           lw == [r \in S |-> Config[r].ltv]
           tw == [r \in S |-> Config[r].threshold]
           L == LtvTerms(t)
           T == ThresholdTerms(t)
<1>1. IsFiniteSet(S) /\ S \subseteq DOMAIN position /\ DOMAIN position \subseteq Reserves
  BY SumsAre
<1>2. ASSUME NEW r \in S
      PROVE  /\ eth[r] \in Nat /\ lw[r] \in Nat /\ tw[r] \in Nat /\ lw[r] <= tw[r]
             /\ L[r] = eth[r] * lw[r] /\ T[r] = eth[r] * tw[r]
  <2>1. r \in DOMAIN position /\ r \in Reserves
    BY <1>1
  <2>2. page.reserves = ShownData(t)
    BY OnSummary
  <2>3. ShownData(t)[r].balance \in Int /\ ShownData(t)[r].balance >= 0
    <3>1. r \in DOMAIN ShownData(t)
      BY <2>1 DEF ShownData
    <3> QED BY <2>1, <2>2, <3>1, SumsAre DEF BalancesNotNegative
  <2>4. eth[r] = InEth(r, ShownData(t)[r].balance)
    BY <2>1 DEF ShownEth
  <2>5. eth[r] \in Nat
    BY <2>1, <2>3, <2>4, EthIs
  <2>6. Config[r].ltv \in Nat /\ Config[r].threshold \in Nat /\ Config[r].ltv <= Config[r].threshold
    BY <2>1, V1Assumption DEF Factors
  <2>7. L[r] = eth[r] * Config[r].ltv /\ T[r] = eth[r] * Config[r].threshold
    BY DEF LtvTerms, ThresholdTerms
  <2> QED BY <2>5, <2>6, <2>7
<1>3. /\ page.collateral = Total(eth, S)
      /\ page.ltv = Averaged(Total(L, S), page.collateral)
      /\ page.threshold = Averaged(Total(T, S), page.collateral)
  BY OnSummary
<1> DEFINE c == page.collateral
           l == Total(L, S)
           h == Total(T, S)
<1> HIDE DEF eth, lw, tw, L, T, S, t
<1>4. c \in Nat /\ l \in Nat /\ (l > 0 => c > 0)
  BY <1>1, <1>2, <1>3, WeightedTotal
<1>5. h \in Nat /\ (h > 0 => c > 0)
  BY <1>1, <1>2, <1>3, WeightedTotal
<1>6. l <= h
  <2>1. ASSUME NEW r \in S PROVE L[r] \in Int /\ T[r] \in Int /\ L[r] <= T[r]
    <3>1. /\ eth[r] \in Nat /\ lw[r] \in Nat /\ tw[r] \in Nat /\ lw[r] <= tw[r]
          /\ L[r] = eth[r] * lw[r] /\ T[r] = eth[r] * tw[r]
      BY <1>2
    <3>2. eth[r] <= eth[r]
      BY <3>1
    <3> QED BY <3>1, <3>2, ProductMonotone
  <2> QED BY <1>1, <2>1, TotalMonotone
<1> HIDE DEF l, h, c
<1>7. page.ltv = Averaged(l, c) /\ page.threshold = Averaged(h, c)
  BY <1>3 DEF l, h, c
<1>8. Averaged(l, c) \in Nat /\ Averaged(h, c) \in Nat
  <2>1. c \in Int /\ l \in Int /\ h \in Int
    BY <1>4, <1>5
  <2> QED BY <1>4, <1>5, <2>1, AveragedNat
<1>9. Averaged(l, c) <= Averaged(h, c)
  <2>1. CASE l > 0
    <3>1. c \in Nat \ {0} /\ h > 0
      BY <1>4, <1>5, <1>6, <2>1
    <3>2. Quotient(l, c) \div Dp <= Quotient(h, c) \div Dp
      BY <1>4, <1>5, <1>6, <3>1, QuotientFloor
    <3> QED BY <2>1, <3>1, <3>2 DEF Averaged
  <2>2. CASE ~(l > 0)
    <3>1. Averaged(l, c) = 0
      BY <2>2 DEF Averaged
    <3> QED BY <1>8, <3>1
  <2> QED BY <2>1, <2>2
<1> QED BY <1>4, <1>7, <1>8, <1>9 DEF c

\* A quotient of more by the same, or of the same by less, is not smaller.
LEMMA QuotientGrows ==
  ASSUME NEW n \in Int, NEW d \in Nat \ {0}, NEW m \in Int, NEW e \in Nat \ {0},
         n * e <= m * d
  PROVE  Quotient(n, d) <= Quotient(m, e)
<1> DEFINE q == Quotient(n, d)
           p == Quotient(m, e)
<1>1. /\ q \in Int /\ 2 * (d * q) <= 2 * (n * Dp) + d
      /\ p \in Int /\ 2 * (m * Dp) < 2 * (e * p) + e
  BY QuotientBounds
<1>2. Dp \in Nat /\ d \in Int /\ e \in Int
  BY PoolAssumption
<1> HIDE DEF q, p
<1>3. (n * e) * Dp <= (m * d) * Dp
  BY <1>2
<1>4. 2 * (d * e * q) <= 2 * (n * e * Dp) + d * e
  <2>1. e * (2 * (d * q)) <= e * (2 * (n * Dp) + d)
    BY <1>1, <1>2
  <2> QED BY ONLY <1>1, <1>2, <2>1, n \in Int
<1>5. 2 * (m * d * Dp) < 2 * (d * e * p) + d * e
  <2>1. d * (2 * (m * Dp)) < d * (2 * (e * p) + e)
    BY <1>1, <1>2
  <2> QED BY ONLY <1>1, <1>2, <2>1, m \in Int
<1> DEFINE f == d * e
<1>6. f \in Nat \ {0} /\ d * e * q = f * q /\ d * e * p = f * p
      /\ f * q \in Int /\ f * p \in Int
  BY ONLY <1>1, <1>2, d \in Nat \ {0}, e \in Nat \ {0}
<1>7. n * e * Dp <= m * d * Dp /\ n * e * Dp \in Int /\ m * d * Dp \in Int
  BY <1>2, <1>3
<1> DEFINE x == n * e * Dp
           y == m * d * Dp
<1>8. 2 * (f * q) <= 2 * x + f /\ 2 * y < 2 * (f * p) + f
  BY <1>4, <1>5, <1>6
<1>9. x <= y /\ x \in Int /\ y \in Int
  BY <1>7
<1> HIDE DEF f, x, y
<1>10. f * q < f * p + f
  BY <1>6, <1>8, <1>9
<1>11. f * (p + 1 - q) > 0
  <2>1. f * (p + 1 - q) = f * p + f - f * q
    BY ONLY <1>1, <1>6
  <2> QED BY <1>6, <1>10, <2>1
<1>12. p + 1 - q > 0
  BY ONLY <1>1, <1>6, <1>11
<1> QED BY <1>1, <1>12 DEF q, p

\* Nor does the average fall when what is left weighs as much in proportion.
LEMMA AveragedGrows ==
  ASSUME NEW l \in Nat, NEW c \in Nat \ {0}, NEW m \in Int, NEW e \in Nat \ {0},
         l * e <= m * c
  PROVE  Averaged(l, c) <= Averaged(m, e) /\ Averaged(l, c) \in Nat
         /\ Averaged(m, e) \in Nat
<1>1. Averaged(l, c) \in Nat /\ Averaged(m, e) \in Nat
  <2>1. l \in Int /\ c \in Int /\ c > 0 /\ e \in Int /\ e > 0
    OBVIOUS
  <2> QED BY <2>1, AveragedNat
<1>2. CASE l > 0
  <2>1. m > 0
    <3>1. l * e > 0
      BY <1>2
    <3>2. m * c > 0
      BY <3>1
    <3> QED BY ONLY <3>2, m \in Int, c \in Nat \ {0}
  <2>2. Quotient(l, c) <= Quotient(m, e)
    BY QuotientGrows
  <2>3. Quotient(l, c) \in Int /\ Quotient(m, e) \in Int /\ Dp \in Nat \ {0}
    BY QuotientBounds, PoolAssumption
  <2>4. Quotient(l, c) \div Dp <= Quotient(m, e) \div Dp
    BY <2>2, <2>3, DivMonotone
  <2> QED BY <1>1, <1>2, <2>1, <2>4 DEF Averaged
<1>3. CASE ~(l > 0)
  BY <1>1, <1>3 DEF Averaged
<1> QED BY <1>1, <1>2, <1>3

\* Taking out of a mix what weighs no more than its average.
LEMMA MixKeeps ==
  ASSUME NEW c \in Int, NEW s \in Int, NEW w \in Nat, NEW d \in Nat, w * c <= s
  PROVE  s * (c - d) <= (s - w * d) * c
<1>1. (w * c) * d <= s * d /\ (w * c) * d \in Int /\ s * d \in Int /\ s * c \in Int
  OBVIOUS
<1>2. s * (c - d) = s * c - s * d /\ (s - w * d) * c = s * c - (w * c) * d
  OBVIOUS
<1> QED BY <1>1, <1>2

\* What n of a balance are worth, when they are worth k at most.
LEMMA WorthLess ==
  ASSUME NEW r \in Reserves, NEW b \in Nat, NEW n \in 0..b, NEW k \in Nat,
         n * Config[r].price <= k * Config[r].scale
  PROVE  /\ InEth(r, b) \in Nat /\ InEth(r, b - n) \in Nat
         /\ InEth(r, b) - InEth(r, b - n) \in 0..k
<1> DEFINE p == Config[r].price
           s == Config[r].scale
           x == (b - n) * p
           y == n * p
           z == b * p
<1>1. p \in Nat /\ s \in Nat \ {0}
  BY V1Assumption DEF Factors
<1> HIDE DEF p, s
<1>2. x \in Nat /\ y \in Nat /\ z \in Nat /\ z = x + y /\ y <= k * s /\ k * s \in Int
  <2>1. b - n \in Nat /\ n \in Nat /\ n * p <= k * s
    BY DEF p, s
  <2> QED BY ONLY <1>1, <2>1, b \in Nat, k \in Nat
<1>3. /\ InEth(r, b) = z \div s /\ InEth(r, b - n) = x \div s
      /\ z \div s \in Nat /\ x \div s \in Nat /\ x \div s <= z \div s
  <2> HIDE DEF x, y, z
  <2>1. x \in Int /\ z \in Int /\ x <= z /\ z <= z
    BY <1>2
  <2>2. /\ DivDown(z, s) \in Nat /\ DivDown(z, s) = z \div s
        /\ DivDown(x, s) \in Nat /\ DivDown(x, s) = x \div s
        /\ DivDown(x, s) <= DivDown(z, s)
    BY <1>1, <1>2, <2>1, DivDownMonotone
  <2> QED BY <2>2 DEF InEth, x, z, p, s
<1> HIDE DEF x, y, z
<1> DEFINE u == x \div s
           v == z \div s
<1>4. /\ u \in Nat /\ v \in Nat /\ u <= v
      /\ s * v <= z /\ x < s * u + s
  BY <1>1, <1>2, <1>3, DivBounds
<1> HIDE DEF u, v
<1>5. s * v < s * u + s + k * s /\ s * v \in Int /\ s * u \in Int
  BY <1>1, <1>2, <1>4
<1>6. s * (u + 1 + k - v) > 0
  <2>1. s * (u + 1 + k - v) = s * u + s + k * s - s * v
    BY ONLY <1>1, <1>4, k \in Nat
  <2> QED BY <1>1, <1>2, <1>5, <2>1
<1>7. u + 1 + k - v > 0
  BY ONLY <1>1, <1>4, <1>6, k \in Nat
<1>8. v - u \in 0..k
  BY <1>4, <1>7
<1> QED BY <1>3, <1>8 DEF u, v

\* What the page would be after a withdrawal: only the collateral and the
\* average of its thresholds differ, both by what is gone.
LEMMA PageAfter ==
  ASSUME IInv, BalancesNotNegative, page.kind = "summary", NEW r \in Pledged,
         NEW n \in 0..page.reserves[r].balance, NEW k \in Nat,
         n * Config[r].price <= k * Config[r].scale
  PROVE  \E d \in 0..k :
           AfterWithdrawing(r, n).healthFactor
             = healthFactorWithFees(
                 page.collateral - d, page.borrows, page.fees,
                 Averaged(Total(ThresholdTerms(page.at), Pledged)
                            - Config[r].threshold * d, page.collateral - d))
<1> DEFINE t == page.at
           D == DOMAIN position
           w == Config[r].threshold
           b == page.reserves[r].balance
           data == [page.reserves EXCEPT ![r].balance = @ - n]
           eth == [x \in D |-> InEth(x, data[x].balance)]
           terms == [x \in Pledged |-> eth[x] * Config[x].threshold]
           d == InEth(r, b) - InEth(r, b - n)
<1>1. /\ r \in D /\ r \in Reserves /\ IsFiniteSet(Pledged) /\ Pledged \subseteq D
      /\ D \subseteq Reserves /\ page.reserves = ShownData(t)
  BY SumsAre, OnSummary
<1>2. b \in Nat /\ w \in Nat
  <2>1. b \in Int
    BY <1>1, SumsAre
  <2>2. r \in DOMAIN page.reserves
    BY <1>1 DEF ShownData
  <2> QED BY <1>1, <2>1, <2>2, V1Assumption DEF BalancesNotNegative, Factors
<1>3. /\ d \in 0..k /\ InEth(r, b) \in Nat /\ InEth(r, b - n) \in Nat
  BY <1>1, <1>2, WorthLess
<1>4. /\ \A x \in D : /\ data[x].borrows = ShownData(t)[x].borrows
                      /\ data[x].fee = ShownData(t)[x].fee
      /\ data[r].balance = b - n
      /\ \A x \in D \ {r} : data[x].balance = ShownData(t)[x].balance
  <2>1. DOMAIN page.reserves = D
    BY <1>1 DEF ShownData
  <2>2. /\ \A x \in D \ {r} : data[x] = page.reserves[x]
        /\ data[r] = [page.reserves[r] EXCEPT !.balance = @ - n]
    BY <1>1, <2>1
  <2>3. DOMAIN page.reserves[r] = {"balance", "borrows", "fee"}
    BY <1>1 DEF ShownData, computeUserReserveData
  <2>4. /\ data[r].balance = page.reserves[r].balance - n
        /\ data[r].borrows = page.reserves[r].borrows
        /\ data[r].fee = page.reserves[r].fee
    BY <2>2, <2>3
  <2> QED BY <1>1, <2>2, <2>4
<1>5. /\ [x \in D |-> InEth(x, data[x].borrows)] = ShownDebtsEth(t)
      /\ [x \in D |-> InEth(x, data[x].fee)] = ShownFeesEth(t)
  <2> HIDE DEF data
  <2> QED BY <1>4 DEF ShownDebtsEth, ShownFeesEth
<1>6. /\ eth[r] = InEth(r, b - n) /\ ShownEth(t)[r] = InEth(r, b)
      /\ \A x \in D \ {r} : eth[x] = ShownEth(t)[x]
  <2> HIDE DEF data
  <2> QED BY <1>1, <1>4 DEF ShownEth
<1>7. AfterWithdrawing(r, n).healthFactor
        = healthFactorWithFees(Total(eth, Pledged), page.borrows, page.fees,
                               Averaged(Total(terms, Pledged), Total(eth, Pledged)))
  <2>1. page.borrows = Total(ShownDebtsEth(t), D) /\ page.fees = Total(ShownFeesEth(t), D)
    BY OnSummary
  <2>2. AfterWithdrawing(r, n) = summaryOf(pool, position, data, t)
    BY DEF AfterWithdrawing
  <2> HIDE DEF data, t
  <2> QED BY <1>5, <2>1, <2>2 DEF summaryOf, Pledged
<1>8. Total(eth, Pledged) = page.collateral - d
  <2>1. \A x \in Pledged : ShownEth(t)[x] \in Int /\ eth[x] \in Int
    BY <1>1, <1>3, <1>6, SumsAre
  <2>2. \A x \in Pledged \ {r} : eth[x] = ShownEth(t)[x]
    BY <1>1, <1>6
  <2>3. Total(eth, Pledged) = Total(ShownEth(t), Pledged) - ShownEth(t)[r] + eth[r]
    <3> HIDE DEF eth
    <3> QED BY <1>1, <2>1, <2>2, TotalChanges
  <2>4. page.collateral = Total(ShownEth(t), Pledged) /\ page.collateral \in Int
    BY OnSummary, SumsAre
  <2> HIDE DEF eth, t
  <2> QED BY <1>3, <1>6, <2>3, <2>4
<1>9. Total(terms, Pledged) = Total(ThresholdTerms(t), Pledged) - w * d
  <2> DEFINE old == ThresholdTerms(t)
  <2>1. \A x \in Pledged : old[x] \in Int /\ terms[x] \in Int
    <3>1. ASSUME NEW x \in Pledged PROVE old[x] \in Int /\ terms[x] \in Int
      <4>1. ShownEth(t)[x] \in Int /\ eth[x] \in Int /\ Config[x].threshold \in Int
        BY <1>1, <1>3, <1>6, SumsAre, V1Assumption DEF Factors
      <4> QED BY <4>1 DEF ThresholdTerms
    <3> QED BY <3>1
  <2>2. \A x \in Pledged \ {r} : terms[x] = old[x]
    <3>1. \A x \in Pledged \ {r} : eth[x] = ShownEth(t)[x]
      BY <1>1, <1>6
    <3> HIDE DEF eth
    <3> QED BY <3>1 DEF ThresholdTerms
  <2>3. old[r] = InEth(r, b) * w /\ terms[r] = InEth(r, b - n) * w
    BY <1>6 DEF ThresholdTerms
  <2>4. Total(terms, Pledged) = Total(old, Pledged) - old[r] + terms[r]
    <3> HIDE DEF terms, old
    <3> QED BY <1>1, <2>1, <2>2, TotalChanges
  <2>5. Total(old, Pledged) \in Int
    BY SumsAre
  <2>6. InEth(r, b) * w - InEth(r, b - n) * w = w * d
    BY <1>2, <1>3
  <2> HIDE DEF terms, old, d
  <2>7. w * d \in Int /\ old[r] \in Int /\ terms[r] \in Int
    BY <1>2, <1>3, <2>1
  <2>8. old[r] - terms[r] = w * d
    BY <2>3, <2>6
  <2>9. Total(terms, Pledged) = Total(old, Pledged) - w * d
    BY <2>4, <2>5, <2>7, <2>8
  <2> QED BY <2>9 DEF old
<1>10. AfterWithdrawing(r, n).healthFactor
         = healthFactorWithFees(
             page.collateral - d, page.borrows, page.fees,
             Averaged(Total(ThresholdTerms(page.at), Pledged) - w * d, page.collateral - d))
  BY <1>7, <1>8, <1>9
<1> QED BY <1>3, <1>10

\* Withdrawing less than is shown as possible, from a reserve whose threshold is
\* not above the average of the collateral, leaves a page that shows a health
\* factor of one or more, unless it shows a negative balance: the average over
\* what remains is not smaller, and what remains covers what is owed at it.
THEOREM WithdrawingKeepsHealth == IInv /\ BalancesNotNegative => WithdrawalKeepsHealth
<1> SUFFICES ASSUME IInv, BalancesNotNegative, page.kind = "summary", page.borrows > 0,
                    page.liquidity = page.collateral, page.maxWithdraw # None,
                    NEW r \in Pledged, NEW n \in 0..page.reserves[r].balance,
                    Config[r].threshold * page.collateral
                      <= Total(ThresholdTerms(page.at), Pledged),
                    n * Config[r].price <= (page.maxWithdraw - 1) * Config[r].scale
             PROVE  AfterWithdrawing(r, n).healthFactor >= Dp
  <2> DEFINE weighted(P) == Total([x \in P |-> InEth(x, page.reserves[x].balance)
                                              * Config[x].threshold], P)
  <2>1. ASSUME IInv, page.kind = "summary"
        PROVE  weighted(collateralOf(pool, position))
                 = Total(ThresholdTerms(page.at), Pledged)
    <3>1. page.reserves = ShownData(page.at) /\ Pledged \subseteq DOMAIN position
      BY <2>1, OnSummary, SumsAre
    <3>2. [x \in Pledged |-> InEth(x, page.reserves[x].balance) * Config[x].threshold]
            = ThresholdTerms(page.at)
      BY <3>1 DEF ThresholdTerms, ShownEth
    <3> QED BY <3>2 DEF Pledged
  <2> QED BY <2>1 DEF WithdrawalKeepsHealth, Pledged
<1> DEFINE c == page.collateral
           owed == page.borrows + page.fees
           h == page.threshold
           w == Config[r].threshold
           s == Total(ThresholdTerms(page.at), Pledged)
           k == page.maxWithdraw - 1
<1>1. /\ c \in Nat /\ h \in Nat /\ page.borrows \in Int /\ page.fees \in Nat /\ s \in Int
      /\ h = Averaged(s, c) /\ w \in Nat /\ r \in Reserves
      /\ Config[r].price \in Nat /\ Config[r].scale \in Nat \ {0}
  BY SumsAre, PledgedIs, OnSummary, V1Assumption DEF Factors
<1>2. /\ page.maxWithdraw = maxAmountToWithdraw(c, page.borrows, page.fees, h)
      /\ owed \in Nat \ {0} /\ LtvScale \in Nat \ {0}
  BY <1>1, OnSummary, PoolAssumption
<1>3. h # 0
  BY <1>2 DEF maxAmountToWithdraw
<1>4. page.maxWithdraw \in Int /\ c - k > 0 /\ (c - k) * h >= LtvScale * owed
  BY <1>1, <1>2, <1>3, WithdrawingKeeps
<1>5. k \in Nat
  <2>1. n * Config[r].price >= 0
    <3>1. n \in Nat
      OBVIOUS
    <3> QED BY <1>1, <3>1
  <2>2. k * Config[r].scale >= 0 /\ k \in Int
    BY <1>1, <1>4, <2>1
  <2> HIDE DEF k
  <2> QED BY ONLY <1>1, <2>2
<1>6. PICK d \in 0..k :
        AfterWithdrawing(r, n).healthFactor
          = healthFactorWithFees(c - d, page.borrows, page.fees, Averaged(s - w * d, c - d))
  BY <1>5, PageAfter
<1>7. w * c <= s
  OBVIOUS
<1> HIDE DEF c, owed, h, w, s, k
<1>8. c \in Nat \ {0} /\ c - d \in Nat \ {0} /\ c - d >= c - k /\ d \in Nat /\ s \in Nat
  <2>1. w * c >= 0 /\ w * c \in Int
    BY <1>1
  <2> QED BY <1>1, <1>4, <1>5, <1>7, <2>1
<1> DEFINE a == Averaged(s - w * d, c - d)
<1>9. h <= a /\ a \in Nat
  <2>1. s * (c - d) <= (s - w * d) * c
    BY <1>1, <1>7, <1>8, MixKeeps
  <2>2. s - w * d \in Int
    BY <1>1, <1>8
  <2> QED BY <1>1, <1>8, <2>1, <2>2, AveragedGrows
<1> HIDE DEF a
<1>10. (c - d) * a >= LtvScale * owed
  <2>1. c - k \in Nat /\ c - d \in Nat
    BY <1>4, <1>5, <1>8
  <2>2. (c - k) * h <= (c - d) * a /\ (c - k) * h \in Nat /\ (c - d) * a \in Nat
    BY <1>1, <1>8, <1>9, <2>1, ProductMonotone
  <2>3. LtvScale * owed \in Int
    BY <1>2
  <2> QED BY <1>4, <2>2, <2>3
<1>11. Quotient((c - d) * a, LtvScale * owed) >= Dp
  <2>1. LtvScale * owed \in Nat \ {0} /\ (c - d) * a \in Int
    BY <1>2, <1>8, <1>9
  <2> QED BY <1>10, <2>1, QuotientAtLeast
<1>12. healthFactorWithFees(c - d, page.borrows, page.fees, a)
         = Quotient((c - d) * a, LtvScale * owed)
  BY <1>1 DEF healthFactorWithFees, owed
<1> QED BY <1>6, <1>11, <1>12 DEF a

\* So it is on every page: who withdraws less than it lets him, by a unit of ETH,
\* from a reserve whose threshold is not above the average, stays healthy at the
\* thresholds of what remains, as long as no shown balance is negative.
THEOREM WithdrawalsKeepHealth == Spec => [](BalancesNotNegative => WithdrawalKeepsHealth)
<1>1. IInv => (BalancesNotNegative => WithdrawalKeepsHealth)
  BY WithdrawingKeepsHealth
<1> QED BY <1>1, Invariant, PTL

\* A loan that leaves room for its own fee.
LEMMA LoanAndFee ==
  ASSUME NEW room \in Int, NEW loan, loan = (room * (FeeDivisor - 1)) \div FeeDivisor,
         loan > 0
  PROVE  loan \in Nat /\ Fee(loan) \in Nat /\ loan + Fee(loan) <= room
<1> DEFINE F == FeeDivisor
           n == room * (F - 1)
           k == loan + F - 1
           fee == k \div F
<1>1. F \in Nat \ {0} /\ n \in Int /\ n = room * F - room /\ room * F = F * room
  BY V1Assumption
<1> HIDE DEF F
<1>2. loan = n \div F
  BY DEF F
<1> HIDE DEF n
<1>3. loan \in Int /\ F * loan <= n
  BY ONLY <1>1, <1>2, DivBounds
<1>4. k \in Int /\ k = loan + F - 1
  BY <1>1, <1>3
<1>5. Fee(loan) = fee
  BY DEF Fee, F
<1> HIDE DEF k
<1>6. fee \in Int /\ F * fee <= k
  BY ONLY <1>1, <1>4, DivBounds
<1>7. fee \in Nat
  <2>1. k \in Nat
    BY <1>1, <1>3, <1>4
  <2> QED BY <1>1, <2>1, DivNat
<1> HIDE DEF fee
<1>8. room > 0
  <2>1. ASSUME room <= 0 PROVE FALSE
    <3>1. F * loan > 0
      BY <1>1, <1>3
    <3>2. n <= 0
      <4> DEFINE d == -room
      <4>1. d \in Nat /\ n = -(d * (F - 1)) /\ F - 1 \in Nat
        BY <1>1, <2>1 DEF n
      <4>2. d * (F - 1) >= 0
        BY ONLY <4>1
      <4> QED BY <1>1, <4>1, <4>2
    <3> QED BY <1>1, <1>3, <3>1, <3>2
  <2> QED BY <2>1
<1>9. loan <= room - 1
  <2>1. F * loan < F * room
    BY <1>1, <1>3, <1>8
  <2>2. F * (room - loan) > 0 /\ room - loan \in Int
    BY <1>1, <1>3, <2>1
  <2>3. room - loan > 0
    BY ONLY <1>1, <2>2
  <2> QED BY <1>3, <2>3
<1>10. F * (loan + fee) < F * (room + 1)
  <2>1. F * (loan + fee) = F * loan + F * fee /\ F * (room + 1) = F * room + F
    BY <1>1, <1>3, <1>6
  <2>2. F * loan \in Int /\ F * fee \in Int /\ F * room \in Int
    BY <1>1, <1>3, <1>6
  <2> QED BY <1>1, <1>3, <1>4, <1>6, <1>9, <2>1, <2>2
<1>11. loan + fee <= room
  <2> DEFINE e == room + 1 - (loan + fee)
  <2>1. e \in Int /\ F * e = F * (room + 1) - F * (loan + fee)
    BY <1>1, <1>3, <1>6
  <2>2. F * e > 0
    BY <1>1, <1>3, <1>6, <1>10, <2>1
  <2>3. e > 0
    BY ONLY <1>1, <2>1, <2>2
  <2> QED BY <1>3, <1>6, <2>3
<1> QED BY <1>3, <1>5, <1>7, <1>11

\* Borrowing what is shown as available, with the fee that adds, keeps the
\* health factor, on a page that shows no negative balance and no negative factor.
THEOREM BorrowingKeepsHealth ==
  IInv /\ FactorsNotNegative /\ BalancesNotNegative => AvailableKeepsHealth
<1> SUFFICES ASSUME IInv, FactorsNotNegative, BalancesNotNegative, page.kind = "summary",
                    page.available \div FeeDivisor > 0
             PROVE  healthFactorWithFees(page.collateral,
                                         page.borrows + page.available \div FeeDivisor,
                                         page.fees + Fee(page.available \div FeeDivisor),
                                         page.threshold) >= Dp
  BY DEF AvailableKeepsHealth
<1> DEFINE c == page.collateral
           b == page.borrows
           f == page.fees
           l == page.ltv
           h == page.threshold
           loan == page.available \div FeeDivisor
           fee == Fee(loan)
           capacity == DivDown(c * l, LtvScale)
           room == capacity - b - f
<1>1. /\ c \in Nat /\ l \in Nat /\ h \in Nat /\ l <= h /\ b \in Nat /\ f \in Nat
      /\ LtvScale \in Nat \ {0} /\ FeeDivisor \in Nat \ {0}
  BY PledgedIs, NearDebts, SumsAre, PoolAssumption, V1Assumption
<1>2. page.available = availableBorrowsAfterFees(c, b, f, l)
  BY OnSummary
<1> DEFINE cl == c * l
           ch == c * h
<1>3. cl \in Nat /\ ch \in Nat /\ cl <= ch
  <2>1. c <= c
    BY <1>1
  <2> QED BY <1>1, <2>1, ProductMonotone
<1>4. loan > 0
  OBVIOUS
<1> HIDE DEF c, b, f, l, h, fee, cl, ch
<1>5. capacity \in Int /\ LtvScale * capacity <= cl
  <2>1. cl \in Int /\ cl >= 0
    BY <1>3
  <2>2. DivDown(cl, LtvScale) = cl \div LtvScale
    BY <2>1 DEF DivDown
  <2>3. capacity = cl \div LtvScale
    BY <2>2 DEF cl
  <2> QED BY <1>1, <2>1, <2>3, DivBounds
<1>6. page.available = room * (FeeDivisor - 1)
  <2>1. page.available # 0
    <3>1. 0 \div FeeDivisor = 0
      BY <1>1
    <3> QED BY <1>4, <3>1
  <2> QED BY <1>2, <2>1 DEF availableBorrowsAfterFees
<1> HIDE DEF capacity
<1>7. room \in Int
  BY <1>1, <1>5
<1> HIDE DEF room, loan
<1>8. loan \in Nat /\ fee \in Nat /\ loan + fee <= room
  <2>1. loan = (room * (FeeDivisor - 1)) \div FeeDivisor
    BY <1>6 DEF loan
  <2> QED BY <1>4, <1>7, <2>1, LoanAndFee DEF fee
<1> DEFINE owed == (b + loan) + (f + fee)
           d == LtvScale * owed
<1>9. owed \in Nat \ {0} /\ owed <= capacity
  BY <1>1, <1>4, <1>5, <1>8 DEF room
<1> HIDE DEF owed
<1>10. d \in Nat \ {0} /\ d <= ch
  <2>1. d \in Nat \ {0}
    BY ONLY <1>1, <1>9
  <2>2. d <= LtvScale * capacity
    <3>1. owed <= capacity /\ capacity \in Nat /\ owed \in Nat /\ LtvScale \in Nat
      BY <1>1, <1>5, <1>9
    <3>2. LtvScale <= LtvScale
      BY <1>1
    <3> QED BY <3>1, <3>2, ProductMonotone
  <2>3. LtvScale * capacity \in Int
    BY <1>1, <1>5
  <2> QED BY <1>3, <1>5, <2>1, <2>2, <2>3
<1>11. Quotient(ch, d) >= Dp
  <2>1. ch \in Int /\ ch >= d
    BY <1>3, <1>10
  <2> QED BY <1>10, <2>1, QuotientAtLeast
<1>12. healthFactorWithFees(c, b + loan, f + fee, h) = Quotient(ch, d)
  <2>1. b + loan # 0
    BY <1>1, <1>4, <1>8
  <2> QED BY <2>1 DEF healthFactorWithFees, ch, d, owed
<1>13. healthFactorWithFees(c, b + loan, f + fee, h) >= Dp
  BY <1>11, <1>12
<1> QED BY <1>13 DEF c, b, f, h, loan, fee

\* Whoever borrows all that the page shows as available, and pays the fee, stays
\* healthy, as long as no shown balance is negative.
THEOREM LoansKeepHealth ==
  ASSUME ClockNear
  PROVE  Spec => [](BalancesNotNegative => AvailableKeepsHealth)
<1>1. IInv => (BalancesNotNegative => AvailableKeepsHealth)
  BY BorrowingKeepsHealth, NearFactors
<1> QED BY <1>1, Invariant, PTL

\* The snapshot of a reserve is not older than the one of the position in it,
\* nor the clock behind it.
SnapshotsInOrder ==
  page.kind = "summary" =>
    \A r \in DOMAIN position : /\ pool[r].lastUpdateTimestamp <= page.at
                               /\ position[r].userBalanceIndex <= pool[r].liquidityIndex

\* Then no shown balance is negative.
THEOREM InOrderIsNotNegative == IInv /\ SnapshotsInOrder => BalancesNotNegative
<1> SUFFICES ASSUME IInv, SnapshotsInOrder, page.kind = "summary",
                    NEW r \in DOMAIN page.reserves
             PROVE  page.reserves[r].balance >= 0
  BY DEF BalancesNotNegative
<1> DEFINE t == page.at
           m == pool[r]
           a == position[r]
           P == a.principalATokenBalance
           R == a.redirectedBalance
           x == a.userBalanceIndex
           income == getReserveNormalizedIncome(m.rates.liquidity, m.liquidityIndex,
                                                m.lastUpdateTimestamp, t)
           C(b) == Cumulated(b, income, x)
<1>1. r \in DOMAIN position /\ page.reserves[r].balance = calculateCurrentUnderlyingBalance(a, m, t)
  <2>1. page.reserves = ShownData(t)
    BY OnSummary
  <2> QED BY <2>1 DEF ShownData, computeUserReserveData
<1>2. ReserveOK(r, m, now) /\ UserReserveOK(r, a, now) /\ t \in Int
  BY <1>1, OnSummary, SumsAre
<1>3. m.lastUpdateTimestamp <= t /\ x <= m.liquidityIndex
  BY <1>1 DEF SnapshotsInOrder
<1> HIDE DEF t, m, a
<1>4. /\ m.rates.liquidity \in Nat /\ m.liquidityIndex \in Nat /\ m.lastUpdateTimestamp \in Int
  BY <1>2 DEF ReserveOK, Reserve
<1>5. /\ P \in Nat /\ R \in Int /\ R >= 0 /\ x \in Nat /\ x >= RAY
  BY <1>2 DEF UserReserveOK, UserReserve
<1>6. income \in Nat /\ income >= m.liquidityIndex
  BY <1>2, <1>3, <1>4, IncomeAtLeast
<1>7. \A b : calculateCumulatedBalance(b, a, m, t) = C(b)
  BY CumulatedBalance
<1> HIDE DEF income, x
<1>8. income >= x
  BY <1>3, <1>4, <1>5, <1>6
<1>9. /\ C(R) \in Nat /\ C(R) >= R /\ C(R + P) \in Nat /\ C(R + P) >= R + P
  <2>1. R \in Nat /\ R + P \in Nat
    BY <1>5
  <2> QED BY <1>5, <1>6, <1>8, <2>1, CumulatedBounds, CumulatedKeeps
<1> HIDE DEF C, P, R
<1>10. calculateCurrentUnderlyingBalance(a, m, t) >= 0
  BY <1>5, <1>7, <1>9 DEF calculateCurrentUnderlyingBalance, P, R
<1> QED BY <1>1, <1>10 DEF t, m, a

-----------------------------------------------------------------------------
(* Types.                                                                  *)

Counted == now \in 0..MaxTime /\ transactions \in 0..MaxTransactions

\* The counters count up to their bounds.
LEMMA CountersStep ==
  ASSUME Counted, [Next]_vars
  PROVE  Counted'
<1>0. MaxTime \in Nat /\ MaxTransactions \in Nat
  BY V1Assumption
<1>1. \A r : Transact(r) => /\ now' = now /\ transactions < MaxTransactions
                            /\ transactions' = transactions + 1
  BY DEF Transact
<1>2. ASSUME Chain PROVE Counted'
  <2>1. CASE Tick
    BY <1>0, <2>1 DEF Tick, Counted
  <2>2. ASSUME NEW r, Transact(r) PROVE Counted'
    BY <1>0, <1>1, <2>2 DEF Counted
  <2>3. ASSUME NEW r \in Reserves, Touch(r) \/ Repay(r) \/ WithdrawCollateral(r)
        PROVE  Counted'
    BY <2>2, <2>3 DEF Touch, Repay, WithdrawCollateral
  <2>4. ASSUME NEW r \in Reserves, DisableCollateral(r) PROVE Counted'
    BY <1>0, <2>4 DEF DisableCollateral, Counted
  <2>5. ASSUME NEW r \in Reserves, NEW mode \in {"Stable", "Variable"}, NEW amount \in Loans,
               Borrow(r, mode, amount)
        PROVE  Counted'
    BY <2>2, <2>5 DEF Borrow
  <2>6. ASSUME NEW r \in Reserves, NEW u \in Users, StopRedirecting(u, r) PROVE Counted'
    BY <2>2, <2>6 DEF StopRedirecting
  <2>7. ASSUME NEW r \in Reserves, NEW u \in Users, NEW amount \in Deposits,
               Deposit(u, r, amount)
        PROVE  Counted'
    BY <2>2, <2>7 DEF Deposit
  <2>8. ASSUME NEW r \in Reserves, NEW u \in Users, NEW v \in Users, Redirect(u, v, r)
        PROVE  Counted'
    BY <2>2, <2>8 DEF Redirect
  <2> QED BY <1>2, <2>1, <2>3, <2>4, <2>5, <2>6, <2>7, <2>8 DEF Chain
<1>3. ASSUME UNCHANGED <<now, transactions>> PROVE Counted'
  BY <1>3 DEF Counted
<1>4. ASSUME NEW p, Turn(p) PROVE Counted'
  BY <1>3, <1>4 DEF Turn
<1>5. CASE UNCHANGED vars
  BY <1>3, <1>5 DEF vars
<1>6. CASE FetchPool \/ FetchPosition \/ Close
  BY <1>3, <1>6 DEF FetchPool, FetchPosition, Close
<1>7. ASSUME NEW lag, Show(lag) PROVE Counted'
  BY <1>4, <1>7 DEF Show
<1>8. CASE ShowReserves
  BY <1>4, <1>8 DEF ShowReserves
<1>9. ASSUME NEW r \in Moving, Simulate(r, 0, 0, "variable") PROVE Counted'
  BY <1>4, <1>9 DEF Simulate
<1> QED BY <1>2, <1>5, <1>6, <1>7, <1>8, <1>9 DEF Next

LEMMA CountersKeep == Spec => []Counted
<1>1. Init => Counted
  BY V1Assumption DEF Init, Counted
<1> QED BY <1>1, CountersStep, PTL DEF Spec

\* Where the utilisation rate is one at most, and the optimum two at least, no
\* foretold rate is negative.
LEMMA ForetoldRates ==
  ASSUME NEW r \in Reserves, NEW m, ReserveOK(r, m, now)
  PROVE  LET rates == calculateInterestRates(r, m, 0, 0, "variable")
         IN  rates.variable \in Nat /\ rates.stable \in Nat /\ rates.liquidity \in Nat
<1> DEFINE c == Config[r]
           s == m.totals.stable + 0
           v == m.totals.variable + 0
           d == m.totals.liquidity + 0
           use == Quotient(s + v, d)
           optimal == c.optimal * Dp
           ratio == Quotient(use, optimal)
           vrate == c.base * Dp + ratio * c.variableSlope1
           srate == ratio * c.stableSlope1
           lrate == IF s + v = 0 THEN 0
                    ELSE Quotient(vrate * v + c.averageStable * Dp * s, (s + v) * Dp)
<1>1. /\ s \in Nat /\ v \in Nat /\ d \in Nat \ {0} /\ s + v <= d
      /\ m.totals.stable = s /\ m.totals.variable = v
  BY V1Assumption DEF ReserveOK
<1>2. /\ c.optimal \in Nat /\ c.optimal >= 2 /\ c.base \in Nat /\ c.variableSlope1 \in Nat
      /\ c.stableSlope1 \in Nat /\ c.averageStable \in Nat /\ Dp \in Nat \ {0}
  BY V1Assumption, PoolAssumption DEF Factors
<1> HIDE DEF c, s, v, d
<1>3. optimal \in Nat \ {0} /\ optimal >= 2 * Dp
  <2>1. 2 * Dp <= c.optimal * Dp
    <3>1. Dp <= Dp /\ 2 \in Nat /\ c.optimal \in Nat /\ 2 <= c.optimal /\ Dp \in Nat
      BY <1>2
    <3> DEFINE two == 2
    <3>2. two \in Nat /\ two <= c.optimal
      BY <3>1
    <3> HIDE DEF two
    <3>3. two * Dp <= c.optimal * Dp
      BY <3>1, <3>2, ProductMonotone
    <3> QED BY <3>3 DEF two
  <2> QED BY <1>2, <2>1
<1> HIDE DEF optimal
<1>4. use \in Nat /\ use <= Dp
  <2>1. s + v \in Int /\ s + v \in Nat
    BY <1>1
  <2>2. use \in Nat /\ use \in Int /\ 2 * (d * use) <= 2 * ((s + v) * Dp) + d
    BY <1>1, <2>1, QuotientBounds
  <2> HIDE DEF use
  <2>3. (s + v) * Dp <= d * Dp /\ (s + v) * Dp \in Nat /\ d * Dp \in Nat
    <3>1. Dp <= Dp /\ d \in Nat /\ Dp \in Nat
      BY <1>1, <1>2
    <3> QED BY <1>1, <2>1, <3>1, ProductMonotone
  <2>4. ASSUME use > Dp PROVE FALSE
    <3> DEFINE e == use - Dp - 1
    <3>1. e \in Nat /\ d * use = d * Dp + d + d * e /\ d * e >= 0
      BY <1>1, <1>2, <2>2, <2>4
    <3>2. d * use \in Int /\ d * e \in Int
      BY <1>1, <2>2, <3>1
    <3> QED BY <1>1, <2>2, <2>3, <3>1, <3>2
  <2> QED BY <1>2, <2>2, <2>4
<1> HIDE DEF use
<1>5. ~(use > optimal)
  BY <1>2, <1>3, <1>4
<1>6. ratio \in Nat
  <2>1. use \in Int
    BY <1>4
  <2> QED BY <1>3, <1>4, <2>1, QuotientBounds
<1> HIDE DEF ratio
<1>7. vrate \in Nat /\ srate \in Nat
  BY <1>2, <1>6
<1> HIDE DEF vrate
<1>8. lrate \in Nat
  <2>1. CASE s + v = 0
    BY <2>1
  <2>2. CASE s + v # 0
    <3> DEFINE n == vrate * v + c.averageStable * Dp * s
               k == (s + v) * Dp
    <3>1. n \in Nat
      <4>1. vrate * v \in Nat /\ c.averageStable * Dp \in Nat
        BY <1>1, <1>2, <1>7
      <4> DEFINE q == c.averageStable * Dp
      <4> HIDE DEF q
      <4>2. q \in Nat
        BY <4>1 DEF q
      <4>3. q * s \in Nat
        BY ONLY <1>1, <4>2
      <4> QED BY <4>1, <4>3 DEF q
    <3>2. k \in Nat \ {0}
      BY <1>1, <1>2, <2>2
    <3>3. n \in Int
      BY <3>1
    <3> HIDE DEF n, k
    <3>4. Quotient(n, k) \in Nat
      BY <3>1, <3>2, <3>3, QuotientBounds
    <3> QED BY <2>2, <3>4 DEF n, k
  <2> QED BY <2>1, <2>2
<1>9. calculateInterestRates(r, m, 0, 0, "variable") =
        [variable |-> vrate, stable |-> srate, liquidity |-> lrate]
  BY <1>5 DEF calculateInterestRates, vrate, ratio, use, optimal, s, v, d, c
<1> HIDE DEF srate, lrate
<1> QED BY <1>7, <1>8, <1>9

\* What a page says of a user.
LEMMA SummaryTyped ==
  ASSUME IInv, FactorsNotNegative, BalancesNotNegative, page.kind = "summary"
  PROVE  IsSummary(page)
<1> DEFINE t == page.at
           data == ShownData(t)
           c == page.collateral
           b == page.borrows
           f == page.fees
           h == page.threshold
<1>1. /\ t \in Int /\ page.liquidity \in Int /\ c \in Nat /\ b \in Nat /\ f \in Nat
      /\ page.ltv \in Nat /\ h \in Nat
  BY SumsAre, PledgedIs, NearDebts
<1>2. /\ page.reserves = data
      /\ page.available = availableBorrowsAfterFees(c, b, f, page.ltv)
      /\ page.maxWithdraw = maxAmountToWithdraw(page.liquidity, b, f, h)
      /\ page.healthFactor = healthFactorWithFees(c, b, f, h)
  BY OnSummary
<1>3. page = [kind |-> "summary", at |-> t, reserves |-> page.reserves,
              liquidity |-> page.liquidity, collateral |-> c, borrows |-> b, fees |-> f,
              ltv |-> page.ltv, threshold |-> h, available |-> page.available,
              maxWithdraw |-> page.maxWithdraw, healthFactor |-> page.healthFactor]
  BY OnSummary DEF t, c, b, f, h
<1>4. DOMAIN page.reserves = {} \/ page.reserves \in [Reserves -> ComputedUserReserve]
  <2>1. DOMAIN data = DOMAIN position
    BY DEF ShownData
  <2>2. CASE DOMAIN position = {}
    BY <1>2, <2>1, <2>2
  <2>3. CASE DOMAIN position = Reserves
    <3>1. ASSUME NEW r \in Reserves PROVE data[r] \in ComputedUserReserve
      <4>1. r \in DOMAIN position
        BY <2>3
      <4>2. data[r] = [balance |-> calculateCurrentUnderlyingBalance(position[r], pool[r], t),
                       borrows |-> getCompoundedBorrowBalance(pool[r], position[r], t),
                       fee |-> position[r].originationFee]
        BY <4>1 DEF ShownData, computeUserReserveData
      <4>3. data[r].balance \in Int /\ data[r].borrows \in Nat /\ data[r].fee \in Nat
        BY <4>1, SumsAre, NearDebts
      <4> HIDE DEF data
      <4> QED BY <4>2, <4>3 DEF ComputedUserReserve
    <3>2. data = [r \in Reserves |-> data[r]]
      BY <2>3 DEF ShownData
    <3> HIDE DEF data
    <3>3. data \in [Reserves -> ComputedUserReserve]
      BY <3>1, <3>2
    <3> QED BY <1>2, <3>3
  <2> QED BY <2>2, <2>3, OnSummary
<1> DEFINE capacity == DivDown(c * page.ltv, LtvScale)
<1>5. FeeDivisor \in Nat \ {0} /\ LtvScale \in Nat \ {0} /\ Dp \in Nat
  BY V1Assumption, PoolAssumption
<1> HIDE DEF data, t, c, b, f, h
<1>6. capacity \in Int
  <2>1. c * page.ltv \in Int
    BY <1>1
  <2> QED BY <1>5, <2>1, DivDownInt
<1>7. page.available \in Int /\ page.available + f * (FeeDivisor - 1) >= 0
  <2>0. f * (FeeDivisor - 1) \in Nat
    BY <1>1, <1>5
  <2>1. CASE page.available = 0
    BY <2>0, <2>1
  <2>2. CASE page.available # 0
    <3>1. page.available = (capacity - b - f) * (FeeDivisor - 1) /\ ~(capacity < b)
      BY <1>2, <2>2 DEF availableBorrowsAfterFees
    <3> HIDE DEF capacity
    <3> DEFINE e == capacity - b
               k == FeeDivisor - 1
    <3>2. e \in Nat /\ k \in Nat /\ page.available = (e - f) * k
      BY <1>1, <1>5, <1>6, <3>1
    <3> HIDE DEF e
    <3>3. (e - f) * k = e * k - f * k /\ e * k \in Nat /\ f * k \in Nat
      BY <1>1, <3>2
    <3> QED BY <3>2, <3>3
  <2> QED BY <2>1, <2>2
<1>8. page.maxWithdraw \in Int \cup {None}
  <2>1. CASE b + f = 0
    BY <1>1, <1>2, <2>1 DEF maxAmountToWithdraw
  <2>2. CASE b + f # 0 /\ h = 0
    BY <1>2, <2>2 DEF maxAmountToWithdraw
  <2>3. CASE b + f # 0 /\ h # 0
    <3> DEFINE n == (b + f) * LtvScale
    <3>1. n \in Int /\ h \in Nat \ {0}
      BY <1>1, <1>5, <2>3
    <3>2. page.maxWithdraw = page.liquidity - DivDown(n, h)
      BY <1>2, <2>3 DEF maxAmountToWithdraw
    <3> HIDE DEF n
    <3>3. DivDown(n, h) \in Int
      BY <3>1, DivDownInt
    <3> QED BY <1>1, <3>2, <3>3
  <2> QED BY <2>1, <2>2, <2>3
<1>9. page.healthFactor \in Int
  <2>1. CASE b = 0
    BY <1>2, <2>1 DEF healthFactorWithFees
  <2>2. CASE b # 0
    <3> DEFINE n == c * h
               d == LtvScale * (b + f)
    <3>1. n \in Int /\ d \in Nat \ {0}
      BY <1>1, <1>5, <2>2
    <3>2. page.healthFactor = Quotient(n, d)
      BY <1>2, <2>2 DEF healthFactorWithFees
    <3> HIDE DEF n, d
    <3> QED BY <3>1, <3>2, QuotientBounds
  <2> QED BY <2>1, <2>2
<1> HIDE DEF capacity
<1>10. page \in [kind : {"summary"}, at : Int, reserves : {page.reserves}, liquidity : Int,
                 collateral : Int, borrows : Nat, fees : Nat, ltv : Nat, threshold : Nat,
                 available : Int, maxWithdraw : Int \cup {None}, healthFactor : Int]
  <2> DEFINE res == page.reserves
             liq == page.liquidity
             ltv == page.ltv
             av == page.available
             mw == page.maxWithdraw
             hf == page.healthFactor
  <2>1. /\ t \in Int /\ liq \in Int /\ c \in Int /\ b \in Nat /\ f \in Nat /\ ltv \in Nat
        /\ h \in Nat /\ av \in Int /\ mw \in Int \cup {None} /\ hf \in Int
    BY <1>1, <1>7, <1>8, <1>9
  <2>2. page = [kind |-> "summary", at |-> t, reserves |-> res, liquidity |-> liq,
                collateral |-> c, borrows |-> b, fees |-> f, ltv |-> ltv, threshold |-> h,
                available |-> av, maxWithdraw |-> mw, healthFactor |-> hf]
    BY <1>3 DEF t, c, b, f, h
  <2> HIDE DEF res, liq, ltv, av, mw, hf
  <2>3. page \in [kind : {"summary"}, at : Int, reserves : {res}, liquidity : Int,
                 collateral : Int, borrows : Nat, fees : Nat, ltv : Nat, threshold : Nat,
                 available : Int, maxWithdraw : Int \cup {None}, healthFactor : Int]
    BY ONLY <2>1, <2>2
  <2> QED BY <2>3 DEF res
<1> QED BY <1>4, <1>7, <1>10 DEF IsSummary, f

\* Everything has its type, on a page that shows no negative balance and factor:
\* no shown debt or rate is negative.
THEOREM Typed == IInv /\ Counted /\ FactorsNotNegative /\ BalancesNotNegative => TypeOK
<1> SUFFICES ASSUME IInv, Counted, FactorsNotNegative,
                    BalancesNotNegative
             PROVE  TypeOK
  OBVIOUS
<1>1. market \in [Reserves -> Reserve] /\ account \in [Users -> [Reserves -> UserReserve]]
  BY DEF IInv, ChainOK
<1>2. /\ pool = Nothing \/ pool \in [Reserves -> Reserve]
      /\ position = Nothing \/ position \in [Reserves -> UserReserve]
  BY DEF IInv, SnapshotsOK
<1>3. \/ page \in {Blank, Thrown}
      \/ page.kind = "summary" /\ IsSummary(page)
      \/ page.kind = "list" /\ IsList(page)
      \/ page.kind = "rates" /\ IsRates(page)
  <2>1. ASSUME NEW t, page = computeRawUserSummaryData(pool, position, t)
        PROVE  page = Thrown \/ (page.kind = "summary" /\ IsSummary(page))
    <3>1. page = Thrown \/ page.kind = "summary"
      BY <2>1 DEF computeRawUserSummaryData, summaryOf
    <3>2. ASSUME page.kind = "summary" PROVE IsSummary(page)
      BY <3>2, SummaryTyped
    <3>3. CASE page = Thrown
      BY <3>3
    <3>4. CASE page.kind = "summary"
      BY <3>2, <3>4
    <3> QED BY <3>1, <3>3, <3>4
  <2>2. ASSUME page = [kind |-> "list", reserves |-> formatReserves(pool, ThirtyDaysAgo)]
        PROVE  page.kind = "list" /\ IsList(page)
    <3>1. page.kind = "list"
      BY <2>2
    <3>2. pool \in [Reserves -> Reserve]
      BY <3>1, OnList
    <3>3. DOMAIN page.reserves = Reserves
      BY <2>2, <3>2 DEF formatReserves
    <3>4. ASSUME NEW r \in Reserves PROVE page.reserves[r].variable.kind \in Average30
      <4>1. page.reserves[r] =
              [kind |-> "averages",
               variable |-> Average(pool[r], ThirtyDaysAgo[r], "variableBorrowIndex"),
               liquidity |-> Average(pool[r], ThirtyDaysAgo[r], "liquidityIndex")]
        BY <2>2, <3>2 DEF formatReserves, ThirtyDaysAgo
      <4>2. page.reserves[r].variable = Average(pool[r], ThirtyDaysAgo[r], "variableBorrowIndex")
        BY <4>1
      <4>3. \A i, j, s, u : calculateAverageRate(i, j, s, u).kind \in Average30
        BY DEF calculateAverageRate, Average30
      <4> QED BY <4>2, <4>3 DEF Average
    <3> QED BY <3>1, <3>3, <3>4 DEF IsList
  <2>3. ASSUME NEW r \in Moving, r \in DOMAIN pool, page = SimulatedRates(r)
        PROVE  page.kind = "rates" /\ IsRates(page)
    <3> DEFINE rates == calculateInterestRates(r, pool[r], 0, 0, "variable")
               v == rates.variable
               s == rates.stable
               l == rates.liquidity
    <3>1. r \in Reserves
      BY V1Assumption
    <3>2. ReserveOK(r, pool[r], now)
      <4>1. pool # Nothing
        BY <2>3 DEF Nothing
      <4> QED BY <3>1, <4>1 DEF IInv, SnapshotsOK
    <3>3. v \in Nat /\ s \in Nat /\ l \in Nat
      BY <3>1, <3>2, ForetoldRates
    <3>4. page = [kind |-> "rates", of |-> r, variable |-> v, stable |-> s, liquidity |-> l]
      BY <2>3 DEF SimulatedRates
    <3> HIDE DEF v, s, l
    <3> QED BY <3>1, <3>3, <3>4 DEF IsRates
  <2>4. page = Blank => page \in {Blank, Thrown}
    OBVIOUS
  <2> QED BY <2>1, <2>2, <2>3, <2>4 DEF IInv, PageIsComputed
<1> QED BY <1>1, <1>2, <1>3 DEF TypeOK, Counted

\* What the library computes is of its type: behind a clock that is near, and as
\* long as no shown balance is negative.
THEOREM TypeCorrect ==
  ASSUME ClockNear
  PROVE  Spec => [](BalancesNotNegative => TypeOK)
<1>1. IInv /\ Counted => (BalancesNotNegative => TypeOK)
  BY Typed, NearFactors
<1> QED BY <1>1, Invariant, CountersKeep, PTL

\* Neither is the clock behind the position.
ClockCaughtUp ==
  page.kind = "summary" =>
    \A r \in DOMAIN position : position[r].lastUpdateTimestamp <= page.at

LEMMA CaughtUpFactors ==
  ASSUME IInv, SnapshotsInOrder, ClockCaughtUp
  PROVE  FactorsNotNegative
<1> SUFFICES ASSUME page.kind = "summary", NEW r \in DOMAIN position
             PROVE  /\ Behind(pool[r].rates.variable, page.at, pool[r].lastUpdateTimestamp)
                    /\ Behind(position[r].borrowRate, page.at,
                              position[r].lastUpdateTimestamp)
  BY DEF FactorsNotNegative
<1>1. page.at \in Int /\ pool[r] \in Reserve /\ position[r] \in UserReserve
  BY OnSummary, SumsAre DEF ReserveOK, UserReserveOK
<1>2. /\ pool[r].rates.variable \in Nat /\ pool[r].lastUpdateTimestamp \in Int
      /\ position[r].borrowRate \in Nat /\ position[r].lastUpdateTimestamp \in Int
  BY <1>1 DEF Reserve, UserReserve
<1> QED BY <1>1, <1>2, NotBehind DEF SnapshotsInOrder, ClockCaughtUp

(***************************************************************************)
(* What it takes of the application: it fetches the pool no earlier than   *)
(* the position, and its clock has reached both.  Then, for all reserves,  *)
(* rates, redirections and moments, everything on the page of the first    *)
(* protocol has its type, and whoever borrows what it offers stays         *)
(* healthy; so does who withdraws it, from a reserve whose threshold is    *)
(* not above the average.                                                  *)
(***************************************************************************)
THEOREM PagesInOrder ==
  Spec => [](SnapshotsInOrder /\ ClockCaughtUp
               => TypeOK /\ WithdrawalKeepsHealth /\ AvailableKeepsHealth)
<1>1. IInv /\ Counted =>
        (SnapshotsInOrder /\ ClockCaughtUp
           => TypeOK /\ WithdrawalKeepsHealth /\ AvailableKeepsHealth)
  <2> SUFFICES ASSUME IInv, Counted, SnapshotsInOrder, ClockCaughtUp
               PROVE  TypeOK /\ WithdrawalKeepsHealth /\ AvailableKeepsHealth
    OBVIOUS
  <2>1. BalancesNotNegative /\ FactorsNotNegative
    BY InOrderIsNotNegative, CaughtUpFactors
  <2> QED BY <2>1, Typed, WithdrawingKeepsHealth, BorrowingKeepsHealth
<1> QED BY <1>1, Invariant, CountersKeep, PTL
=============================================================================
