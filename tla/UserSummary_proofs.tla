------------------------- MODULE UserSummary_proofs -------------------------
(***************************************************************************)
(* For every pool, clock and number of transactions: the page fails only   *)
(* for a position newer than the reserves, what it shows does not shrink   *)
(* with time and, behind a clock that is near, is what the contracts say   *)
(* or one unit more; borrowing all that it shows as available leaves a     *)
(* healthy position, and no reward it shows is negative.  The yields of a  *)
(* list cover the growth of debts but for the roundings of both, and where *)
(* it shows none no rewards grow.                                          *)
(***************************************************************************)
EXTENDS UserSummary, PoolMath_proofs

(***************************************************************************)
(* The inductive invariant: users only have positions in listed reserves,  *)
(* a subscription only lags behind, and reserves fetched after a position  *)
(* know all of it.                                                         *)
(***************************************************************************)
Inv ==
  /\ DOMAIN account \subseteq DOMAIN market
  /\ DOMAIN position \subseteq DOMAIN account
  /\ ~ahead => DOMAIN position \subseteq DOMAIN pool
  /\ page = Thrown => SomeUnknown(pool, position)

\* The invariant implies the property: a page fails because of a reserve of
\* the position that the pool data lack (computeRawUserSummaryData's throw).
LEMMA InvImplies == Inv => PageWhenPoolFresh
BY DEF Inv, PageWhenPoolFresh, SomeUnknown

\* computeRawUserSummaryData throws for an unknown reserve and nothing else.
LEMMA ThrownForUnknown ==
  ASSUME NEW reserves, NEW users, NEW t,
         computeRawUserSummaryData(reserves, users, t) = Thrown
  PROVE  SomeUnknown(reserves, users)
<1> SUFFICES ASSUME ~SomeUnknown(reserves, users) PROVE FALSE
  OBVIOUS
<1>1. computeRawUserSummaryData(reserves, users, t).kind = "shown"
  BY DEF computeRawUserSummaryData
<1> QED BY <1>1 DEF Thrown

\* Nothing is known and nothing fetched at first.
LEMMA InvInit == Init => Inv
BY DEF Init, Inv, Nothing, Blank, Thrown

\* Every step preserves the invariant: listing and using a reserve, the two
\* subscriptions in any order, and the computation of a page.
LEMMA InvStep == Inv /\ [Next]_vars => Inv'
<1> SUFFICES ASSUME Inv, [Next]_vars PROVE Inv'
  OBVIOUS
<1> USE DEF Inv
<1>1. CASE Tick
  BY <1>1 DEF Tick, SomeUnknown
<1>2. ASSUME NEW r \in Reserves, List(r) PROVE Inv'
  <2>1. DOMAIN market' = DOMAIN market \cup {r}
    BY <1>2 DEF List
  <2> QED BY <1>2, <2>1 DEF List, Transact, SomeUnknown
<1>3. ASSUME NEW r \in Reserves, Touch(r) PROVE Inv'
  <2>1. DOMAIN market' = DOMAIN market
    BY <1>3 DEF Touch
  <2> QED BY <1>3, <2>1 DEF Touch, Transact, SomeUnknown
<1>4. ASSUME NEW r \in Reserves, Use(r) PROVE Inv'
  <2>1. r \in DOMAIN market /\ DOMAIN market' = DOMAIN market
    BY <1>4 DEF Use
  <2>2. DOMAIN account' = DOMAIN account \cup {r}
    BY <1>4 DEF Use
  <2> QED BY <1>4, <2>1, <2>2 DEF Use, Transact, SomeUnknown
<1>5. CASE FetchPool
  BY <1>5 DEF FetchPool, Blank, Thrown
<1>6. CASE FetchPosition
  BY <1>6 DEF FetchPosition, Blank, Thrown
<1>7. CASE Show
  <2>1. page' = Thrown => SomeUnknown(pool, position)
    BY <1>7, ThrownForUnknown DEF Show
  <2> QED BY <1>7, <2>1 DEF Show, SomeUnknown
<1>8. CASE ShowReserves
  <2>1. page'.kind = "list"
    BY <1>8 DEF ShowReserves, formatReserves
  <2> QED BY <1>8, <2>1 DEF ShowReserves, Thrown
<1>9. CASE Close
  BY <1>9 DEF Close, Blank, Thrown
<1>10. CASE UNCHANGED vars
  BY <1>10 DEF vars, SomeUnknown
<1> QED BY <1>1, <1>2, <1>3, <1>4, <1>5, <1>6, <1>7, <1>8, <1>9, <1>10 DEF Next

\* Whatever the order in which reserves and positions arrive, the page fails
\* only while the position is the newer of the two.
THEOREM PagesFailOnlyAhead == Spec => []PageWhenPoolFresh
<1>1. Spec => []Inv
  BY InvInit, InvStep, PTL DEF Spec
<1> QED BY <1>1, InvImplies, PTL

-----------------------------------------------------------------------------
(***************************************************************************)
(* The invariant of the numbers.  The arithmetic needs natural numbers and *)
(* dates in order: no reserve is updated after now, and no position dates  *)
(* from after the last update of its reserve.                              *)
(***************************************************************************)
Accruing(m, t) ==
  /\ m.liquidityIndex \in Nat
  /\ m.variableBorrowIndex \in Nat /\ m.variableBorrowIndex >= RAY
  /\ m.rates.liquidity \in Nat /\ m.rates.variable \in Nat /\ m.rates.stable \in Nat
  /\ m.lastUpdateTimestamp \in Nat /\ m.lastUpdateTimestamp <= t
  /\ \A k \in {"v", "s"} : m.incentivesIndex[k] \in Int /\ m.incentivesLast[k] \in Nat

Holding(u, t) ==
  /\ u.balances.aToken \in Nat /\ u.balances.variable \in Nat
  /\ u.balances.stable \in Nat
  /\ u.stableBorrowLastUpdateTimestamp \in Nat
  /\ u.stableBorrowLastUpdateTimestamp <= t
  /\ \A k \in {"v", "s"} : u.incentivesUserIndex[k] \in Int

\* A page is what the snapshots give, until one of them is fetched again.
PageIsComputed ==
  page.kind = "shown" =>
    /\ page.at \in Int /\ ~SomeUnknown(pool, position)
    /\ page = computeRawUserSummaryData(pool, position, page.at)
    /\ lag = 0 => \A r \in DOMAIN pool : pool[r].lastUpdateTimestamp <= page.at

Sound ==
  /\ Inv
  /\ now \in Nat /\ lag \in Nat
  /\ \A r \in DOMAIN market : r \in Reserves /\ Accruing(market[r], now)
  /\ \A r \in DOMAIN pool : r \in Reserves /\ Accruing(pool[r], now)
  /\ \A r \in DOMAIN account : Holding(account[r], market[r].lastUpdateTimestamp)
  /\ \A r \in DOMAIN position : Holding(position[r], market[r].lastUpdateTimestamp)
  /\ ~ahead => \A r \in DOMAIN position :
                 Holding(position[r], pool[r].lastUpdateTimestamp)
  /\ PageIsComputed

-----------------------------------------------------------------------------
(* What the library computes from one reserve and the position in it.      *)

\* Rewards do not shrink before the emission's end, nor after it.
LEMMA RewardsGrow ==
  ASSUME NEW balance \in Nat, NEW index \in Int, NEW userIndex \in Int,
         NEW last \in Nat, NEW emission \in Nat, NEW supply \in Nat \ {0},
         NEW s \in Int, NEW t \in Int, last <= s, s <= t
  PROVE  calculateRewards(balance, index, userIndex, last, emission, supply, s)
           <= calculateRewards(balance, index, userIndex, last, emission, supply, t)
<1> DEFINE until(x) == IF x > EmissionEnd THEN EmissionEnd ELSE x
           earned(x) == DivDown(emission * (until(x) - last) * RewardScale, supply)
           current(x) == IF last = x \/ last >= EmissionEnd THEN index
                         ELSE earned(x) + index
<1>0. EmissionEnd \in Nat /\ RewardScale \in Nat \ {0}
  BY SummaryAssumption
<1>1. current(s) \in Int /\ current(t) \in Int /\ current(s) <= current(t)
  <2>1. CASE last >= EmissionEnd
    BY <2>1
  <2>2. CASE last < EmissionEnd
    <3>1. until(s) - last \in Nat /\ until(t) - last \in Nat
          /\ until(s) - last <= until(t) - last
      BY <1>0, <2>2
    <3> DEFINE d == until(s) - last
               e == until(t) - last
    <3> HIDE DEF until
    <3>2. d \in Nat /\ e \in Nat /\ d <= e
      BY <3>1
    <3> HIDE DEF d, e
    <3>3. emission * d \in Nat /\ emission * e \in Nat /\ emission * d <= emission * e
      BY <3>2, ProductMonotone
    <3>4. /\ emission * d * RewardScale \in Nat /\ emission * e * RewardScale \in Nat
          /\ emission * d * RewardScale <= emission * e * RewardScale
      BY <1>0, <3>3, ProductMonotone
    <3>5. /\ DivDown(emission * d * RewardScale, supply) \in Nat
          /\ DivDown(emission * d * RewardScale, supply)
               <= DivDown(emission * e * RewardScale, supply)
      BY <3>4, DivDownMonotone
    <3>6. /\ DivDown(emission * e * RewardScale, supply) \in Nat
      BY <3>4, DivDownMonotone
    <3>7. earned(s) \in Nat /\ earned(t) \in Nat /\ earned(s) <= earned(t)
      BY <3>5, <3>6 DEF d, e
    <3> HIDE DEF earned
    <3> QED BY <2>2, <3>7
  <2> QED BY <1>0, <2>1, <2>2
<1>2. /\ calculateRewards(balance, index, userIndex, last, emission, supply, s)
           = DivDown(balance * (current(s) - userIndex), RewardScale)
      /\ calculateRewards(balance, index, userIndex, last, emission, supply, t)
           = DivDown(balance * (current(t) - userIndex), RewardScale)
  BY DEF calculateRewards
<1> DEFINE x == current(s)
           y == current(t)
<1> HIDE DEF current
<1>3. x \in Int /\ y \in Int /\ x <= y
  BY <1>1
<1> HIDE DEF x, y
<1>4. /\ balance * (x - userIndex) \in Int /\ balance * (y - userIndex) \in Int
      /\ balance * (x - userIndex) <= balance * (y - userIndex)
  BY <1>3
<1>5. DivDown(balance * (x - userIndex), RewardScale)
        <= DivDown(balance * (y - userIndex), RewardScale)
  BY <1>0, <1>4, DivDownMonotone
<1> QED BY <1>2, <1>5 DEF x, y

\* Whether a reserve has debts of a kind does not depend on the date.
LEMMA SameSupplies ==
  ASSUME NEW r \in Reserves, NEW m, NEW t \in Int, Accruing(m, t)
  PROVE  /\ calculateSupplies(r, m, t).v = 0 <=> Config[r].totalScaledVariableDebt = 0
         /\ calculateSupplies(r, m, t).s = 0 <=> Config[r].totalPrincipalStableDebt = 0
<1> DEFINE c == Config[r]
           v == c.totalScaledVariableDebt
           p == c.totalPrincipalStableDebt
           g == calculateCompoundedInterest(m.rates.variable, t, m.lastUpdateTimestamp)
           h == calculateCompoundedInterest(c.averageStableRate, t, 0)
<1>0. /\ v \in Nat /\ p \in Nat /\ c.averageStableRate \in Nat
      /\ c.stableDebtLastUpdateTimestamp = 0
  BY SummaryAssumption DEF Factors
<1>1. /\ m.lastUpdateTimestamp \in Int /\ 0 \in Int /\ m.lastUpdateTimestamp <= t
      /\ 0 <= t /\ t <= t /\ m.rates.variable \in Nat
      /\ m.variableBorrowIndex \in Nat /\ m.variableBorrowIndex >= RAY
  BY DEF Accruing
<1>2. g \in Nat /\ g >= RAY /\ h \in Nat /\ h >= RAY
  BY <1>0, <1>1, CompoundedMonotone
<1>3. /\ calculateSupplies(r, m, t).v = rayMul(rayMul(v, m.variableBorrowIndex), g)
      /\ calculateSupplies(r, m, t).s = rayMul(p, h)
  BY <1>0 DEF calculateSupplies
<1> HIDE DEF v, p, g, h
<1>4. \A x \in Nat : rayMul(0, x) = 0
  <2> SUFFICES ASSUME NEW x \in Nat PROVE rayMul(0, x) = 0
    OBVIOUS
  <2>1. 0 * x = 0
    OBVIOUS
  <2>2. (HALF_RAY + 0) \div RAY = 0
    BY HalfRay, RayAssumption
  <2> QED BY <2>1, <2>2, RayMulNat
<1>5. \A x \in Nat, y \in Nat : y >= RAY => rayMul(x, y) \in Nat /\ rayMul(x, y) >= x
  BY RayMulNat, RayMulAtLeast
<1>6. rayMul(v, m.variableBorrowIndex) \in Nat
      /\ rayMul(v, m.variableBorrowIndex) >= v
  BY <1>0, <1>1, <1>5
<1>7. rayMul(rayMul(v, m.variableBorrowIndex), g) = 0 <=> v = 0
  <2>1. rayMul(rayMul(v, m.variableBorrowIndex), g)
          >= rayMul(v, m.variableBorrowIndex)
        /\ rayMul(rayMul(v, m.variableBorrowIndex), g) \in Nat
    BY <1>2, <1>5, <1>6
  <2>2. v = 0 => rayMul(v, m.variableBorrowIndex) = 0
    BY <1>1, <1>4
  <2> QED BY <1>0, <1>2, <1>4, <1>6, <2>1, <2>2
<1>8. rayMul(p, h) = 0 <=> p = 0
  <2>1. rayMul(p, h) \in Nat /\ rayMul(p, h) >= p
    BY <1>0, <1>2, <1>5
  <2> QED BY <1>0, <1>2, <1>4, <2>1
<1> QED BY <1>3, <1>7, <1>8 DEF v, p

\* Balances, debts and the rewards of debts do not shrink between two dates.
LEMMA DataGrow ==
  ASSUME NEW r \in Reserves, NEW m, NEW u, NEW s \in Int, NEW t \in Int, s <= t,
         Accruing(m, s), Holding(u, m.lastUpdateTimestamp),
         \A k \in {"v", "s"} : m.incentivesLast[k] <= s
  PROVE  LET before == computeUserReserveData(r, m, u, s)
             after == computeUserReserveData(r, m, u, t)
         IN  /\ before.underlyingBalance <= after.underlyingBalance
             /\ before.variableBorrows <= after.variableBorrows
             /\ before.stableBorrows <= after.stableBorrows
             /\ \A k \in {"v", "s"} : before.rewards[k] <= after.rewards[k]
<1> DEFINE last == m.lastUpdateTimestamp
           income(x) == getReserveNormalizedIncome(m.rates.liquidity,
                                                   m.liquidityIndex, last, x)
           factor(x) == rayMul(calculateCompoundedInterest(m.rates.variable, x, last),
                               m.variableBorrowIndex)
           first == u.stableBorrowLastUpdateTimestamp
           stable(x) == calculateCompoundedInterest(m.rates.stable, x, first)
           a == u.balances.aToken
           v == u.balances.variable
           p == u.balances.stable
<1>0. /\ last \in Int /\ first \in Int /\ last <= s /\ first <= s /\ t <= t
      /\ a \in Nat /\ v \in Nat /\ p \in Nat
      /\ m.rates.liquidity \in Nat /\ m.liquidityIndex \in Nat
      /\ m.rates.variable \in Nat /\ m.variableBorrowIndex \in Nat
      /\ m.rates.stable \in Nat
  BY DEF Accruing, Holding
<1>1. /\ income(s) \in Nat /\ income(t) \in Nat /\ income(s) <= income(t)
  <2>1. income(s) \in Nat /\ income(s) <= income(t)
    BY <1>0, IncomeMonotone
  <2>2. income(t) \in Nat
    <3>1. last <= t
      BY <1>0
    <3> QED BY <1>0, <3>1, IncomeMonotone
  <2> QED BY <2>1, <2>2
<1>2. /\ factor(s) \in Nat /\ factor(t) \in Nat /\ factor(s) <= factor(t)
  <2>1. factor(s) \in Nat /\ factor(s) <= factor(t)
    BY <1>0, DebtFactorMonotone
  <2>2. factor(t) \in Nat
    <3>1. last <= t
      BY <1>0
    <3> QED BY <1>0, <3>1, DebtFactorMonotone
  <2> QED BY <2>1, <2>2
<1>3. /\ stable(s) \in Nat /\ stable(t) \in Nat /\ stable(s) <= stable(t)
  <2>1. stable(s) \in Nat /\ stable(s) <= stable(t)
    BY <1>0, CompoundedMonotone
  <2>2. stable(t) \in Nat
    <3>1. first <= t
      BY <1>0
    <3> QED BY <1>0, <3>1, CompoundedMonotone
  <2> QED BY <2>1, <2>2
<1>4. \A x \in {s, t} :
        /\ computeUserReserveData(r, m, u, x).underlyingBalance = Grown(a, income(x))
        /\ computeUserReserveData(r, m, u, x).variableBorrows
             = IF v = 0 THEN 0 ELSE Grown(v, factor(x))
        /\ computeUserReserveData(r, m, u, x).stableBorrows
             = IF p = 0 THEN 0 ELSE Grown(p, stable(x))
  BY DEF computeUserReserveData, getLinearBalance, getCompoundedBalance,
         getCompoundedStableBalance
<1> HIDE DEF income, factor, stable, a, v, p
<1>5. /\ Grown(a, income(s)) <= Grown(a, income(t))
      /\ Grown(v, factor(s)) <= Grown(v, factor(t))
      /\ Grown(p, stable(s)) <= Grown(p, stable(t))
  BY <1>0, <1>1, <1>2, <1>3, GrownMonotone
<1>6. \A k \in {"v", "s"} :
        computeUserReserveData(r, m, u, s).rewards[k]
          <= computeUserReserveData(r, m, u, t).rewards[k]
  <2> SUFFICES ASSUME NEW k \in {"v", "s"}
               PROVE  computeUserReserveData(r, m, u, s).rewards[k]
                        <= computeUserReserveData(r, m, u, t).rewards[k]
    OBVIOUS
  <2> DEFINE supply == IF k = "v" THEN Config[r].totalScaledVariableDebt
                       ELSE Config[r].totalPrincipalStableDebt
             reward(x) == calculateRewards(Held(u.balances)[k], m.incentivesIndex[k],
                            u.incentivesUserIndex[k], m.incentivesLast[k],
                            Config[r].emissionPerSecond[k], supply, x)
  <2>1. /\ supply \in Nat /\ Config[r].emissionPerSecond[k] \in Nat
        /\ Held(u.balances)[k] \in Nat /\ m.incentivesIndex[k] \in Int
        /\ u.incentivesUserIndex[k] \in Int /\ m.incentivesLast[k] \in Nat
        /\ m.incentivesLast[k] <= s
    BY SummaryAssumption DEF Factors, Kinds, Held, Accruing, Holding
  <2>2. \A x \in {s, t} : calculateSupplies(r, m, x)[k] = 0 <=> supply = 0
    <3>1. Accruing(m, s) /\ Accruing(m, t)
      BY DEF Accruing
    <3>2. /\ calculateSupplies(r, m, s).v = 0 <=> Config[r].totalScaledVariableDebt = 0
          /\ calculateSupplies(r, m, s).s = 0 <=> Config[r].totalPrincipalStableDebt = 0
          /\ calculateSupplies(r, m, t).v = 0 <=> Config[r].totalScaledVariableDebt = 0
          /\ calculateSupplies(r, m, t).s = 0 <=> Config[r].totalPrincipalStableDebt = 0
      BY <3>1, SameSupplies
    <3> QED BY <3>2
  <2>3. \A x \in {s, t} :
          computeUserReserveData(r, m, u, x).rewards[k]
            = IF calculateSupplies(r, m, x)[k] = 0 THEN 0 ELSE reward(x)
    <3>1. \A x \in {s, t} : RewardSupply(r, m, x)[k] = supply
      BY DEF RewardSupply
    <3> QED BY <3>1 DEF computeUserReserveData, Kinds
  <2>4. CASE supply = 0
    BY <2>2, <2>3, <2>4
  <2>5. CASE supply # 0
    <3>1. reward(s) <= reward(t)
      BY <2>1, <2>5, RewardsGrow
    <3> QED BY <2>2, <2>3, <2>5, <3>1
  <2> QED BY <2>4, <2>5
<1> QED BY <1>4, <1>5, <1>6

-----------------------------------------------------------------------------
(* The invariant is inductive.                                             *)

\* A page that shows something was computed from known reserves only.
LEMMA ShownData ==
  ASSUME NEW reserves, NEW users, NEW t,
         computeRawUserSummaryData(reserves, users, t).kind = "shown"
  PROVE  /\ ~SomeUnknown(reserves, users)
         /\ computeRawUserSummaryData(reserves, users, t).at = t
         /\ \A r \in DOMAIN users :
              computeRawUserSummaryData(reserves, users, t).reserves[r]
                = computeUserReserveData(r, reserves[r], users[r], t)
         /\ DOMAIN computeRawUserSummaryData(reserves, users, t).reserves = DOMAIN users
<1>1. ~SomeUnknown(reserves, users)
  BY DEF computeRawUserSummaryData, Thrown
<1> QED BY <1>1 DEF computeRawUserSummaryData

\* A reserve is listed with indices of one.
LEMMA NewReserveAccrues ==
  ASSUME NEW r \in Reserves, NEW rates \in Rates[r], now \in Nat
  PROVE  Accruing(NewReserve(rates), now)
<1>1. RAY \in Nat /\ RAY >= RAY
  BY RayAssumption
<1>2. rates.liquidity \in Nat /\ rates.variable \in Nat /\ rates.stable \in Nat
  BY SummaryAssumption
<1> QED BY <1>1, <1>2 DEF NewReserve, Accruing, Kinds

\* The contracts' accrual keeps the indices natural and dates the reserve now.
LEMMA AccruedAccrues ==
  ASSUME NEW r \in Reserves, NEW tokens, NEW rates \in Rates[r], now \in Nat,
         Accruing(market[r], now)
  PROVE  /\ Accruing(Accrued(r, tokens, rates), now)
         /\ Accrued(r, tokens, rates).lastUpdateTimestamp = now
<1> DEFINE m == market[r]
           last == m.lastUpdateTimestamp
           new == Accrued(r, tokens, rates)
           supply == RewardSupply(r, m, now)
<1>0. /\ last \in Int /\ last \in Nat /\ last <= now /\ now <= now /\ now \in Int
      /\ m.liquidityIndex \in Nat /\ m.variableBorrowIndex \in Nat
      /\ m.variableBorrowIndex >= RAY
      /\ m.rates.liquidity \in Nat /\ m.rates.variable \in Nat
      /\ RAY \in Nat
  BY RayAssumption DEF Accruing
<1>1. rates.liquidity \in Nat /\ rates.variable \in Nat /\ rates.stable \in Nat
  BY SummaryAssumption
<1>2. new.liquidityIndex \in Nat
  <2>1. calculateLinearInterest(m.rates.liquidity, now, last) \in Nat
    BY <1>0, LinearMonotone
  <2> QED BY <1>0, <2>1, RayMulNat DEF Accrued
<1>3. new.variableBorrowIndex \in Nat /\ new.variableBorrowIndex >= RAY
  <2>1. /\ rayMul(calculateCompoundedInterest(m.rates.variable, now, last),
                  m.variableBorrowIndex) \in Nat
        /\ rayMul(calculateCompoundedInterest(m.rates.variable, now, last),
                  m.variableBorrowIndex) >= m.variableBorrowIndex
    BY <1>0, DebtFactorMonotone
  <2> DEFINE x == rayMul(calculateCompoundedInterest(m.rates.variable, now, last),
                         m.variableBorrowIndex)
  <2>2. new.variableBorrowIndex = x
    BY DEF Accrued
  <2> HIDE DEF x
  <2>3. x \in Nat /\ x >= m.variableBorrowIndex
    BY <2>1 DEF x
  <2> QED BY <1>0, <2>2, <2>3
<1>4. \A k \in {"v", "s"} :
        new.incentivesIndex[k] \in Int /\ new.incentivesLast[k] \in Nat
  <2> SUFFICES ASSUME NEW k \in {"v", "s"}
               PROVE  new.incentivesIndex[k] \in Int /\ new.incentivesLast[k] \in Nat
    OBVIOUS
  <2>1. /\ m.incentivesIndex[k] \in Int /\ m.incentivesLast[k] \in Nat
        /\ Config[r].emissionPerSecond[k] \in Nat /\ supply[k] \in Nat
        /\ EmissionEnd \in Nat /\ RewardScale \in Nat
    BY SummaryAssumption DEF Accruing, Factors, Kinds, RewardSupply
  <2> DEFINE earned == Config[r].emissionPerSecond[k] * RewardScale *
                         ((IF now > EmissionEnd THEN EmissionEnd ELSE now)
                            - m.incentivesLast[k])
  <2>2. earned \in Int
    <3>1. Config[r].emissionPerSecond[k] * RewardScale \in Int
      BY <2>1
    <3>2. (IF now > EmissionEnd THEN EmissionEnd ELSE now) - m.incentivesLast[k] \in Int
      BY <2>1
    <3> QED BY <3>1, <3>2
  <2>3. k \in Kinds
    BY DEF Kinds
  <2>4. /\ new.incentivesLast[k] = IF k \in tokens THEN now ELSE m.incentivesLast[k]
        /\ new.incentivesIndex[k]
             = IF k \in tokens
               THEN IF m.incentivesLast[k] >= EmissionEnd \/ supply[k] = 0
                    THEN m.incentivesIndex[k]
                    ELSE m.incentivesIndex[k] + earned \div supply[k]
               ELSE m.incentivesIndex[k]
    BY <2>3 DEF Accrued
  <2> HIDE DEF earned, supply, new
  <2>5. supply[k] # 0 => earned \div supply[k] \in Int
    <3> SUFFICES ASSUME supply[k] # 0 PROVE earned \div supply[k] \in Int
      OBVIOUS
    <3>1. supply[k] \in Nat \ {0}
      BY <2>1
    <3> QED BY <2>2, <3>1, DivBounds
  <2> QED BY <2>1, <2>4, <2>5
<1>5. new.lastUpdateTimestamp = now /\ new.rates = rates
  BY DEF Accrued
<1> HIDE DEF new
<1>6. Accruing(new, now)
  BY <1>0, <1>1, <1>2, <1>3, <1>4, <1>5 DEF Accruing
<1> QED BY <1>5, <1>6 DEF new

\* Nothing has been fetched yet, and the reserves have just been listed.
LEMMA SoundInit == Init => Sound
<1> SUFFICES ASSUME Init PROVE Sound
  OBVIOUS
<1>1. now \in Nat /\ lag \in Nat
  BY SummaryAssumption DEF Init
<1>2. \A r \in DOMAIN market : r \in Reserves /\ Accruing(market[r], now)
  <2>1. PICK rates \in {f \in [Founding -> AllRates] : \A r \in Founding : f[r] \in Rates[r]} :
          market = [r \in Founding |-> NewReserve(rates[r])]
    BY DEF Init
  <2> QED BY <1>1, <2>1, NewReserveAccrues, SummaryAssumption
<1> QED BY <1>1, <1>2, InvInit DEF Init, Sound, Nothing, Blank, PageIsComputed

\* A step that leaves the snapshots, the page and the clock's error alone
\* leaves the page as it was computed.
LEMMA PageStays ==
  ASSUME PageIsComputed, UNCHANGED <<pool, position, page, lag>>
  PROVE  PageIsComputed'
BY DEF PageIsComputed, SomeUnknown

\* Time passes for reserves and positions.
LEMMA Later ==
  ASSUME NEW s \in Nat, NEW t \in Nat, s <= t
  PROVE  /\ \A m : Accruing(m, s) => Accruing(m, t)
         /\ \A u : Holding(u, s) => Holding(u, t)
BY DEF Accruing, Holding

\* Every step preserves it: the reserves are only ever updated to the present,
\* a position is never newer than its reserve, and a subscription copies.
LEMMA SoundStep == Sound /\ [Next]_vars => Sound'
<1> SUFFICES ASSUME Sound, [Next]_vars PROVE Sound'
  OBVIOUS
<1>0. Inv /\ Inv'
  BY InvStep DEF Sound
<1> USE DEF Sound
<1>1. CASE Tick
  <2>1. /\ now' \in Nat /\ now <= now'
        /\ UNCHANGED <<lag, market, account, pool, position, ahead, page>>
    BY <1>1 DEF Tick
  <2>2. \A m : Accruing(m, now) => Accruing(m, now')
    BY <2>1, Later
  <2> QED BY <1>0, <2>1, <2>2, PageStays
<1>2. ASSUME NEW r \in Reserves, List(r) PROVE Sound'
  <2>1. UNCHANGED <<now, lag, pool, position, page, ahead, account>>
        /\ r \notin DOMAIN market
    BY <1>2 DEF List, Transact
  <2>2. PICK rates \in Rates[r] :
          market' = [x \in DOMAIN market \cup {r} |->
                       IF x # r THEN market[x] ELSE NewReserve(rates)]
    BY <1>2 DEF List
  <2>3. \A x \in DOMAIN market' : x \in Reserves /\ Accruing(market'[x], now)
    BY <2>2, NewReserveAccrues
  <2>4. \A x \in DOMAIN market : market'[x] = market[x]
    BY <2>1, <2>2
  <2>5. DOMAIN position \subseteq DOMAIN market /\ DOMAIN account \subseteq DOMAIN market
    BY <1>0 DEF Inv
  <2> QED BY <1>0, <2>1, <2>3, <2>4, <2>5, PageStays
<1>3. ASSUME NEW r \in Reserves, Touch(r) PROVE Sound'
  <2>1. UNCHANGED <<now, lag, pool, position, page, ahead, account>>
        /\ r \in DOMAIN market
    BY <1>3 DEF Touch, Transact
  <2>2. PICK k \in Kinds, rates \in Rates[r] :
          market' = [market EXCEPT ![r] = Accrued(r, {k}, rates)]
    BY <1>3 DEF Touch
  <2>3. /\ Accruing(Accrued(r, {k}, rates), now)
        /\ Accrued(r, {k}, rates).lastUpdateTimestamp = now
    BY <2>1, AccruedAccrues
  <2>4. \A x \in DOMAIN market :
          /\ market'[x] = IF x = r THEN Accrued(r, {k}, rates) ELSE market[x]
          /\ market[x].lastUpdateTimestamp \in Nat
          /\ market'[x].lastUpdateTimestamp \in Nat
          /\ market[x].lastUpdateTimestamp <= market'[x].lastUpdateTimestamp
    BY <2>2, <2>3 DEF Accruing
  <2>5. DOMAIN position \subseteq DOMAIN market /\ DOMAIN account \subseteq DOMAIN market
        /\ DOMAIN market' = DOMAIN market
    BY <1>0, <2>2 DEF Inv
  <2>6. \A x \in DOMAIN market : \A u :
          Holding(u, market[x].lastUpdateTimestamp)
            => Holding(u, market'[x].lastUpdateTimestamp)
    BY <2>4, Later
  <2>7. \A x \in DOMAIN market' : x \in Reserves /\ Accruing(market'[x], now)
    BY <2>3, <2>4, <2>5
  <2> QED BY <1>0, <2>1, <2>5, <2>6, <2>7, PageStays
<1>4. ASSUME NEW r \in Reserves, Use(r) PROVE Sound'
  <2>1. UNCHANGED <<now, lag, pool, position, page, ahead>>
        /\ r \in DOMAIN market
    BY <1>4 DEF Use, Transact
  <2>2. PICK rates \in Rates[r], balances \in Positions[r] :
          /\ market' = [market EXCEPT ![r] = Accrued(r, Kinds, rates)]
          /\ account' = [x \in DOMAIN account \cup {r} |->
               IF x # r THEN account[x]
               ELSE [balances |-> balances,
                     stableBorrowRate |->
                       IF balances.stable = 0 THEN 0 ELSE market[r].rates.stable,
                     stableBorrowLastUpdateTimestamp |-> now,
                     incentivesUserIndex |-> market'[r].incentivesIndex]]
    BY <1>4 DEF Use
  <2>3. /\ Accruing(Accrued(r, Kinds, rates), now)
        /\ Accrued(r, Kinds, rates).lastUpdateTimestamp = now
    BY <2>1, AccruedAccrues
  <2>4. \A x \in DOMAIN market :
          /\ market'[x] = IF x = r THEN Accrued(r, Kinds, rates) ELSE market[x]
          /\ market[x].lastUpdateTimestamp \in Nat
          /\ market'[x].lastUpdateTimestamp \in Nat
          /\ market[x].lastUpdateTimestamp <= market'[x].lastUpdateTimestamp
    BY <2>2, <2>3 DEF Accruing
  <2>5. DOMAIN position \subseteq DOMAIN market /\ DOMAIN account \subseteq DOMAIN market
        /\ DOMAIN market' = DOMAIN market
    BY <1>0, <2>2 DEF Inv
  <2>6. \A x \in DOMAIN market : \A u :
          Holding(u, market[x].lastUpdateTimestamp)
            => Holding(u, market'[x].lastUpdateTimestamp)
    BY <2>4, Later
  <2>7. \A x \in DOMAIN market' : x \in Reserves /\ Accruing(market'[x], now)
    BY <2>3, <2>4, <2>5
  <2>8. Holding(account'[r], market'[r].lastUpdateTimestamp)
    <3>1. /\ balances.aToken \in Nat /\ balances.variable \in Nat
          /\ balances.stable \in Nat
      BY SummaryAssumption
    <3>2. market'[r] = Accrued(r, Kinds, rates) /\ market'[r].lastUpdateTimestamp = now
      BY <2>1, <2>3, <2>4
    <3>3. \A k \in {"v", "s"} : market'[r].incentivesIndex[k] \in Int
      BY <2>3, <3>2 DEF Accruing
    <3>4. /\ account'[r].balances = balances
          /\ account'[r].stableBorrowLastUpdateTimestamp = now
          /\ account'[r].incentivesUserIndex = market'[r].incentivesIndex
      BY <2>2
    <3> QED BY <3>1, <3>2, <3>3, <3>4 DEF Holding
  <2>9. \A x \in DOMAIN account' : Holding(account'[x], market'[x].lastUpdateTimestamp)
    <3> SUFFICES ASSUME NEW x \in DOMAIN account', x # r
                 PROVE  Holding(account'[x], market'[x].lastUpdateTimestamp)
      BY <2>8
    <3>1. x \in DOMAIN account /\ account'[x] = account[x]
      BY <2>2
    <3> QED BY <2>5, <2>6, <3>1
  <2> QED BY <1>0, <2>1, <2>5, <2>6, <2>7, <2>9, PageStays
<1>5. CASE FetchPool
  <2>1. page'.kind # "shown"
    BY <1>5 DEF FetchPool, Blank
  <2> QED BY <1>0, <1>5, <2>1 DEF FetchPool, PageIsComputed
<1>6. CASE FetchPosition
  <2>1. page'.kind # "shown"
    BY <1>6 DEF FetchPosition, Blank
  <2> QED BY <1>0, <1>6, <2>1 DEF FetchPosition, PageIsComputed
<1>7. CASE Show
  <2>1. UNCHANGED <<now, lag, market, account, pool, position, ahead>>
    BY <1>7 DEF Show
  <2>2. PageIsComputed'
    <3> SUFFICES ASSUME page'.kind = "shown"
                 PROVE  /\ page'.at \in Int /\ ~SomeUnknown(pool, position)
                        /\ page' = computeRawUserSummaryData(pool, position, page'.at)
                        /\ lag = 0 => \A r \in DOMAIN pool :
                                        pool[r].lastUpdateTimestamp <= page'.at
      BY <2>1 DEF PageIsComputed, SomeUnknown
    <3> DEFINE t == now - lag
    <3>0. t \in Int /\ (lag = 0 => t = now)
      OBVIOUS
    <3>1. page' = computeRawUserSummaryData(pool, position, t)
      BY <1>7 DEF Show
    <3> HIDE DEF t
    <3>2. computeRawUserSummaryData(pool, position, t).kind = "shown"
      BY <3>1
    <3>3. ~SomeUnknown(pool, position) /\ page'.at = t
      BY <3>1, <3>2, ShownData
    <3>4. \A r \in DOMAIN pool : pool[r].lastUpdateTimestamp <= now
      BY DEF Accruing
    <3> QED BY <3>0, <3>1, <3>3, <3>4
  <2> QED BY <1>0, <2>1, <2>2
<1>8. CASE ShowReserves
  <2>1. page'.kind # "shown"
    BY <1>8 DEF ShowReserves, formatReserves
  <2> QED BY <1>0, <1>8, <2>1 DEF ShowReserves, PageIsComputed
<1>9. CASE Close
  <2>1. page'.kind # "shown"
    BY <1>9 DEF Close, Blank
  <2> QED BY <1>0, <1>9, <2>1 DEF Close, PageIsComputed
<1>10. CASE UNCHANGED vars
  BY <1>0, <1>10, PageStays DEF vars
<1> QED BY <1>1, <1>2, <1>3, <1>4, <1>5, <1>6, <1>7, <1>8, <1>9, <1>10 DEF Next

-----------------------------------------------------------------------------
(* The theorems.                                                           *)

\* What a page says of a reserve is computed from the two snapshots of it.
LEMMA OnComputedPage ==
  ASSUME Sound, NEW r \in OnPage
  PROVE  /\ r \in DOMAIN position /\ r \in DOMAIN pool /\ page.at \in Int
         /\ page.reserves[r]
              = computeUserReserveData(r, pool[r], position[r], page.at)
<1>1. page.kind = "shown" /\ r \in DOMAIN page.reserves
  BY DEF OnPage
<1>2. /\ ~SomeUnknown(pool, position) /\ page.at \in Int
      /\ page = computeRawUserSummaryData(pool, position, page.at)
  BY <1>1 DEF Sound, PageIsComputed
<1>3. /\ DOMAIN page.reserves = DOMAIN position
      /\ \A x \in DOMAIN position :
           page.reserves[x] = computeUserReserveData(x, pool[x], position[x], page.at)
  BY <1>1, <1>2, ShownData
<1>4. r \in DOMAIN position
  BY <1>1, <1>3
<1> QED BY <1>2, <1>3, <1>4 DEF SomeUnknown

\* Computed again later from the same snapshots (computeUserReserveData), no
\* balance or debt is smaller, nor a reward of a debt.
THEOREM PagesOnlyGrow == Spec => PagesGrow
<1> DEFINE Grows ==
      (/\ page.kind = "shown" /\ page'.kind = "shown" /\ page.at <= page'.at
       /\ ~ahead
       /\ \A r \in DOMAIN pool : pool[r].lastUpdateTimestamp <= page.at
       /\ IncentivesCountedBy(page.at))
      => \A r \in OnPage :
           LET before == page.reserves[r]
               after == page'.reserves[r]
           IN  /\ before.underlyingBalance <= after.underlyingBalance
               /\ before.variableBorrows <= after.variableBorrows
               /\ before.stableBorrows <= after.stableBorrows
               /\ \A k \in {"v", "s"} : before.rewards[k] <= after.rewards[k]
<1>1. Sound /\ Sound' /\ [Next]_vars => [Grows]_vars
  <2> SUFFICES ASSUME Sound, Sound', [Next]_vars, page.kind = "shown",
                      page'.kind = "shown", page.at <= page'.at, ~ahead,
                      \A r \in DOMAIN pool : pool[r].lastUpdateTimestamp <= page.at,
                      IncentivesCountedBy(page.at), NEW r \in OnPage
               PROVE  LET before == page.reserves[r]
                          after == page'.reserves[r]
                      IN  /\ before.underlyingBalance <= after.underlyingBalance
                          /\ before.variableBorrows <= after.variableBorrows
                          /\ before.stableBorrows <= after.stableBorrows
                          /\ \A k \in {"v", "s"} : before.rewards[k] <= after.rewards[k]
    OBVIOUS
  <2>1. pool' = pool /\ position' = position
    <3>1. ~FetchPool /\ ~FetchPosition
      BY DEF FetchPool, FetchPosition, Blank
    <3> QED BY <3>1 DEF Next, vars, Tick, List, Touch, Use, Transact, Show,
                        ShowReserves, Close
  <2>2. /\ r \in DOMAIN position /\ r \in DOMAIN pool /\ page.at \in Int
        /\ page.reserves[r]
             = computeUserReserveData(r, pool[r], position[r], page.at)
    BY OnComputedPage
  <2>3. /\ page'.at \in Int
        /\ page'.reserves[r]
             = computeUserReserveData(r, pool[r], position[r], page'.at)
    <3>1. /\ ~SomeUnknown(pool, position) /\ page'.at \in Int
          /\ page' = computeRawUserSummaryData(pool, position, page'.at)
      BY <2>1 DEF Sound, PageIsComputed, SomeUnknown
    <3> DEFINE t == page'.at
    <3>2. t \in Int /\ page' = computeRawUserSummaryData(pool, position, t)
      BY <3>1
    <3> HIDE DEF t
    <3>3. computeRawUserSummaryData(pool, position, t).kind = "shown"
      BY <3>2
    <3>4. page'.reserves[r] = computeUserReserveData(r, pool[r], position[r], t)
      BY <2>2, <3>2, <3>3, ShownData
    <3> QED BY <3>2, <3>4 DEF t
  <2>4. /\ r \in Reserves /\ Accruing(pool[r], now)
        /\ Holding(position[r], pool[r].lastUpdateTimestamp)
    BY <2>2 DEF Sound
  <2>5. Accruing(pool[r], page.at)
    BY <2>2, <2>4 DEF Accruing
  <2>6. \A k \in {"v", "s"} : pool[r].incentivesLast[k] <= page.at
    BY <2>2 DEF IncentivesCountedBy, Kinds
  <2> QED BY <2>2, <2>3, <2>4, <2>5, <2>6, DataGrow
<1>2. [Grows]_vars => [Grows]_vars
  OBVIOUS
<1> QED BY <1>1, SoundInit, SoundStep, PTL DEF Spec, PagesGrow

-----------------------------------------------------------------------------
(***************************************************************************)
(* The invariant of types.  Every reserve has rates it may have, an index  *)
(* of one at least and no date in the future; a user's rewards were        *)
(* counted when the reserve's were, and no later than what the application *)
(* holds unless the position is the newer snapshot.                        *)
(***************************************************************************)
ReserveOK(r, m, n) ==
  /\ m \in Reserve /\ m.rates \in Rates[r]
  /\ m.liquidityIndex >= RAY /\ m.variableBorrowIndex >= RAY
  /\ m.lastUpdateTimestamp <= n
  /\ \A k \in Kinds : m.incentivesLast[k] <= n

UserReserveOK(r, u, n) ==
  /\ u \in UserReserve /\ u.balances \in Positions[r]
  /\ u.stableBorrowLastUpdateTimestamp <= n

CountedIn(u, m) == \A k \in Kinds : u.incentivesUserIndex[k] <= m.incentivesIndex[k]

ChainOK ==
  /\ now \in Nat /\ lag \in Lags /\ ahead \in BOOLEAN
  /\ Listed(market, Reserve) /\ Listed(account, UserReserve)
  /\ \A r \in DOMAIN market : ReserveOK(r, market[r], now)
  /\ \A r \in DOMAIN account : /\ UserReserveOK(r, account[r], now)
                               /\ CountedIn(account[r], market[r])

SnapshotsOK ==
  /\ Listed(pool, Reserve) /\ Listed(position, UserReserve)
  /\ \A r \in DOMAIN pool : ReserveOK(r, pool[r], now)
  /\ \A r \in DOMAIN position : /\ UserReserveOK(r, position[r], now)
                                /\ CountedIn(position[r], market[r])
                                /\ ~ahead => CountedIn(position[r], pool[r])

\* A summary was computed at a date n of the chain from which both snapshots are.
SummaryAt(n) ==
  /\ page = computeRawUserSummaryData(pool, position, n - lag)
  /\ \A r \in DOMAIN pool : ReserveOK(r, pool[r], n)
  /\ \A r \in DOMAIN position : UserReserveOK(r, position[r], n)

PageOK ==
  \/ page \in {Blank, Thrown}
  \/ page.kind = "shown" /\ \E n \in Nat : SummaryAt(n)
  \/ \E given \in BOOLEAN : page = formatReserves(pool, given, now - lag)

IInv == Inv /\ ChainOK /\ SnapshotsOK /\ PageOK

\* A reserve that is listed has the types of a reserve.
LEMMA NewReserveOK ==
  ASSUME NEW r \in Reserves, NEW rates \in Rates[r], now \in Nat
  PROVE  ReserveOK(r, NewReserve(rates), now)
<1>1. RAY \in Nat /\ RAY >= RAY /\ rates \in AllRates
  BY RayAssumption DEF AllRates
<1>2. NewReserve(rates) \in Reserve
  BY <1>1 DEF NewReserve, Reserve
<1> QED BY <1>1, <1>2 DEF NewReserve, ReserveOK

\* What all own and owe in a reserve is natural, at a date from which its
\* interest is counted, or a little before.
LEMMA SuppliesNat ==
  ASSUME NEW r \in Reserves, NEW m \in Reserve, NEW t \in Int,
         Behind(m.rates.variable, t, m.lastUpdateTimestamp), m.rates.variable \in Nat,
         Behind(Config[r].averageStableRate, t, 0)
  PROVE  /\ calculateSupplies(r, m, t).v \in Nat /\ calculateSupplies(r, m, t).s \in Nat
         /\ calculateSupplies(r, m, t).a \in Nat
         /\ calculateSupplies(r, m, t).v # 0 => Config[r].totalScaledVariableDebt # 0
         /\ calculateSupplies(r, m, t).s # 0 => Config[r].totalPrincipalStableDebt # 0
<1> DEFINE c == Config[r]
           v == c.totalScaledVariableDebt
           p == c.totalPrincipalStableDebt
           x == m.variableBorrowIndex
           g == calculateCompoundedInterest(m.rates.variable, t, m.lastUpdateTimestamp)
           h == calculateCompoundedInterest(c.averageStableRate, t, 0)
<1>0. /\ v \in Nat /\ p \in Nat /\ c.averageStableRate \in Nat /\ c.availableLiquidity \in Nat
      /\ c.stableDebtLastUpdateTimestamp = 0
      /\ x \in Nat /\ m.lastUpdateTimestamp \in Int
  BY SummaryAssumption DEF Factors, Reserve
<1>1. g \in Nat /\ h \in Nat
  <2>1. g \in Nat
    BY <1>0, CompoundedBehind
  <2> DEFINE none == 0
  <2>2. none \in Int
    OBVIOUS
  <2>3. calculateCompoundedInterest(c.averageStableRate, t, none) \in Nat
    <3>1. Behind(c.averageStableRate, t, none)
      OBVIOUS
    <3> HIDE DEF none, c
    <3> QED BY <1>0, <2>2, <3>1, CompoundedBehind
  <2> QED BY <2>1, <2>3
<1>2. /\ calculateSupplies(r, m, t).v = rayMul(rayMul(v, x), g)
      /\ calculateSupplies(r, m, t).s = rayMul(p, h)
      /\ calculateSupplies(r, m, t).a = rayMul(rayMul(v, x), g) + rayMul(p, h)
                                          + c.availableLiquidity
  BY <1>0 DEF calculateSupplies
<1> HIDE DEF c, v, p, x, g, h
<1>3. /\ rayMul(v, x) \in Nat /\ rayMul(p, h) \in Nat
  BY <1>0, <1>1, RayMulNat
<1>4. rayMul(rayMul(v, x), g) \in Nat
  BY <1>1, <1>3, RayMulNat
<1>5. \A y \in Nat : rayMul(0, y) = 0
  <2> SUFFICES ASSUME NEW y \in Nat PROVE rayMul(0, y) = 0
    OBVIOUS
  <2>1. 0 * y = 0
    OBVIOUS
  <2>2. (HALF_RAY + 0) \div RAY = 0
    BY HalfRay, RayAssumption
  <2> QED BY <2>1, <2>2, RayMulNat
<1>6. v = 0 => rayMul(rayMul(v, x), g) = 0
  BY <1>0, <1>1, <1>5
<1>7. p = 0 => rayMul(p, h) = 0
  BY <1>1, <1>5
<1> QED BY <1>0, <1>2, <1>3, <1>4, <1>6, <1>7 DEF v, p, c

\* Nothing is owed in the future.
LEMMA SuppliesNow ==
  ASSUME NEW r \in Reserves, NEW m, now \in Nat, ReserveOK(r, m, now)
  PROVE  \A k \in Kinds : RewardSupply(r, m, now)[k] \in Nat
<1>1. /\ m \in Reserve /\ m.rates.variable \in Nat /\ m.lastUpdateTimestamp \in Int
      /\ m.lastUpdateTimestamp <= now /\ m.liquidityIndex \in Nat /\ m.liquidityIndex >= RAY
  BY SummaryAssumption DEF ReserveOK, Reserve
<1>2. /\ Config[r].averageStableRate \in Nat /\ Config[r].totalScaledVariableDebt \in Nat
      /\ Config[r].totalPrincipalStableDebt \in Nat
  BY SummaryAssumption DEF Factors
<1>3. Behind(m.rates.variable, now, m.lastUpdateTimestamp)
  <2>1. now \in Int
    OBVIOUS
  <2> QED BY <1>1, <2>1, NotBehind
<1>4. Behind(Config[r].averageStableRate, now, 0)
  <2> DEFINE none == 0
  <2>1. now \in Int /\ none \in Int /\ none <= now
    OBVIOUS
  <2> HIDE DEF none
  <2>2. Behind(Config[r].averageStableRate, now, none)
    BY <1>2, <2>1, NotBehind
  <2> QED BY <2>2 DEF none
<1> DEFINE s == calculateSupplies(r, m, now).a
<1>5. s \in Nat
  <2>1. now \in Int
    OBVIOUS
  <2> QED BY <1>1, <1>3, <1>4, <2>1, SuppliesNat
<1> HIDE DEF s
<1>6. rayDiv(s, m.liquidityIndex) \in Nat
  <2>1. s <= s /\ m.liquidityIndex \in Nat \ {0}
    BY <1>1, <1>5, RayAssumption
  <2> QED BY <1>5, <2>1, RayDivMonotone
<1> QED BY <1>2, <1>6 DEF RewardSupply, Kinds, s

\* A transaction keeps a reserve what it must be, and takes back no rewards.
LEMMA AccruedOK ==
  ASSUME NEW r \in Reserves, NEW tokens, NEW rates \in Rates[r], now \in Nat,
         ReserveOK(r, market[r], now)
  PROVE  /\ ReserveOK(r, Accrued(r, tokens, rates), now)
         /\ \A k \in Kinds : market[r].incentivesIndex[k]
                               <= Accrued(r, tokens, rates).incentivesIndex[k]
<1> DEFINE m == market[r]
           last == m.lastUpdateTimestamp
           new == Accrued(r, tokens, rates)
           supply == RewardSupply(r, m, now)
           linear == calculateLinearInterest(m.rates.liquidity, now, last)
           compounded == calculateCompoundedInterest(m.rates.variable, now, last)
           until == IF now > EmissionEnd THEN EmissionEnd ELSE now
           counted(k) == IF m.incentivesLast[k] >= EmissionEnd \/ supply[k] = 0
                         THEN m.incentivesIndex[k]
                         ELSE m.incentivesIndex[k] +
                              (Config[r].emissionPerSecond[k] * RewardScale
                                 * (until - m.incentivesLast[k])) \div supply[k]
           index == [k \in Kinds |-> IF k \in tokens THEN counted(k)
                                     ELSE m.incentivesIndex[k]]
           dates == [k \in Kinds |-> IF k \in tokens THEN now ELSE m.incentivesLast[k]]
<1>0. /\ last \in Int /\ last <= now /\ now <= now /\ now \in Int
      /\ m.liquidityIndex \in Nat /\ m.liquidityIndex >= RAY
      /\ m.variableBorrowIndex \in Nat /\ m.variableBorrowIndex >= RAY
      /\ m.rates.liquidity \in Nat /\ m.rates.variable \in Nat /\ RAY \in Nat
      /\ m.incentivesIndex \in [Kinds -> Nat] /\ m.incentivesLast \in [Kinds -> Nat]
      /\ \A k \in Kinds : m.incentivesLast[k] <= now
  BY RayAssumption, SummaryAssumption DEF ReserveOK, Reserve
<1>1. rayMul(linear, m.liquidityIndex) \in Nat /\ rayMul(linear, m.liquidityIndex) >= RAY
  <2>1. linear \in Nat /\ linear >= RAY
    BY <1>0, LinearMonotone
  <2> HIDE DEF linear
  <2>2. /\ rayMul(linear, m.liquidityIndex) \in Nat
        /\ rayMul(linear, m.liquidityIndex) >= m.liquidityIndex
    BY <1>0, <2>1, RayMulNat, RayMulAtLeast
  <2> QED BY <1>0, <2>2
<1>2. /\ rayMul(compounded, m.variableBorrowIndex) \in Nat
      /\ rayMul(compounded, m.variableBorrowIndex) >= RAY
  <2>1. /\ rayMul(compounded, m.variableBorrowIndex) \in Nat
        /\ rayMul(compounded, m.variableBorrowIndex) >= m.variableBorrowIndex
    BY <1>0, DebtFactorMonotone
  <2> HIDE DEF compounded
  <2> QED BY <1>0, <2>1
<1>3. ASSUME NEW k \in Kinds
      PROVE  index[k] \in Nat /\ m.incentivesIndex[k] <= index[k]
  <2> DEFINE e == Config[r].emissionPerSecond[k]
             d == until - m.incentivesLast[k]
             s == supply[k]
             n == e * RewardScale * d
  <2>1. /\ e \in Nat /\ RewardScale \in Nat /\ EmissionEnd \in Nat
    BY SummaryAssumption DEF Factors
  <2>2. s \in Nat
    BY SuppliesNow
  <2>3. m.incentivesIndex[k] \in Nat /\ m.incentivesLast[k] \in Nat /\ m.incentivesLast[k] <= now
    BY <1>0
  <2>4. index[k] = IF k \in tokens THEN counted(k) ELSE m.incentivesIndex[k]
    OBVIOUS
  <2>5. CASE k \in tokens /\ m.incentivesLast[k] < EmissionEnd /\ s # 0
    <3>1. d \in Nat
      BY <2>1, <2>3, <2>5
    <3> HIDE DEF d, e, s
    <3>2. n \in Nat
      <4>1. e * RewardScale \in Nat
        BY <2>1
      <4> QED BY <3>1, <4>1
    <3> HIDE DEF n
    <3>3. n \div s \in Nat
      BY <2>2, <2>5, <3>2, DivNat
    <3>4. index[k] = m.incentivesIndex[k] + n \div s
      <4>1. ~(m.incentivesLast[k] >= EmissionEnd \/ s = 0)
        BY <2>1, <2>3, <2>5
      <4> QED BY <2>4, <2>5, <4>1 DEF n, d, e, s
    <3> HIDE DEF index
    <3> QED BY <2>3, <3>3, <3>4
  <2>6. CASE ~(k \in tokens /\ m.incentivesLast[k] < EmissionEnd /\ s # 0)
    <3>1. index[k] = m.incentivesIndex[k]
      BY <2>1, <2>3, <2>4, <2>6
    <3> QED BY <2>3, <3>1
  <2> QED BY <2>5, <2>6
<1>4. dates \in [Kinds -> Nat] /\ \A k \in Kinds : dates[k] <= now
  BY <1>0
<1>5. new = [liquidityIndex |-> rayMul(linear, m.liquidityIndex),
             variableBorrowIndex |-> rayMul(compounded, m.variableBorrowIndex),
             rates |-> rates, lastUpdateTimestamp |-> now,
             incentivesIndex |-> index, incentivesLast |-> dates]
  BY DEF Accrued
<1>6. index \in [Kinds -> Nat] /\ rates \in AllRates
  BY <1>3 DEF AllRates
<1> HIDE DEF new, index, dates, linear, compounded
<1>7. new \in Reserve
  BY <1>0, <1>1, <1>2, <1>4, <1>5, <1>6 DEF Reserve
<1>8. /\ new.rates = rates /\ new.lastUpdateTimestamp = now /\ new.incentivesLast = dates
      /\ new.incentivesIndex = index
      /\ new.liquidityIndex >= RAY /\ new.variableBorrowIndex >= RAY
  BY <1>1, <1>2, <1>5
<1>9. ReserveOK(r, new, now)
  BY <1>0, <1>4, <1>7, <1>8 DEF ReserveOK
<1> QED BY <1>3, <1>8, <1>9 DEF new

\* Updating a reserve keeps its types and dates.
LEMMA LaterOK ==
  ASSUME NEW s \in Nat, NEW t \in Nat, s <= t
  PROVE  /\ \A r, m : ReserveOK(r, m, s) => ReserveOK(r, m, t)
         /\ \A r, u : UserReserveOK(r, u, s) => UserReserveOK(r, u, t)
<1>1. ASSUME NEW r, NEW m, ReserveOK(r, m, s) PROVE ReserveOK(r, m, t)
  <2>1. m.lastUpdateTimestamp \in Nat /\ \A k \in Kinds : m.incentivesLast[k] \in Nat
    BY <1>1 DEF ReserveOK, Reserve
  <2> QED BY <1>1, <2>1 DEF ReserveOK
<1>2. ASSUME NEW r, NEW u, UserReserveOK(r, u, s) PROVE UserReserveOK(r, u, t)
  <2>1. u.stableBorrowLastUpdateTimestamp \in Nat
    BY <1>2 DEF UserReserveOK, UserReserve
  <2> QED BY <1>2, <2>1 DEF UserReserveOK
<1> QED BY <1>1, <1>2

\* A step that only changes what the page is not computed from.
LEMMA PageOKStays ==
  ASSUME PageOK, UNCHANGED <<pool, position, page, lag>>,
         page.kind # "list" \/ UNCHANGED now
  PROVE  PageOK'
<1>1. CASE page \in {Blank, Thrown}
  BY <1>1 DEF PageOK
<1>2. CASE page.kind = "shown" /\ \E n \in Nat : SummaryAt(n)
  BY <1>2 DEF PageOK, SummaryAt
<1>3. ASSUME NEW given \in BOOLEAN, page = formatReserves(pool, given, now - lag) PROVE PageOK'
  <2>1. page.kind = "list"
    BY <1>3 DEF formatReserves
  <2> QED BY <1>3, <2>1 DEF PageOK
<1> QED BY <1>1, <1>2, <1>3 DEF PageOK

\* The reserves that are founded are new, and nothing is fetched or shown.
LEMMA TypesInit == Init => IInv
<1> SUFFICES ASSUME Init PROVE IInv
  OBVIOUS
<1>1. now = 0 /\ now \in Nat /\ lag \in Lags /\ ahead = FALSE /\ page = Blank
  BY DEF Init
<1>2. PICK rates \in {f \in [Founding -> AllRates] : \A r \in Founding : f[r] \in Rates[r]} :
        market = [r \in Founding |-> NewReserve(rates[r])]
  BY DEF Init
<1>3. ASSUME NEW r \in Founding PROVE ReserveOK(r, market[r], now)
  <2>1. r \in Reserves /\ rates[r] \in Rates[r] /\ market[r] = NewReserve(rates[r])
    BY <1>2, SummaryAssumption
  <2> QED BY <1>1, <2>1, NewReserveOK
<1>4. Listed(market, Reserve)
  <2>1. DOMAIN market = Founding /\ market = [r \in Founding |-> market[r]]
    BY <1>2
  <2>2. \A r \in Founding : market[r] \in Reserve
    BY <1>3 DEF ReserveOK
  <2>3. market \in [Founding -> Reserve]
    BY <2>1, <2>2
  <2> QED BY <2>1, <2>3, SummaryAssumption DEF Listed
<1>5. account = Nothing /\ pool = Nothing /\ position = Nothing
  BY DEF Init
<1>6. /\ DOMAIN Nothing = {} /\ Listed(Nothing, UserReserve) /\ Listed(Nothing, Reserve)
  BY DEF Nothing, Listed
<1>7. ChainOK
  <2>1. DOMAIN market = Founding
    BY <1>2
  <2> QED BY <1>1, <1>3, <1>4, <1>5, <1>6, <2>1 DEF ChainOK
<1>8. SnapshotsOK
  BY <1>5, <1>6 DEF SnapshotsOK
<1>9. PageOK
  BY <1>1 DEF PageOK
<1> QED BY <1>7, <1>8, <1>9, InvInit DEF IInv

\* A step on the chain leaves the snapshots what they are.
LEMMA SnapshotsOKStay ==
  ASSUME SnapshotsOK, UNCHANGED <<pool, position, ahead>>, now \in Nat, now' \in Nat,
         now <= now', DOMAIN position \subseteq DOMAIN market,
         \A r \in DOMAIN market : \A u :
           CountedIn(u, market[r]) /\ u \in UserReserve => CountedIn(u, market'[r])
  PROVE  SnapshotsOK'
<1>1. /\ Listed(pool, Reserve) /\ Listed(position, UserReserve)
      /\ pool' = pool /\ position' = position /\ ahead' = ahead
  BY DEF SnapshotsOK
<1>2. ASSUME NEW r \in DOMAIN pool PROVE ReserveOK(r, pool[r], now')
  BY LaterOK DEF SnapshotsOK
<1>3. ASSUME NEW r \in DOMAIN position
      PROVE  /\ UserReserveOK(r, position[r], now')
             /\ CountedIn(position[r], market'[r])
             /\ ~ahead => CountedIn(position[r], pool[r])
  <2>1. /\ UserReserveOK(r, position[r], now) /\ CountedIn(position[r], market[r])
        /\ ~ahead => CountedIn(position[r], pool[r])
    BY DEF SnapshotsOK
  <2>2. position[r] \in UserReserve /\ r \in DOMAIN market
    BY <2>1 DEF UserReserveOK
  <2>3. UserReserveOK(r, position[r], now')
    BY <2>1, LaterOK
  <2> QED BY <2>1, <2>2, <2>3
<1> QED BY <1>1, <1>2, <1>3 DEF SnapshotsOK

\* After a transaction in reserve r the market is what it must be, and has
\* counted what it had counted.
LEMMA MarketAccrues ==
  ASSUME ChainOK, NEW r \in DOMAIN market, NEW tokens, NEW rates \in Rates[r],
         market' = [market EXCEPT ![r] = Accrued(r, tokens, rates)], now' = now
  PROVE  /\ Listed(market', Reserve) /\ DOMAIN market' = DOMAIN market
         /\ \A x \in DOMAIN market : ReserveOK(x, market'[x], now)
         /\ \A x \in DOMAIN market : \A u :
              CountedIn(u, market[x]) /\ u \in UserReserve => CountedIn(u, market'[x])
         /\ market'[r] = Accrued(r, tokens, rates)
<1>1. /\ r \in Reserves /\ now \in Nat /\ ReserveOK(r, market[r], now)
      /\ DOMAIN market \subseteq Reserves /\ market \in [DOMAIN market -> Reserve]
  BY DEF ChainOK, Listed
<1> DEFINE new == Accrued(r, tokens, rates)
<1>2. /\ ReserveOK(r, new, now)
      /\ \A k \in Kinds : market[r].incentivesIndex[k] <= new.incentivesIndex[k]
  BY <1>1, AccruedOK
<1> HIDE DEF new
<1>3. DOMAIN market' = DOMAIN market /\ market'[r] = new
      /\ \A x \in DOMAIN market : x # r => market'[x] = market[x]
  BY <1>1 DEF new
<1>4. ASSUME NEW x \in DOMAIN market PROVE ReserveOK(x, market'[x], now)
  BY <1>2, <1>3 DEF ChainOK
<1>5. Listed(market', Reserve)
  <2>1. \A x \in DOMAIN market : market'[x] \in Reserve
    BY <1>4 DEF ReserveOK
  <2>2. market' = [x \in DOMAIN market |-> market'[x]]
    BY <1>1 
  <2>3. market' \in [DOMAIN market -> Reserve]
    BY <2>1, <2>2
  <2> QED BY <1>1, <1>3, <2>3 DEF Listed
<1>6. ASSUME NEW x \in DOMAIN market, NEW u \in UserReserve, CountedIn(u, market[x])
      PROVE  CountedIn(u, market'[x])
  <2>1. CASE x # r
    BY <1>3, <1>6, <2>1
  <2>2. CASE x = r
    <3> SUFFICES ASSUME NEW k \in Kinds
                 PROVE  u.incentivesUserIndex[k] <= new.incentivesIndex[k]
      BY <1>3, <2>2 DEF CountedIn
    <3>1. u.incentivesUserIndex[k] \in Nat
      BY DEF UserReserve
    <3>2. market[r].incentivesIndex[k] \in Nat /\ new.incentivesIndex[k] \in Nat
      BY <1>1, <1>2 DEF ReserveOK, Reserve
    <3>3. u.incentivesUserIndex[k] <= market[r].incentivesIndex[k]
      BY <1>6, <2>2 DEF CountedIn
    <3> QED BY <1>2, <3>1, <3>2, <3>3
  <2> QED BY <2>1, <2>2
<1> QED BY <1>3, <1>4, <1>5, <1>6 DEF new

\* Everything that happens keeps it.
LEMMA TypesStep == IInv /\ [Next]_vars => IInv'
<1> SUFFICES ASSUME IInv, [Next]_vars PROVE IInv'
  OBVIOUS
<1>0. /\ Inv /\ ChainOK /\ SnapshotsOK /\ PageOK /\ Inv'
      /\ now \in Nat /\ lag \in Lags /\ lag \in Nat
  BY InvStep, SummaryAssumption DEF IInv, ChainOK
<1>1. /\ DOMAIN position \subseteq DOMAIN market /\ DOMAIN account \subseteq DOMAIN market
      /\ ~ahead => DOMAIN position \subseteq DOMAIN pool
  BY <1>0 DEF Inv
<1>2. CASE page.kind # "list" /\ Tick
  <2>1. /\ now' = now + 1
        /\ UNCHANGED <<lag, transactions, market, account, pool, position, ahead, page>>
    BY <1>2 DEF Tick
  <2>2. now' \in Nat /\ now <= now'
    BY <1>0, <2>1
  <2>3. ChainOK'
    <3>1. \A r \in DOMAIN market : ReserveOK(r, market[r], now')
      BY <1>0, <2>2, LaterOK DEF ChainOK
    <3>2. \A r \in DOMAIN account : UserReserveOK(r, account[r], now')
      BY <1>0, <2>2, LaterOK DEF ChainOK
    <3> QED BY <1>0, <2>1, <2>2, <3>1, <3>2 DEF ChainOK
  <2>4. SnapshotsOK'
    BY <1>0, <1>1, <2>1, <2>2, SnapshotsOKStay
  <2> QED BY <1>0, <1>2, <2>1, <2>3, <2>4, PageOKStays DEF IInv
<1>3. ASSUME page.kind # "list", NEW r \in Reserves, List(r) PROVE IInv'
  <2>1. /\ UNCHANGED <<now, lag, pool, position, page, ahead, account>>
        /\ r \notin DOMAIN market
    BY <1>3 DEF List, Transact
  <2>2. PICK rates \in Rates[r] :
          market' = [x \in DOMAIN market \cup {r} |->
                       IF x # r THEN market[x] ELSE NewReserve(rates)]
    BY <1>3 DEF List
  <2>3. ReserveOK(r, NewReserve(rates), now)
    BY <1>0, NewReserveOK
  <2>4. DOMAIN market' = DOMAIN market \cup {r} /\ market'[r] = NewReserve(rates)
        /\ \A x \in DOMAIN market : market'[x] = market[x]
    BY <2>1, <2>2
  <2>5. \A x \in DOMAIN market' : ReserveOK(x, market'[x], now)
    BY <1>0, <2>3, <2>4 DEF ChainOK
  <2>6. Listed(market', Reserve)
    <3>1. DOMAIN market \subseteq Reserves
      BY <1>0 DEF ChainOK, Listed
    <3>2. \A x \in DOMAIN market' : market'[x] \in Reserve
      BY <2>5 DEF ReserveOK
    <3>3. market' = [x \in DOMAIN market' |-> market'[x]]
      BY <2>2
    <3>4. market' \in [DOMAIN market' -> Reserve]
      BY <3>2, <3>3
    <3> QED BY <2>4, <3>1, <3>4 DEF Listed
  <2>7. ChainOK'
    <3>1. \A x \in DOMAIN account : /\ UserReserveOK(x, account[x], now)
                                    /\ CountedIn(account[x], market'[x])
      BY <1>0, <1>1, <2>4 DEF ChainOK
    <3> QED BY <1>0, <2>1, <2>5, <2>6, <3>1 DEF ChainOK
  <2>8. SnapshotsOK'
    <3>1. \A x \in DOMAIN market : market'[x] = market[x]
      BY <2>4
    <3>2. now' \in Nat /\ now <= now'
      BY <1>0, <2>1
    <3> QED BY <1>0, <1>1, <2>1, <3>1, <3>2, SnapshotsOKStay
  <2> QED BY <1>0, <2>1, <2>7, <2>8, PageOKStays DEF IInv
<1>4. ASSUME page.kind # "list", NEW r \in Reserves, Touch(r) PROVE IInv'
  <2>1. /\ UNCHANGED <<now, lag, pool, position, page, ahead, account>>
        /\ r \in DOMAIN market
    BY <1>4 DEF Touch, Transact
  <2>2. PICK k \in Kinds, rates \in Rates[r] :
          market' = [market EXCEPT ![r] = Accrued(r, {k}, rates)]
    BY <1>4 DEF Touch
  <2>3. /\ Listed(market', Reserve) /\ DOMAIN market' = DOMAIN market
        /\ \A x \in DOMAIN market : ReserveOK(x, market'[x], now)
        /\ \A x \in DOMAIN market : \A u :
             CountedIn(u, market[x]) /\ u \in UserReserve => CountedIn(u, market'[x])
    BY <1>0, <2>1, <2>2, MarketAccrues
  <2>4. ChainOK'
    <3>1. ASSUME NEW x \in DOMAIN account
          PROVE  UserReserveOK(x, account[x], now) /\ CountedIn(account[x], market'[x])
      <4>1. UserReserveOK(x, account[x], now) /\ CountedIn(account[x], market[x])
        BY <1>0 DEF ChainOK
      <4> QED BY <1>1, <2>3, <4>1 DEF UserReserveOK
    <3> QED BY <1>0, <2>1, <2>3, <3>1 DEF ChainOK
  <2>5. SnapshotsOK'
    <3>1. now' \in Nat /\ now <= now'
      BY <1>0, <2>1
    <3> QED BY <1>0, <1>1, <2>1, <2>3, <3>1, SnapshotsOKStay
  <2> QED BY <1>0, <2>1, <2>4, <2>5, PageOKStays DEF IInv
<1>5. ASSUME page.kind # "list", NEW r \in Reserves, Use(r) PROVE IInv'
  <2>1. /\ UNCHANGED <<now, lag, pool, position, page, ahead>>
        /\ r \in DOMAIN market
    BY <1>5 DEF Use, Transact
  <2>2. PICK rates \in Rates[r], balances \in Positions[r] :
          /\ market' = [market EXCEPT ![r] = Accrued(r, Kinds, rates)]
          /\ account' = [x \in DOMAIN account \cup {r} |->
               IF x # r THEN account[x]
               ELSE [balances |-> balances,
                     stableBorrowRate |->
                       IF balances.stable = 0 THEN 0 ELSE market[r].rates.stable,
                     stableBorrowLastUpdateTimestamp |-> now,
                     incentivesUserIndex |-> market'[r].incentivesIndex]]
    BY <1>5 DEF Use
  <2>3. /\ Listed(market', Reserve) /\ DOMAIN market' = DOMAIN market
        /\ \A x \in DOMAIN market : ReserveOK(x, market'[x], now)
        /\ \A x \in DOMAIN market : \A u :
             CountedIn(u, market[x]) /\ u \in UserReserve => CountedIn(u, market'[x])
    BY <1>0, <2>1, <2>2, MarketAccrues
  <2> DEFINE rate == IF balances.stable = 0 THEN 0 ELSE market[r].rates.stable
             index == market'[r].incentivesIndex
  <2>4. rate \in Nat
    BY <1>0, <2>1, SummaryAssumption DEF ChainOK, ReserveOK, Listed
  <2>5. index \in [Kinds -> Nat]
    BY <2>1, <2>3 DEF ReserveOK, Reserve
  <2>6. /\ account'[r] = [balances |-> balances, stableBorrowRate |-> rate,
                          stableBorrowLastUpdateTimestamp |-> now,
                          incentivesUserIndex |-> index]
        /\ DOMAIN account' = DOMAIN account \cup {r}
        /\ \A x \in DOMAIN account : x # r => account'[x] = account[x]
        /\ account' = [x \in DOMAIN account' |-> account'[x]]
    BY <2>2
  <2> HIDE DEF rate
  <2>7. /\ UserReserveOK(r, account'[r], now) /\ account'[r].incentivesUserIndex = index
    <3>1. balances \in UNION {Positions[x] : x \in Reserves}
      OBVIOUS
    <3> HIDE DEF index
    <3>2. account'[r] \in UserReserve
      BY <1>0, <2>4, <2>5, <2>6, <3>1 DEF UserReserve
    <3>3. account'[r].balances = balances /\ account'[r].stableBorrowLastUpdateTimestamp = now
          /\ account'[r].incentivesUserIndex = index
      BY <2>6
    <3> QED BY <1>0, <3>2, <3>3 DEF UserReserveOK
  <2>8. CountedIn(account'[r], market'[r])
    BY <2>5, <2>7 DEF CountedIn
  <2>9. ASSUME NEW x \in DOMAIN account'
        PROVE  UserReserveOK(x, account'[x], now) /\ CountedIn(account'[x], market'[x])
    <3>1. CASE x = r
      BY <2>7, <2>8, <3>1
    <3>2. CASE x # r
      <4>1. x \in DOMAIN account /\ account'[x] = account[x]
        BY <2>6, <3>2
      <4>2. UserReserveOK(x, account[x], now) /\ CountedIn(account[x], market[x])
        BY <1>0, <4>1 DEF ChainOK
      <4> QED BY <1>1, <2>3, <4>1, <4>2 DEF UserReserveOK
    <3> QED BY <3>1, <3>2
  <2>10. Listed(account', UserReserve)
    <3>1. DOMAIN account' \subseteq Reserves
      BY <1>0, <2>6 DEF ChainOK, Listed
    <3>2. \A x \in DOMAIN account' : account'[x] \in UserReserve
      BY <2>9 DEF UserReserveOK
    <3>3. account' \in [DOMAIN account' -> UserReserve]
      BY <2>6, <3>2
    <3> QED BY <3>1, <3>3 DEF Listed
  <2>11. ChainOK'
    BY <1>0, <2>1, <2>3, <2>9, <2>10 DEF ChainOK
  <2>12. SnapshotsOK'
    <3>1. now' \in Nat /\ now <= now'
      BY <1>0, <2>1
    <3> QED BY <1>0, <1>1, <2>1, <2>3, <3>1, SnapshotsOKStay
  <2> QED BY <1>0, <2>1, <2>11, <2>12, PageOKStays DEF IInv
<1>6. CASE FetchPool
  <2>1. /\ pool' = market /\ ahead' = FALSE /\ page' = Blank
        /\ UNCHANGED <<now, lag, transactions, market, account, position>>
    BY <1>6 DEF FetchPool
  <2>2. ChainOK'
    BY <1>0, <2>1 DEF ChainOK
  <2>3. SnapshotsOK'
    BY <1>0, <2>1 DEF ChainOK, SnapshotsOK
  <2>4. PageOK'
    BY <2>1 DEF PageOK
  <2> QED BY <1>0, <2>2, <2>3, <2>4 DEF IInv
<1>7. CASE FetchPosition
  <2>1. /\ position' = account /\ ahead' = TRUE /\ page' = Blank
        /\ UNCHANGED <<now, lag, transactions, market, account, pool>>
    BY <1>7 DEF FetchPosition
  <2>2. ChainOK'
    BY <1>0, <2>1 DEF ChainOK
  <2>3. SnapshotsOK'
    BY <1>0, <2>1 DEF ChainOK, SnapshotsOK
  <2>4. PageOK'
    BY <2>1 DEF PageOK
  <2> QED BY <1>0, <2>2, <2>3, <2>4 DEF IInv
<1>8. ASSUME UNCHANGED <<now, lag, market, account, pool, position, ahead>>, PageOK'
      PROVE  IInv'
  BY <1>0, <1>8 DEF IInv, ChainOK, SnapshotsOK
<1>9. CASE Show
  <2>1. /\ page' = computeRawUserSummaryData(pool, position, now - lag)
        /\ UNCHANGED <<now, lag, transactions, market, account, pool, position, ahead>>
    BY <1>9 DEF Show
  <2>2. page' = Thrown \/ page'.kind = "shown"
    BY <2>1 DEF computeRawUserSummaryData
  <2>3. ASSUME page' # Thrown PROVE PageOK'
    <3>1. SummaryAt(now)'
      BY <1>0, <2>1 DEF SummaryAt, SnapshotsOK
    <3>2. now' \in Nat
      BY <1>0, <2>1
    <3>3. \E n \in Nat : SummaryAt(n)'
      BY <2>1, <3>1, <3>2 DEF SummaryAt
    <3> QED BY <2>2, <2>3, <3>3 DEF PageOK
  <2>4. PageOK'
    BY <2>3 DEF PageOK
  <2> QED BY <1>8, <2>1, <2>4
<1>10. CASE ShowReserves
  <2>1. PageOK'
    BY <1>10 DEF ShowReserves, PageOK
  <2> QED BY <1>8, <1>10, <2>1 DEF ShowReserves
<1>11. CASE Close
  <2>1. PageOK'
    BY <1>11 DEF Close, PageOK
  <2> QED BY <1>8, <1>11, <2>1 DEF Close
<1>12. CASE UNCHANGED vars
  BY <1>0, <1>8, <1>12, PageOKStays DEF vars
<1> QED BY <1>2, <1>3, <1>4, <1>5, <1>6, <1>7, <1>9, <1>10, <1>11, <1>12 DEF Next

\* Types and dates, in every state.
THEOREM TypesKept == Spec => []IInv
BY TypesInit, TypesStep, PTL DEF Spec

-----------------------------------------------------------------------------
(* What a page shows, on a clock that is near.                             *)

\* How far the clock may be behind: by a year at an interest of 100 %.
ClockNear ==
  \A delay \in Lags : \A r \in Reserves :
    /\ \A rates \in Rates[r] :
         /\ delay * rates.liquidity <= RAY * SECONDS_PER_YEAR
         /\ delay * rates.variable <= RAY * SECONDS_PER_YEAR
         /\ delay * rates.stable <= RAY * SECONDS_PER_YEAR
    /\ delay * Config[r].averageStableRate <= RAY * SECONDS_PER_YEAR

\* The debts of a reserve are counted from a date that a clock which is near is
\* hardly before.
LEMMA NearReserve ==
  ASSUME ClockNear, NEW r \in Reserves, NEW m, NEW n \in Nat, NEW t,
         ReserveOK(r, m, n), lag \in Lags, t = n - lag
  PROVE  /\ t \in Int
         /\ Behind(m.rates.liquidity, t, m.lastUpdateTimestamp)
         /\ Behind(m.rates.variable, t, m.lastUpdateTimestamp)
         /\ Behind(Config[r].averageStableRate, t, 0)
<1> DEFINE last == m.lastUpdateTimestamp
<1>1. /\ last \in Int /\ last <= n
      /\ m.rates \in Rates[r] /\ m.rates.liquidity \in Nat /\ m.rates.variable \in Nat
  BY SummaryAssumption DEF ReserveOK, Reserve
<1>2. lag \in Nat /\ n \in Int /\ t \in Int
  BY SummaryAssumption
<1>3. /\ lag * m.rates.liquidity <= RAY * SECONDS_PER_YEAR
      /\ lag * m.rates.variable <= RAY * SECONDS_PER_YEAR
      /\ lag * Config[r].averageStableRate <= RAY * SECONDS_PER_YEAR
  BY <1>1 DEF ClockNear
<1> HIDE DEF last
<1>4. Behind(m.rates.liquidity, t, last) /\ Behind(m.rates.variable, t, last)
  BY <1>1, <1>2, <1>3, WithinLag
<1>5. Behind(Config[r].averageStableRate, t, 0)
  <2> DEFINE none == 0
             rate == Config[r].averageStableRate
  <2>1. none \in Int /\ none <= n /\ rate \in Nat
    BY SummaryAssumption DEF Factors
  <2> HIDE DEF none, rate
  <2>2. lag * rate <= RAY * SECONDS_PER_YEAR
    BY <1>3 DEF rate
  <2>3. Behind(rate, t, none)
    BY <1>2, <2>1, <2>2, WithinLag
  <2> QED BY <2>3 DEF none, rate
<1> QED BY <1>2, <1>4, <1>5 DEF last

\* The factors of a page are natural although it may be from before the
\* reserve's last update.
LEMMA NearFactors ==
  ASSUME ClockNear, NEW r \in Reserves, NEW m, NEW u, NEW n \in Nat, NEW t,
         ReserveOK(r, m, n), UserReserveOK(r, u, n), lag \in Lags, t = n - lag
  PROVE  /\ t \in Int
         /\ getReserveNormalizedIncome(m.rates.liquidity, m.liquidityIndex,
                                       m.lastUpdateTimestamp, t) \in Nat
         /\ rayMul(calculateCompoundedInterest(m.rates.variable, t, m.lastUpdateTimestamp),
                   m.variableBorrowIndex) \in Nat
         /\ calculateCompoundedInterest(m.rates.stable, t,
                                        u.stableBorrowLastUpdateTimestamp) \in Nat
<1> DEFINE last == m.lastUpdateTimestamp
           first == u.stableBorrowLastUpdateTimestamp
<1>1. /\ last \in Int /\ m.liquidityIndex \in Nat /\ m.variableBorrowIndex \in Nat
      /\ m.rates \in Rates[r] /\ m.rates.liquidity \in Nat /\ m.rates.variable \in Nat
      /\ m.rates.stable \in Nat
  BY SummaryAssumption DEF ReserveOK, Reserve
<1>2. first \in Int /\ first <= n
  BY DEF UserReserveOK, UserReserve
<1>3. lag \in Nat /\ n \in Int /\ t \in Int
  BY SummaryAssumption
<1>4. lag * m.rates.stable <= RAY * SECONDS_PER_YEAR
  BY <1>1 DEF ClockNear
<1>5. Behind(m.rates.liquidity, t, last) /\ Behind(m.rates.variable, t, last)
  BY NearReserve
<1> HIDE DEF last, first
<1>6. Behind(m.rates.stable, t, first)
  BY <1>1, <1>2, <1>3, <1>4, WithinLag
<1>7. getReserveNormalizedIncome(m.rates.liquidity, m.liquidityIndex, last, t) \in Nat
  BY <1>1, <1>3, <1>5, IncomeBehind
<1>8. calculateCompoundedInterest(m.rates.variable, t, last) \in Nat
  BY <1>1, <1>3, <1>5, CompoundedBehind
<1>9. calculateCompoundedInterest(m.rates.stable, t, first) \in Nat
  BY <1>1, <1>2, <1>3, <1>6, CompoundedBehind
<1>10. rayMul(calculateCompoundedInterest(m.rates.variable, t, last),
              m.variableBorrowIndex) \in Nat
  BY <1>1, <1>8, RayMulNat
<1> QED BY <1>3, <1>7, <1>9, <1>10 DEF last, first

\* Shown balances and debts are natural, and near what the contracts say.
LEMMA NearData ==
  ASSUME ClockNear, NEW r \in Reserves, NEW m, NEW u, NEW n \in Nat, NEW t,
         ReserveOK(r, m, n), UserReserveOK(r, u, n), lag \in Lags, t = n - lag
  PROVE  LET data == computeUserReserveData(r, m, u, t)
             last == m.lastUpdateTimestamp
         IN  /\ data.underlyingBalance \in Nat /\ data.variableBorrows \in Nat
             /\ data.stableBorrows \in Nat
             /\ data.underlyingBalance
                  - rayMul(u.balances.aToken,
                           getReserveNormalizedIncome(m.rates.liquidity,
                                                      m.liquidityIndex, last, t))
                  \in {0, 1}
             /\ data.variableBorrows
                  - rayMul(u.balances.variable,
                           rayMul(calculateCompoundedInterest(m.rates.variable, t, last),
                                  m.variableBorrowIndex))
                  \in {0, 1}
<1> DEFINE last == m.lastUpdateTimestamp
           income == getReserveNormalizedIncome(m.rates.liquidity, m.liquidityIndex,
                                                last, t)
           factor == rayMul(calculateCompoundedInterest(m.rates.variable, t, last),
                            m.variableBorrowIndex)
           stable == calculateCompoundedInterest(m.rates.stable, t,
                                                 u.stableBorrowLastUpdateTimestamp)
           a == u.balances.aToken
           v == u.balances.variable
           p == u.balances.stable
<1>1. income \in Nat /\ factor \in Nat /\ stable \in Nat
  BY NearFactors
<1>2. a \in Nat /\ v \in Nat /\ p \in Nat
  BY SummaryAssumption DEF UserReserveOK
<1>3. /\ computeUserReserveData(r, m, u, t).underlyingBalance = Grown(a, income)
      /\ computeUserReserveData(r, m, u, t).variableBorrows
           = IF v = 0 THEN 0 ELSE Grown(v, factor)
      /\ computeUserReserveData(r, m, u, t).stableBorrows
           = IF p = 0 THEN 0 ELSE Grown(p, stable)
  BY DEF computeUserReserveData, getLinearBalance, getCompoundedBalance,
         getCompoundedStableBalance
<1> HIDE DEF income, factor, stable, a, v, p
<1>4. income <= income /\ factor <= factor /\ stable <= stable
  BY <1>1
<1>5. Grown(a, income) \in Nat /\ Grown(v, factor) \in Nat /\ Grown(p, stable) \in Nat
  BY <1>1, <1>2, <1>4, GrownMonotone
<1>6. Grown(a, income) - rayMul(a, income) \in {0, 1}
      /\ Grown(v, factor) - rayMul(v, factor) \in {0, 1}
  BY <1>1, <1>2, DoubleRounding
<1>7. v = 0 => rayMul(v, factor) = 0
  <2>1. 0 * factor = 0
    BY <1>1
  <2>2. (HALF_RAY + 0) \div RAY = 0
    BY HalfRay, RayAssumption
  <2>3. rayMul(0, factor) = 0
    BY <1>1, <2>1, <2>2, RayMulNat
  <2> QED BY <2>3
<1> QED BY <1>3, <1>5, <1>6, <1>7 DEF income, factor, a, v

DataAt(t) == [r \in DOMAIN position |-> computeUserReserveData(r, pool[r], position[r], t)]
EthAt(t) == [r \in DOMAIN position |-> InEth(r, DataAt(t)[r].underlyingBalance)]
OwedAt(t) == [r \in DOMAIN position |-> InEth(r, DataAt(t)[r].variableBorrows)
                                          + InEth(r, DataAt(t)[r].stableBorrows)]
Pledged == {r \in DOMAIN position : /\ Config[r].usageAsCollateralEnabled
                                    /\ position[r].balances.asCollateral}
LtvTerms(t) == [r \in Pledged |-> EthAt(t)[r] * Config[r].ltv]
ThresholdTerms(t) == [r \in Pledged |-> EthAt(t)[r] * Config[r].threshold]

\* A summary is computed over what was on chain.
LEMMA OnSummary ==
  ASSUME IInv, page.kind = "shown"
  PROVE  /\ \E n \in Nat :
              /\ page.at = n - lag
              /\ \A r \in DOMAIN position :
                   /\ r \in Reserves /\ r \in DOMAIN pool
                   /\ ReserveOK(r, pool[r], n) /\ UserReserveOK(r, position[r], n)
         /\ page.reserves = DataAt(page.at)
         /\ page.collateral = Total(EthAt(page.at), Pledged)
         /\ page.borrows = Total(OwedAt(page.at), DOMAIN position)
         /\ page.ltv = Averaged(Total(LtvTerms(page.at), Pledged), page.collateral)
         /\ page.threshold = Averaged(Total(ThresholdTerms(page.at), Pledged),
                                      page.collateral)
         /\ page.available = calculateAvailableBorrowsETH(page.collateral, page.borrows,
                                                          page.ltv)
         /\ page.healthFactor = calculateHealthFactorFromBalances(
                                  page.collateral, page.borrows, page.threshold)
         /\ page = [kind |-> "shown", at |-> page.at, reserves |-> page.reserves,
                    collateral |-> page.collateral, borrows |-> page.borrows,
                    ltv |-> page.ltv, threshold |-> page.threshold,
                    available |-> page.available, healthFactor |-> page.healthFactor]
<1>1. page # Blank /\ page # Thrown
  BY DEF Blank, Thrown
<1>2. \A given : page # formatReserves(pool, given, now - lag)
  BY DEF formatReserves
<1>3. PICK n \in Nat : SummaryAt(n)
  BY <1>1, <1>2 DEF IInv, PageOK
<1>4. /\ page = computeRawUserSummaryData(pool, position, n - lag)
      /\ \A r \in DOMAIN pool : ReserveOK(r, pool[r], n)
      /\ \A r \in DOMAIN position : UserReserveOK(r, position[r], n)
  BY <1>3 DEF SummaryAt
<1>5. ~SomeUnknown(pool, position)
  BY <1>4 DEF computeRawUserSummaryData, Thrown
<1> DEFINE t == n - lag
           data == DataAt(t)
           collateral == Total(EthAt(t), Pledged)
           borrows == Total(OwedAt(t), DOMAIN position)
           ltv == Averaged(Total(LtvTerms(t), Pledged), collateral)
           threshold == Averaged(Total(ThresholdTerms(t), Pledged), collateral)
           available == calculateAvailableBorrowsETH(collateral, borrows, ltv)
           health == calculateHealthFactorFromBalances(collateral, borrows, threshold)
<1>6. page = [kind |-> "shown", at |-> t, reserves |-> data, collateral |-> collateral,
              borrows |-> borrows, ltv |-> ltv, threshold |-> threshold,
              available |-> available, healthFactor |-> health]
  BY <1>4, <1>5 DEF computeRawUserSummaryData, DataAt, EthAt, OwedAt, Pledged, LtvTerms,
                    ThresholdTerms
<1> HIDE DEF t, data, collateral, borrows, ltv, threshold, available, health
<1>7. /\ page.at = t /\ page.reserves = data /\ page.collateral = collateral
      /\ page.borrows = borrows /\ page.ltv = ltv /\ page.threshold = threshold
      /\ page.available = available /\ page.healthFactor = health
      /\ page = [kind |-> "shown", at |-> page.at, reserves |-> page.reserves,
                 collateral |-> page.collateral, borrows |-> page.borrows,
                 ltv |-> page.ltv, threshold |-> page.threshold,
                 available |-> page.available, healthFactor |-> page.healthFactor]
  BY ONLY <1>6
<1>8. \A r \in DOMAIN position : r \in Reserves /\ r \in DOMAIN pool
  BY <1>5 DEF SomeUnknown, IInv, SnapshotsOK, Listed
<1> QED BY <1>4, <1>7, <1>8 DEF t, data, collateral, borrows, ltv, threshold, available,
                                health

\* A price makes no amount negative.
LEMMA InEthNat ==
  ASSUME NEW r \in Reserves, NEW b \in Nat
  PROVE  InEth(r, b) \in Nat
<1> DEFINE p == b * Config[r].price
<1>1. Config[r].price \in Nat /\ Config[r].scale \in Nat \ {0}
  BY SummaryAssumption DEF Factors
<1>2. p \in Nat /\ p \in Int /\ p <= p
  BY <1>1
<1> HIDE DEF p
<1>3. DivDown(p, Config[r].scale) \in Nat
  BY <1>1, <1>2, DivDownMonotone
<1> QED BY <1>3 DEF InEth, p

\* The sums of a page are natural, and its loan to value is at most the threshold.
LEMMA SumsNat ==
  ASSUME IInv, ClockNear, page.kind = "shown"
  PROVE  /\ page.at \in Int /\ page.collateral \in Nat /\ page.borrows \in Nat
         /\ page.ltv \in Nat /\ page.threshold \in Nat /\ page.ltv <= page.threshold
         /\ \A r \in DOMAIN position :
              /\ DataAt(page.at)[r] = computeUserReserveData(r, pool[r], position[r], page.at)
              /\ DataAt(page.at)[r].underlyingBalance \in Nat
              /\ DataAt(page.at)[r].variableBorrows \in Nat
              /\ DataAt(page.at)[r].stableBorrows \in Nat
<1> DEFINE t == page.at
           S == Pledged
           eth == EthAt(t)
           lw == [r \in S |-> Config[r].ltv]
           tw == [r \in S |-> Config[r].threshold]
           L == LtvTerms(t)
           T == ThresholdTerms(t)
           owed == OwedAt(t)
<1>0. PICK n \in Nat :
        /\ t = n - lag
        /\ \A r \in DOMAIN position :
             /\ r \in Reserves /\ r \in DOMAIN pool
             /\ ReserveOK(r, pool[r], n) /\ UserReserveOK(r, position[r], n)
  BY OnSummary
<1>1. lag \in Lags /\ lag \in Nat /\ t \in Int
  BY <1>0, SummaryAssumption DEF IInv, ChainOK
<1>2. IsFiniteSet(DOMAIN position) /\ IsFiniteSet(S) /\ S \subseteq DOMAIN position
  <2>1. DOMAIN position \subseteq Reserves /\ S \subseteq DOMAIN position
    BY <1>0 DEF Pledged
  <2> QED BY <2>1, SummaryAssumption, FS_Subset
<1> HIDE DEF t
<1>3. ASSUME NEW r \in DOMAIN position
      PROVE  /\ DataAt(t)[r] = computeUserReserveData(r, pool[r], position[r], t)
             /\ DataAt(t)[r].underlyingBalance \in Nat
             /\ DataAt(t)[r].variableBorrows \in Nat
             /\ DataAt(t)[r].stableBorrows \in Nat
             /\ eth[r] \in Nat /\ owed[r] \in Nat
  <2>1. DataAt(t)[r] = computeUserReserveData(r, pool[r], position[r], t)
    BY DEF DataAt
  <2>2. /\ DataAt(t)[r].underlyingBalance \in Nat
        /\ DataAt(t)[r].variableBorrows \in Nat
        /\ DataAt(t)[r].stableBorrows \in Nat
    BY <1>0, <1>1, <2>1, NearData
  <2>3. /\ eth[r] = InEth(r, DataAt(t)[r].underlyingBalance)
        /\ owed[r] = InEth(r, DataAt(t)[r].variableBorrows)
                       + InEth(r, DataAt(t)[r].stableBorrows)
    BY DEF EthAt, OwedAt
  <2>4. /\ InEth(r, DataAt(t)[r].underlyingBalance) \in Nat
        /\ InEth(r, DataAt(t)[r].variableBorrows) \in Nat
        /\ InEth(r, DataAt(t)[r].stableBorrows) \in Nat
    BY <1>0, <2>2, InEthNat
  <2> HIDE DEF eth, owed
  <2> QED BY <2>1, <2>2, <2>3, <2>4
<1>4. ASSUME NEW r \in S
      PROVE  /\ eth[r] \in Nat /\ lw[r] \in Nat /\ tw[r] \in Nat /\ lw[r] <= tw[r]
             /\ L[r] = eth[r] * lw[r] /\ T[r] = eth[r] * tw[r]
  <2>1. r \in DOMAIN position /\ r \in Reserves
    BY <1>0, <1>2
  <2>2. eth[r] \in Nat
    BY <1>3, <2>1
  <2>3. Config[r].ltv \in Nat /\ Config[r].threshold \in Nat /\ Config[r].ltv <= Config[r].threshold
    BY <2>1, SummaryAssumption DEF Factors
  <2>4. L[r] = eth[r] * Config[r].ltv /\ T[r] = eth[r] * Config[r].threshold
    BY DEF LtvTerms, ThresholdTerms
  <2> QED BY <2>2, <2>3, <2>4
<1>5. /\ page.collateral = Total(eth, S)
      /\ page.borrows = Total(owed, DOMAIN position)
      /\ page.ltv = Averaged(Total(L, S), page.collateral)
      /\ page.threshold = Averaged(Total(T, S), page.collateral)
  BY OnSummary DEF t
<1>6. page.borrows \in Nat
  BY <1>2, <1>3, <1>5, TotalNat
<1> DEFINE c == page.collateral
           l == Total(L, S)
           h == Total(T, S)
<1> HIDE DEF eth, lw, tw, L, T, S
<1>7. c \in Nat /\ l \in Nat /\ (l > 0 => c > 0)
  BY <1>2, <1>4, <1>5, WeightedTotal
<1>8. h \in Nat /\ (h > 0 => c > 0)
  BY <1>2, <1>4, <1>5, WeightedTotal
<1>9. l <= h
  <2>1. ASSUME NEW r \in S PROVE L[r] \in Int /\ T[r] \in Int /\ L[r] <= T[r]
    <3>1. /\ eth[r] \in Nat /\ lw[r] \in Nat /\ tw[r] \in Nat /\ lw[r] <= tw[r]
          /\ L[r] = eth[r] * lw[r] /\ T[r] = eth[r] * tw[r]
      BY <1>4
    <3>2. eth[r] <= eth[r]
      BY <3>1
    <3> QED BY <3>1, <3>2, ProductMonotone
  <2> QED BY <1>2, <2>1, TotalMonotone
<1> HIDE DEF l, h, c
<1>10. page.ltv = Averaged(l, c) /\ page.threshold = Averaged(h, c)
  BY <1>5 DEF l, h, c
<1>11. Averaged(l, c) \in Nat /\ Averaged(h, c) \in Nat /\ Averaged(l, c) <= Averaged(h, c)
  <2>1. CASE h > 0
    <3>1. c \in Nat \ {0} /\ h <= h
      BY <1>7, <1>8, <2>1
    <3>2. /\ Quotient(l, c) \div Dp \in Nat /\ Quotient(l, c) \div Dp <= Quotient(h, c) \div Dp
      BY <1>7, <1>8, <1>9, <3>1, QuotientFloor
    <3>3. Quotient(h, c) \div Dp \in Nat
      BY <1>8, <3>1, QuotientFloor
    <3> QED BY <2>1, <3>2, <3>3 DEF Averaged
  <2>2. CASE ~(h > 0)
    <3>1. ~(l > 0)
      BY <1>7, <1>8, <1>9, <2>2
    <3> QED BY <2>2, <3>1 DEF Averaged
  <2> QED BY <2>1, <2>2
<1> QED BY <1>1, <1>3, <1>6, <1>7, <1>10, <1>11 DEF c, t

\* What is on a page was computed from the snapshots of what was on chain.
LEMMA OnSummaryPage ==
  ASSUME IInv, ClockNear, NEW r \in OnPage
  PROVE  /\ page.kind = "shown" /\ page.at \in Int
         /\ r \in Reserves /\ r \in DOMAIN position /\ r \in DOMAIN pool
         /\ page.reserves[r] = computeUserReserveData(r, pool[r], position[r], page.at)
         /\ \E n \in Nat : /\ page.at = n - lag /\ lag \in Lags
                           /\ ReserveOK(r, pool[r], n) /\ UserReserveOK(r, position[r], n)
<1>1. page.kind = "shown" /\ r \in DOMAIN page.reserves
  BY DEF OnPage
<1>2. page.reserves = DataAt(page.at) /\ DOMAIN DataAt(page.at) = DOMAIN position
  BY <1>1, OnSummary DEF DataAt
<1>3. r \in DOMAIN position
  BY <1>1, <1>2
<1>4. page.reserves[r] = computeUserReserveData(r, pool[r], position[r], page.at)
  BY <1>2, <1>3 DEF DataAt
<1>5. page.at \in Int
  BY <1>1, SumsNat
<1>6. lag \in Lags
  BY DEF IInv, ChainOK
<1> QED BY <1>1, <1>3, <1>4, <1>5, <1>6, OnSummary

\* In every behaviour a balance and a variable debt, rounded twice by
\* getLinearBalance and getCompoundedBalance, are the contracts' or one unit
\* more, whatever the two snapshots and also behind a clock that is near.
THEOREM ShownValuesNear ==
  ASSUME ClockNear
  PROVE  Spec => []ShownNearContract
<1>1. IInv => ShownNearContract
  <2> SUFFICES ASSUME IInv, NEW r \in OnPage
               PROVE  \A f \in {"underlyingBalance", "variableBorrows"} :
                        page.reserves[r][f] - OnChain(r, page.at)[f] \in {0, 1}
    BY DEF ShownNearContract
  <2> DEFINE t == page.at
             m == pool[r]
             u == position[r]
             last == m.lastUpdateTimestamp
             data == computeUserReserveData(r, m, u, t)
             a == rayMul(u.balances.aToken,
                         getReserveNormalizedIncome(m.rates.liquidity, m.liquidityIndex,
                                                    last, t))
             v == rayMul(u.balances.variable,
                         rayMul(calculateCompoundedInterest(m.rates.variable, t, last),
                                m.variableBorrowIndex))
  <2>1. page.reserves[r] = data /\ r \in Reserves
    BY OnSummaryPage
  <2>2. data.underlyingBalance - a \in {0, 1} /\ data.variableBorrows - v \in {0, 1}
    BY OnSummaryPage, NearData
  <2>3. OnChain(r, t).underlyingBalance = a /\ OnChain(r, t).variableBorrows = v
    BY DEF OnChain
  <2> HIDE DEF data, a, v
  <2> QED BY <2>1, <2>2, <2>3
<1> QED BY <1>1, TypesKept, PTL

\* Borrowing all that calculateAvailableBorrowsETH shows leaves a health factor
\* of one at least: what is owed then is no more than the loan to value allows,
\* and that no more than the threshold; rounding does not spoil it.
THEOREM BorrowingIsHealthy ==
  ASSUME ClockNear
  PROVE  Spec => []AvailableIsHealthy
<1>1. IInv => AvailableIsHealthy
  <2> SUFFICES ASSUME IInv, page.kind = "shown", page.available # 0
               PROVE  calculateHealthFactorFromBalances(
                        page.collateral, page.borrows + page.available, page.threshold) >= Dp
    BY DEF AvailableIsHealthy
  <2> DEFINE c == page.collateral
             b == page.borrows
             l == page.ltv
             h == page.threshold
             cl == c * l
             ch == c * h
             capacity == DivDown(cl, LtvScale)
  <2>1. /\ c \in Nat /\ b \in Nat /\ l \in Nat /\ h \in Nat /\ l <= h /\ c <= c
        /\ LtvScale \in Nat \ {0}
    BY SumsNat, PoolAssumption
  <2>2. page.available = calculateAvailableBorrowsETH(c, b, l)
    BY OnSummary
  <2>3. page.available = capacity - b /\ ~(capacity - b <= 0)
    BY <2>2 DEF calculateAvailableBorrowsETH
  <2> HIDE DEF c, b, l, h
  <2>4. cl \in Nat /\ ch \in Nat /\ cl <= ch
    BY <2>1, ProductMonotone
  <2> HIDE DEF cl, ch
  <2>5. capacity \in Int /\ LtvScale * capacity <= cl
    <3>1. cl \in Int /\ capacity = cl \div LtvScale
      BY <2>4 DEF DivDown
    <3> QED BY <2>1, <3>1, DivBounds
  <2> HIDE DEF capacity
  <2>6. b + page.available = capacity /\ capacity \in Nat \ {0}
    BY <2>1, <2>3, <2>5
  <2>7. LtvScale * capacity \in Nat \ {0} /\ ch \in Int /\ ch >= LtvScale * capacity
    BY <2>1, <2>4, <2>5, <2>6
  <2>8. Quotient(ch, LtvScale * capacity) >= Dp
    BY <2>7, QuotientAtLeast
  <2>9. calculateHealthFactorFromBalances(c, b + page.available, h)
          = Quotient(ch, LtvScale * capacity)
    BY <2>6 DEF calculateHealthFactorFromBalances, ch
  <2> QED BY <2>8, <2>9 DEF c, b, h
<1> QED BY <1>1, TypesKept, PTL

-----------------------------------------------------------------------------
(* Rewards.                                                                *)

\* Rewards are integers; natural ones when none were counted that the reserve
\* has not, and it counted them before t.
LEMMA RewardsNat ==
  ASSUME NEW balance \in Nat, NEW index \in Nat, NEW userIndex \in Nat,
         NEW last \in Nat, NEW emission \in Nat, NEW supply \in Nat \ {0}, NEW t \in Int
  PROVE  LET rewards == calculateRewards(balance, index, userIndex, last, emission,
                                         supply, t)
         IN  /\ rewards \in Int
             /\ userIndex <= index /\ last <= t => rewards \in Nat
<1> DEFINE until == IF t > EmissionEnd THEN EmissionEnd ELSE t
           d == until - last
           n == emission * d * RewardScale
           current == IF last = t \/ last >= EmissionEnd THEN index
                      ELSE DivDown(n, supply) + index
           g == balance * (current - userIndex)
<1>0. EmissionEnd \in Nat /\ RewardScale \in Nat \ {0}
  BY SummaryAssumption
<1>1. until \in Int /\ d \in Int /\ (last <= t /\ last < EmissionEnd => d \in Nat)
  BY <1>0
<1> HIDE DEF until, d
<1>2. n \in Int /\ (d \in Nat => n \in Nat)
  <2>1. emission * d \in Int /\ (d \in Nat => emission * d \in Nat)
    BY <1>1
  <2> QED BY <1>0, <2>1
<1> HIDE DEF n
<1>3. DivDown(n, supply) \in Int /\ (n \in Nat => DivDown(n, supply) \in Nat)
  <2>1. n <= n
    BY <1>2
  <2> QED BY <1>2, <2>1, DivDownMonotone
<1>4. current \in Int /\ (last <= t => current \in Nat /\ current >= index)
  BY <1>0, <1>1, <1>2, <1>3
<1>5. calculateRewards(balance, index, userIndex, last, emission, supply, t)
        = DivDown(g, RewardScale)
  BY DEF calculateRewards, n, d, until
<1> HIDE DEF current
<1>6. g \in Int /\ (userIndex <= index /\ last <= t => g \in Nat)
  <2>1. current - userIndex \in Int
    BY <1>4
  <2>2. userIndex <= index /\ last <= t => current - userIndex \in Nat
    BY <1>4
  <2> DEFINE e == current - userIndex
  <2> HIDE DEF e
  <2>3. e \in Int /\ (userIndex <= index /\ last <= t => e \in Nat)
    BY <2>1, <2>2 DEF e
  <2>4. balance * e \in Int /\ (e \in Nat => balance * e \in Nat)
    BY ONLY balance \in Nat, <2>3
  <2> QED BY <2>3, <2>4 DEF e
<1> HIDE DEF g
<1>7. g <= g
  BY <1>6
<1> QED BY <1>0, <1>5, <1>6, <1>7, DivDownMonotone

\* What is deposited in a reserve of the page is at least one unit of the scaled
\* supply: calculateRewards divides by it, and the contracts report no smaller one.
DepositsCount ==
  page.kind = "shown" =>
    \A r \in DOMAIN position :
      calculateSupplies(r, pool[r], page.at).a # 0
        => RewardSupply(r, pool[r], page.at).a # 0

\* The emission of a token that somebody holds is shared by somebody.
LEMMA Shared ==
  ASSUME IInv, ClockNear, DepositsCount, NEW r \in OnPage, NEW k \in Kinds
  PROVE  /\ calculateSupplies(r, pool[r], page.at)[k] \in Nat
         /\ calculateSupplies(r, pool[r], page.at)[k] # 0
              => RewardSupply(r, pool[r], page.at)[k] \in Nat \ {0}
<1> DEFINE t == page.at
           m == pool[r]
           u == position[r]
           all == calculateSupplies(r, m, t)
<1>1. PICK n \in Nat : /\ t = n - lag /\ lag \in Lags
                       /\ ReserveOK(r, m, n) /\ UserReserveOK(r, u, n)
  BY OnSummaryPage
<1>2. /\ page.kind = "shown" /\ r \in Reserves /\ r \in DOMAIN position /\ t \in Int
  BY OnSummaryPage
<1>3. Behind(m.rates.variable, t, m.lastUpdateTimestamp)
      /\ Behind(Config[r].averageStableRate, t, 0)
  BY <1>1, <1>2, NearReserve
<1>4. /\ m \in Reserve /\ m.rates.variable \in Nat /\ m.liquidityIndex \in Nat \ {0}
  BY <1>1, <1>2, SummaryAssumption, RayAssumption DEF ReserveOK, Reserve
<1>5. /\ all.v \in Nat /\ all.s \in Nat /\ all.a \in Nat
      /\ all.v # 0 => Config[r].totalScaledVariableDebt # 0
      /\ all.s # 0 => Config[r].totalPrincipalStableDebt # 0
  BY <1>2, <1>3, <1>4, SuppliesNat
<1>6. /\ Config[r].totalScaledVariableDebt \in Nat
      /\ Config[r].totalPrincipalStableDebt \in Nat
  BY <1>2, SummaryAssumption DEF Factors
<1>7. all.a # 0 => RewardSupply(r, m, t).a # 0
  BY <1>2 DEF DepositsCount
<1> DEFINE shared == RewardSupply(r, m, t)
           deposits == rayDiv(all.a, m.liquidityIndex)
<1>8. deposits \in Nat
  <2>1. all.a <= all.a
    BY <1>5
  <2> HIDE DEF all
  <2> QED BY <1>4, <1>5, <2>1, RayDivMonotone
<1>9. /\ shared.a = deposits /\ shared.v = Config[r].totalScaledVariableDebt
      /\ shared.s = Config[r].totalPrincipalStableDebt
  BY DEF RewardSupply
<1> HIDE DEF all, shared, deposits
<1>10. all[k] \in Nat /\ (all[k] # 0 => shared[k] \in Nat \ {0})
  <2>1. CASE k = "a"
    BY <1>5, <1>7, <1>8, <1>9, <2>1 DEF shared
  <2>2. CASE k = "v"
    BY <1>5, <1>6, <1>9, <2>2
  <2>3. CASE k = "s"
    BY <1>5, <1>6, <1>9, <2>3
  <2> QED BY <2>1, <2>2, <2>3 DEF Kinds
<1> QED BY <1>10 DEF all, shared

\* The rewards on a page are integers, and natural where none were counted that
\* the pool's snapshot has not and the page is not older than its counts.
LEMMA ShownRewards ==
  ASSUME IInv, ClockNear, DepositsCount, NEW r \in OnPage, NEW k \in Kinds
  PROVE  /\ page.reserves[r].rewards[k] \in Int
         /\ ~ahead /\ pool[r].incentivesLast[k] <= page.at
              => page.reserves[r].rewards[k] \in Nat
<1> DEFINE t == page.at
           m == pool[r]
           u == position[r]
           supply == calculateSupplies(r, m, t)[k]
           shared == RewardSupply(r, m, t)[k]
           held == Held(u.balances)[k]
           index == m.incentivesIndex[k]
           userIndex == u.incentivesUserIndex[k]
           last == m.incentivesLast[k]
           emission == Config[r].emissionPerSecond[k]
<1>1. /\ r \in Reserves /\ r \in DOMAIN position /\ t \in Int
      /\ page.reserves[r] = computeUserReserveData(r, m, u, t)
  BY OnSummaryPage
<1>2. PICK n \in Nat : ReserveOK(r, m, n) /\ UserReserveOK(r, u, n)
  BY OnSummaryPage
<1>3. held \in Nat
  <2>1. u.balances.aToken \in Nat /\ u.balances.variable \in Nat /\ u.balances.stable \in Nat
    BY <1>1, <1>2, SummaryAssumption DEF UserReserveOK
  <2> QED BY <2>1 DEF Held, Kinds
<1>4. index \in Nat /\ last \in Nat /\ userIndex \in Nat
  BY <1>2 DEF ReserveOK, Reserve, UserReserveOK, UserReserve
<1>5. emission \in Nat
  BY <1>1, SummaryAssumption DEF Factors
<1>6. supply \in Nat /\ (supply # 0 => shared \in Nat \ {0})
  BY Shared
<1>7. ~ahead => userIndex <= index
  BY <1>1 DEF IInv, SnapshotsOK, CountedIn
<1>8. page.reserves[r].rewards[k] =
        IF supply = 0 THEN 0
        ELSE calculateRewards(held, index, userIndex, last, emission, shared, t)
  BY <1>1 DEF computeUserReserveData
<1> HIDE DEF t, supply, shared, held, index, userIndex, last, emission
<1>9. CASE supply = 0
  BY <1>8, <1>9
<1>10. CASE supply # 0
  <2> DEFINE earned == calculateRewards(held, index, userIndex, last, emission, shared, t)
  <2>1. earned \in Int /\ (userIndex <= index /\ last <= t => earned \in Nat)
    BY <1>1, <1>3, <1>4, <1>5, <1>6, <1>10, RewardsNat
  <2>2. page.reserves[r].rewards[k] = earned
    BY <1>8, <1>10
  <2> HIDE DEF earned
  <2> QED BY <1>7, <2>1, <2>2 DEF last, t
<1> QED BY <1>9, <1>10

\* calculateRewards shows no negative reward, also past the emission's end, while
\* the reserves are the newer snapshot and the clock is not behind their counts.
THEOREM RewardsAreEarned ==
  ASSUME ClockNear
  PROVE  Spec => [](DepositsCount => RewardsNotNegative)
<1>1. IInv => (DepositsCount => RewardsNotNegative)
  <2> SUFFICES ASSUME IInv, DepositsCount, ~ahead, IncentivesCountedBy(now - lag),
                      NEW r \in OnPage, page.at = now - lag, NEW k \in Kinds
               PROVE  page.reserves[r].rewards[k] >= 0
    BY DEF RewardsNotNegative
  <2>1. pool[r].incentivesLast[k] <= page.at
    BY OnSummaryPage DEF IncentivesCountedBy
  <2>2. page.reserves[r].rewards[k] \in Nat
    BY <2>1, ShownRewards
  <2> QED BY <2>2
<1> QED BY <1>1, TypesKept, PTL

-----------------------------------------------------------------------------
(* Types.                                                                  *)

Counted == now \in 0..MaxTime /\ transactions \in 0..MaxTransactions

\* The counters count up to their bounds.
LEMMA CountersKeep == Spec => []Counted
<1>0. MaxTime \in Nat /\ MaxTransactions \in Nat
  BY SummaryAssumption
<1>1. Init => Counted
  BY <1>0 DEF Init, Counted
<1>2. Counted /\ [Next]_vars => Counted'
  <2> SUFFICES ASSUME Counted, [Next]_vars PROVE Counted'
    OBVIOUS
  <2>1. CASE Tick
    BY <1>0, <2>1 DEF Tick, Counted
  <2>2. CASE Transact
    BY <1>0, <2>2 DEF Transact, Counted
  <2>3. ASSUME NEW r \in Reserves, List(r) \/ Touch(r) \/ Use(r) PROVE Counted'
    BY <2>2, <2>3 DEF List, Touch, Use
  <2>4. CASE UNCHANGED <<now, transactions>>
    BY <2>4 DEF Counted
  <2>5. CASE FetchPool \/ FetchPosition \/ Show \/ ShowReserves \/ Close
    BY <2>4, <2>5 DEF FetchPool, FetchPosition, Show, ShowReserves, Close
  <2>6. CASE UNCHANGED vars
    BY <2>4, <2>6 DEF vars
  <2> QED BY <2>1, <2>3, <2>5, <2>6 DEF Next
<1> QED BY <1>1, <1>2, PTL DEF Spec

\* What a page says of a user.
LEMMA SummaryTyped ==
  ASSUME IInv, ClockNear, DepositsCount, page.kind = "shown"
  PROVE  IsShown(page)
<1> DEFINE t == page.at
           data == DataAt(t)
           c == page.collateral
           b == page.borrows
           l == page.ltv
           h == page.threshold
<1>1. t \in Int /\ c \in Nat /\ b \in Nat /\ l \in Nat /\ h \in Nat
  BY SumsNat
<1>2. /\ page.reserves = data /\ DOMAIN data = DOMAIN position
      /\ page.available = calculateAvailableBorrowsETH(c, b, l)
      /\ page.healthFactor = calculateHealthFactorFromBalances(c, b, h)
      /\ page = [kind |-> "shown", at |-> t, reserves |-> page.reserves,
                 collateral |-> c, borrows |-> b, ltv |-> l, threshold |-> h,
                 available |-> page.available, healthFactor |-> page.healthFactor]
  BY OnSummary DEF DataAt
<1>3. DOMAIN position \subseteq Reserves
  BY DEF IInv, SnapshotsOK, Listed
<1>4. ASSUME NEW r \in DOMAIN position
      PROVE  page.reserves[r] \in ComputedUserReserve
  <2>0. r \in OnPage
    BY <1>2 DEF OnPage
  <2> DEFINE d == page.reserves[r]
  <2>1. d = computeUserReserveData(r, pool[r], position[r], t)
    BY <2>0, OnSummaryPage
  <2>2. /\ d.underlyingBalance \in Nat /\ d.variableBorrows \in Nat
        /\ d.stableBorrows \in Nat
    BY <2>1, SumsNat
  <2>3. \A k \in Kinds : d.rewards[k] \in Int
    BY <2>0, ShownRewards
  <2>4. /\ d = [underlyingBalance |-> d.underlyingBalance,
                variableBorrows |-> d.variableBorrows,
                stableBorrows |-> d.stableBorrows, rewards |-> d.rewards]
        /\ d.rewards = [k \in Kinds |-> d.rewards[k]]
    <3> DEFINE e == computeUserReserveData(r, pool[r], position[r], t)
    <3>1. /\ e = [underlyingBalance |-> e.underlyingBalance,
                  variableBorrows |-> e.variableBorrows,
                  stableBorrows |-> e.stableBorrows, rewards |-> e.rewards]
          /\ e.rewards = [k \in Kinds |-> e.rewards[k]]
      BY DEF computeUserReserveData
    <3> HIDE DEF e
    <3>2. d = e
      BY <2>1 DEF e
    <3> HIDE DEF d
    <3> QED BY <3>1, <3>2
  <2> HIDE DEF d
  <2>5. d.rewards \in [Kinds -> Int]
    BY <2>3, <2>4
  <2>6. d \in ComputedUserReserve
    BY <2>2, <2>4, <2>5 DEF ComputedUserReserve
  <2> QED BY <2>6 DEF d
<1>5. Listed(page.reserves, ComputedUserReserve)
  <2>1. page.reserves = [r \in DOMAIN position |-> page.reserves[r]]
    BY <1>2 DEF DataAt
  <2>2. page.reserves \in [DOMAIN position -> ComputedUserReserve]
    BY <1>4, <2>1
  <2>3. DOMAIN page.reserves = DOMAIN position
    BY <1>2
  <2> QED BY <1>3, <2>2, <2>3 DEF Listed
<1> DEFINE capacity == DivDown(c * l, LtvScale)
<1> HIDE DEF t, data, c, b, l, h
<1>6. LtvScale \in Nat \ {0} /\ capacity \in Int
  <2>1. LtvScale \in Nat \ {0} /\ c * l \in Int
    BY <1>1, PoolAssumption
  <2> QED BY <2>1, DivDownInt
<1>7. page.available \in Nat
  <2>1. page.available = IF l = 0 \/ capacity - b <= 0 THEN 0 ELSE capacity - b
    BY <1>2 DEF calculateAvailableBorrowsETH
  <2> HIDE DEF capacity
  <2> QED BY <1>1, <1>6, <2>1
<1>8. page.healthFactor \in Int
  <2>1. CASE b = 0
    BY <1>2, <2>1 DEF calculateHealthFactorFromBalances
  <2>2. CASE b # 0
    <3>1. c * h \in Int /\ LtvScale * b \in Nat \ {0}
      BY <1>1, <1>6, <2>2
    <3>2. Quotient(c * h, LtvScale * b) \in Int
      BY <3>1, QuotientBounds
    <3> QED BY <1>2, <2>2, <3>2 DEF calculateHealthFactorFromBalances
  <2> QED BY <2>1, <2>2
<1>9. page \in [kind : {"shown"}, at : Int, reserves : {page.reserves},
                collateral : Nat, borrows : Nat, ltv : Nat, threshold : Nat,
                available : Nat, healthFactor : Int]
  BY ONLY <1>1, <1>2, <1>7, <1>8
<1> QED BY <1>5, <1>9 DEF IsShown

\* Every reserve has a price: the yield of incentives is relative to it.
Priced == \A r \in Reserves : Config[r].price # 0

\* No yield is negative.
LEMMA YieldNat ==
  ASSUME NEW rate \in Nat
  PROVE  APY(rate) \in Nat
<1> DEFINE base == RAY + rate \div SECONDS_PER_YEAR
           S == SECONDS_PER_YEAR
<1>1. RAY \in Nat /\ S \in Nat \ {0}
  BY RayAssumption, PoolAssumption
<1>2. rate \div S \in Nat
  BY <1>1, DivNat
<1>3. base \in Nat /\ base >= RAY
  BY <1>1, <1>2
<1> HIDE DEF base, S
<1>4. S \in Nat
  BY <1>1
<1>5. rayPow(base, S) \in Nat /\ rayPow(base, S) >= RAY
  BY <1>3, <1>4, RayPowAtLeast
<1>6. APY(rate) = rayPow(base, S) - RAY
  BY DEF APY, base, S
<1> QED BY <1>1, <1>5, <1>6

\* What a page says of the reserves.
LEMMA ListTyped ==
  ASSUME IInv, ClockNear, Priced, NEW given \in BOOLEAN, NEW r \in DOMAIN pool
  PROVE  formatReserve(r, pool[r], given, now - lag) \in ComputedReserve
<1> DEFINE t == now - lag
           m == pool[r]
           date == IF given /\ t # 0 THEN t ELSE m.lastUpdateTimestamp
           supplies == calculateSupplies(r, m, date)
           c == Config[r]
<1>1. /\ r \in Reserves /\ ReserveOK(r, m, now) /\ now \in Nat /\ lag \in Lags /\ lag \in Nat
  BY SummaryAssumption DEF IInv, ChainOK, SnapshotsOK, Listed
<1>2. /\ m \in Reserve /\ m.rates.liquidity \in Nat /\ m.rates.variable \in Nat
      /\ m.rates.stable \in Nat /\ m.lastUpdateTimestamp \in Nat
  BY <1>1, SummaryAssumption DEF ReserveOK, Reserve
<1>3. /\ c.averageStableRate \in Nat /\ c.scale \in Nat /\ c.price \in Nat \ {0}
      /\ \A k \in Kinds : c.emissionPerSecond[k] \in Nat
  BY <1>1, SummaryAssumption DEF Factors, Priced
<1>4. /\ date \in Int /\ Behind(m.rates.variable, date, m.lastUpdateTimestamp)
      /\ Behind(c.averageStableRate, date, 0)
  <2>1. CASE date = t
    <3>1. /\ t \in Int /\ Behind(m.rates.variable, t, m.lastUpdateTimestamp)
          /\ Behind(c.averageStableRate, t, 0)
      BY <1>1, NearReserve
    <3> QED BY <2>1, <3>1
  <2>2. CASE date = m.lastUpdateTimestamp
    <3> DEFINE last == m.lastUpdateTimestamp
               none == 0
    <3>1. last \in Int /\ none \in Int /\ last <= last /\ none <= last
      BY <1>2
    <3> HIDE DEF last, none
    <3>2. Behind(m.rates.variable, last, last) /\ Behind(c.averageStableRate, last, none)
      BY <1>2, <1>3, <3>1, NotBehind
    <3>3. date = last
      BY <2>2 DEF last
    <3> QED BY <3>1, <3>2, <3>3 DEF last, none
  <2> QED BY <2>1, <2>2
<1> HIDE DEF date
<1>5. supplies.v \in Nat /\ supplies.s \in Nat /\ supplies.a \in Nat
  BY <1>1, <1>2, <1>4, SuppliesNat
<1> HIDE DEF supplies
<1> DEFINE utilization == IF supplies.a = 0 THEN 0
                          ELSE Quotient(supplies.v + supplies.s, supplies.a)
           yield(k) == IF ~hasEmission(t) \/ supplies[k] = 0 THEN 0
                       ELSE calculateIncentivesAPY(r, c.emissionPerSecond[k], supplies[k])
           yields == [k \in Kinds |-> yield(k)]
<1>6. utilization \in Nat
  <2>1. CASE supplies.a = 0
    BY <2>1
  <2>2. CASE supplies.a # 0
    <3>1. supplies.v + supplies.s \in Nat /\ supplies.v + supplies.s \in Int
          /\ supplies.a \in Nat \ {0}
      BY <1>5, <2>2
    <3>2. Quotient(supplies.v + supplies.s, supplies.a) \in Nat
      BY <3>1, QuotientBounds
    <3> QED BY <2>2, <3>2
  <2> QED BY <2>1, <2>2
<1>7. ASSUME NEW k \in Kinds PROVE yield(k) \in Nat
  <2> DEFINE x == supplies[k]
             e == c.emissionPerSecond[k]
             n == e * SECONDS_PER_YEAR * c.scale
             d == x * c.price
  <2>1. x \in Nat /\ e \in Nat
    BY <1>3, <1>5 DEF Kinds
  <2>2. CASE x = 0
    BY <2>2
  <2>3. CASE x # 0
    <3> HIDE DEF x, e, c
    <3>0. SECONDS_PER_YEAR \in Nat
      BY PoolAssumption
    <3>1. n \in Nat
      <4>1. e * SECONDS_PER_YEAR \in Nat
        BY <2>1, <3>0
      <4> QED BY <1>3, <4>1
    <3>2. d \in Nat \ {0}
      BY <1>3, <2>1, <2>3
    <3> HIDE DEF n, d
    <3>3. Quotient(n, d) \in Nat
      <4>1. n \in Int
        BY <3>1
      <4> QED BY <3>1, <3>2, <4>1, QuotientBounds
    <3>4. calculateIncentivesAPY(r, e, x) = Quotient(n, d)
      BY DEF calculateIncentivesAPY, n, d, c
    <3> QED BY <3>3, <3>4 DEF e, x
  <2> QED BY <2>2, <2>3
<1>8. yields \in [Kinds -> Nat]
  <2> HIDE DEF yield
  <2> QED BY <1>7
<1>9. /\ APY(m.rates.liquidity) \in Nat /\ APY(m.rates.variable) \in Nat
      /\ APY(m.rates.stable) \in Nat
  BY <1>2, YieldNat
<1>10. formatReserve(r, m, given, t) =
         [totalVariableDebt |-> supplies.v, totalStableDebt |-> supplies.s,
          totalLiquidity |-> supplies.a, utilizationRate |-> utilization,
          incentivesAPY |-> yields, supplyAPY |-> APY(m.rates.liquidity),
          variableBorrowAPY |-> APY(m.rates.variable),
          stableBorrowAPY |-> APY(m.rates.stable)]
  BY DEF formatReserve, supplies, date
<1> HIDE DEF yields, utilization
<1> QED BY <1>5, <1>6, <1>8, <1>9, <1>10 DEF ComputedReserve

\* Every page is of its type.
LEMMA Typed ==
  ASSUME IInv, ClockNear, Priced, DepositsCount, Counted
  PROVE  TypeOK
<1>1. /\ now \in 0..MaxTime /\ lag \in Lags /\ transactions \in 0..MaxTransactions
      /\ Listed(market, Reserve) /\ Listed(pool, Reserve)
      /\ Listed(account, UserReserve) /\ Listed(position, UserReserve)
      /\ ahead \in BOOLEAN
  BY DEF IInv, ChainOK, SnapshotsOK, Counted
<1>2. CASE page \in {Blank, Thrown}
  BY <1>1, <1>2 DEF TypeOK
<1>3. CASE page.kind = "shown"
  <2>1. IsShown(page)
    BY <1>3, SummaryTyped
  <2> QED BY <1>1, <1>3, <2>1 DEF TypeOK
<1>4. ASSUME NEW given \in BOOLEAN, page = formatReserves(pool, given, now - lag)
      PROVE  TypeOK
  <2> DEFINE t == now - lag
             list == [r \in DOMAIN pool |-> formatReserve(r, pool[r], given, t)]
  <2>1. page = [kind |-> "list", at |-> t, reserves |-> list]
    BY <1>4 DEF formatReserves
  <2>2. t \in Int /\ DOMAIN pool \subseteq Reserves
    BY SummaryAssumption DEF IInv, ChainOK, SnapshotsOK, Listed
  <2>3. list \in [DOMAIN pool -> ComputedReserve]
    BY ListTyped
  <2>4. Listed(list, ComputedReserve)
    <3>1. DOMAIN list = DOMAIN pool
      OBVIOUS
    <3> HIDE DEF list
    <3> QED BY <2>2, <2>3, <3>1 DEF Listed
  <2> HIDE DEF list, t
  <2>5. page.reserves = list /\ page.kind = "list"
        /\ page \in [kind : {"list"}, at : Int, reserves : {list}]
    BY <2>1, <2>2
  <2>6. IsList(page)
    BY <2>4, <2>5 DEF IsList
  <2> QED BY <1>1, <2>5, <2>6 DEF TypeOK
<1> QED BY <1>2, <1>3, <1>4 DEF IInv, PageOK

\* What the library computes is of its type, no balance, debt or borrowing power
\* negative: behind a clock that is near, for reserves that have a price and
\* deposits that count.
THEOREM TypeCorrect ==
  ASSUME ClockNear, Priced
  PROVE  Spec => [](DepositsCount => TypeOK)
<1>1. IInv /\ Counted => (DepositsCount => TypeOK)
  BY Typed
<1> QED BY <1>1, TypesKept, CountersKeep, PTL

-----------------------------------------------------------------------------
(* Lists: yields against the growth of debts.                              *)

\* The yield of a rate is not below the growth by it, but for the roundings.
LEMMA PowerNearSeries ==
  ASSUME NEW s \in Nat, NEW n \in Nat \ {0}, n = SECONDS_PER_YEAR
  PROVE  /\ Roundings(s) \in Nat
         /\ binomialApproximatedRayPow(s, n) <= rayPow(RAY + s, n) + Roundings(s)
<1> DEFINE R == RAY
           a == rayPow(RAY + s, n)
           b == binomialApproximatedRayPow(s, n)
           p == n * (n - 1)
           q == n * (n - 1) * (n - 2)
           D == 12 * (R * R)
           N == 12 * n * (R * R) + p * (3 * (R * R) + 12 * R * s)
                  + q * (R * R + R * s + 6 * (s * s))
<1>1. R \in Nat /\ R > 0
  BY RayAssumption
<1>2. p \in Nat /\ q \in Nat
  <2> DEFINE one == 1
  <2>1. one \in Nat /\ n \in Nat
    OBVIOUS
  <2> HIDE DEF one
  <2>2. /\ n * (n - 1) * (one * one) \in Nat
        /\ n * (n - 1) * (n - 2) * (one * one * one) \in Nat
    BY <2>1, TermsNat
  <2>3. one = 1
    BY DEF one
  <2>4. p \in Int /\ q \in Int
    OBVIOUS
  <2> HIDE DEF p, q
  <2>5. p * (1 * 1) = p /\ q * (1 * 1 * 1) = q
    BY ONLY <2>4
  <2> QED BY <2>2, <2>3, <2>5 DEF p, q
<1>3. a \in Nat /\ b \in Nat /\ a >= R
  <2>1. n \in Nat /\ n <= n /\ RAY + s \in Nat /\ RAY + s >= RAY
    BY <1>1
  <2> QED BY <2>1, RayPowAtLeast, BinomialMonotone
<1>4. D \in Nat \ {0} /\ N \in Nat
  <2> HIDE DEF R, p, q
  <2>1. \A x, y \in Nat : x * y \in Nat
    OBVIOUS
  <2>2. R * R \in Nat /\ R * R > 0 /\ s * s \in Nat /\ R * s \in Nat /\ n * (R * R) \in Nat
    BY ONLY <1>1, s \in Nat, n \in Nat \ {0}
  <2> DEFINE x == 3 * (R * R) + 12 * R * s
             y == R * R + R * s + 6 * (s * s)
  <2>3. x \in Nat /\ y \in Nat
    BY ONLY <1>1, <2>2, s \in Nat
  <2> HIDE DEF x, y
  <2>4. p * x \in Nat /\ q * y \in Nat
    BY ONLY <1>2, <2>1, <2>3
  <2>5. 12 * n * (R * R) \in Nat
    BY ONLY <1>1, <2>2, n \in Nat \ {0}
  <2> QED BY <2>2, <2>4, <2>5 DEF x, y
<1>5. Roundings(s) = N \div D
  BY DEF Roundings
<1>6. Roundings(s) \in Nat
  <2> HIDE DEF N, D
  <2> QED BY <1>4, <1>5, DivNat
<1>7. CASE s = 0
  <2>1. b = R
    <3>1. rayMul(0, 0) = 0
      BY RayAssumption, HalfRay DEF rayMul, DivDown
    <3>2. DivDown(0, 2) = 0 /\ DivDown(0, 6) = 0
      BY DEF DivDown
    <3> QED BY <1>7, <3>1, <3>2, RayAssumption DEF binomialApproximatedRayPow
  <2> HIDE DEF a, b, R
  <2>2. b <= a + Roundings(s)
    BY <1>1, <1>3, <1>6, <2>1
  <2> QED BY <1>6, <2>2 DEF a, b
<1>8. CASE s # 0
  <2> DEFINE u == s - 1
  <2>1. u \in Nat /\ s = u + 1
    BY <1>8
  <2> HIDE DEF u
  <2>2. Above(a, u, n)
    <3>1. rayPow(RAY + u + 1, n) \in Nat /\ Above(rayPow(RAY + u + 1, n), u, n)
      BY <2>1, RayPowAboveSeries
    <3>2. RAY + u + 1 = RAY + s
      BY <1>1, <2>1
    <3> QED BY <3>1, <3>2
  <2>3. 6 * (R * R) * a >= 6 * (R * R * R) + 6 * (R * R) * (n * u) + 3 * R * (p * (u * u))
                             + q * (u * u * u) + 6 * (R * R)
    BY <2>2 DEF Above, Series
  <2>4. 12 * (R * R) * (b - R) <= 12 * (R * R) * (n * s) + 3 * R * (p * (2 * (s * s) + R))
                                    + q * (2 * (s * s * s) + R * s + R * R)
    BY CompoundedBelowSeries
  <2>5. D * b <= D * a + N
    <3> HIDE DEF R, a, b, p, q
    <3> DEFINE A == 6 * (R * R) * a
               B == 12 * (R * R) * (b - R)
               X == 6 * (R * R * R) + 6 * (R * R) * (n * u) + 3 * R * (p * (u * u))
                             + q * (u * u * u) + 6 * (R * R)
               Y == 12 * (R * R) * (n * s) + 3 * R * (p * (2 * (s * s) + R))
                                    + q * (2 * (s * s * s) + R * s + R * R)
               rest == 6 * R * p + 12 * (R * R) + q * (6 * s - 2)
    <3>1. A \in Int /\ B \in Int /\ X \in Int /\ Y \in Int /\ N \in Int /\ rest \in Int
      BY ONLY <1>1, <1>2, <1>3, <2>1, n \in Nat \ {0}, s \in Nat
    <3>2. D * b = B + 12 * (R * R * R) /\ D * a = 2 * A
      BY ONLY <1>1, <1>3
    <3>3. Y + 12 * (R * R * R) + rest = 2 * X + N
      BY ONLY <1>1, <1>2, <2>1, n \in Nat \ {0}, s \in Nat
    <3>4. rest \in Nat
      <4>1. \A x, y \in Nat : x * y \in Nat
        OBVIOUS
      <4>2. 6 * s - 2 \in Nat /\ 6 * R \in Nat /\ 12 * (R * R) \in Nat
        BY ONLY <1>1, <2>1
      <4> DEFINE x == 6 * s - 2
                 y == 6 * R
                 z == 12 * (R * R)
      <4> HIDE DEF x, y, z
      <4>3. q * x \in Nat /\ y * p \in Nat
        BY ONLY <1>2, <4>1, <4>2 DEF x, y
      <4> QED BY <4>2, <4>3 DEF x, y, z
    <3>5. A >= X /\ B <= Y
      BY <2>3, <2>4
    <3>6. 12 * (R * R * R) \in Int
      BY ONLY <1>1
    <3> DEFINE c == 12 * (R * R * R)
               f == D * a
               g == D * b
    <3>7. f \in Int /\ g \in Int
      BY <1>3, <1>4
    <3> HIDE DEF A, B, X, Y, N, c, rest, f, g
    <3>8. g <= f + N
      BY ONLY <3>1, <3>2, <3>3, <3>4, <3>5, <3>6, <3>7 DEF c, f, g
    <3> QED BY <3>8 DEF f, g
  <2> HIDE DEF D, N, a, b
  <2> DEFINE t == N \div D
  <2>6. t \in Int /\ N < D * t + D
    BY <1>4, DivBounds
  <2> HIDE DEF t
  <2>7. D * (b - a - t) < D
    <3>1. D * (b - a - t) = D * b - D * a - D * t
      BY ONLY <1>3, <1>4, <2>6
    <3>2. D * b \in Int /\ D * a \in Int /\ D * t \in Int
      BY ONLY <1>3, <1>4, <2>6
    <3> DEFINE x == D * b
               y == D * a
               z == D * t
    <3> HIDE DEF x, y, z
    <3>3. x - y - z < D
      BY ONLY <1>4, <2>5, <2>6, <3>2 DEF x, y, z
    <3> QED BY <3>1, <3>3 DEF x, y, z
  <2>8. b <= a + t
    <3>1. \A k \in Int : D * k < D => k < 1
      BY ONLY <1>4
    <3>2. b - a - t \in Int
      BY <1>3, <2>6
    <3>3. b - a - t < 1
      BY <2>7, <3>1, <3>2
    <3> QED BY ONLY <1>3, <2>6, <3>3
  <2> QED BY <1>5, <1>6, <2>8 DEF t, a, b
<1> QED BY <1>7, <1>8

\* In a list each reserve's yields are those of the rates the application holds.
LEMMA OnList ==
  ASSUME IInv, NEW r \in InList
  PROVE  /\ r \in DOMAIN pool /\ r \in Reserves /\ page.kind = "list"
         /\ page.at = now - lag
         /\ \E given \in BOOLEAN : page.reserves[r] = formatReserve(r, pool[r], given, now - lag)
<1>1. page.kind = "list" /\ r \in DOMAIN page.reserves
  BY DEF InList
<1>2. page \notin {Blank, Thrown} /\ page.kind # "shown"
  BY <1>1 DEF Blank, Thrown
<1>3. PICK given \in BOOLEAN : page = formatReserves(pool, given, now - lag)
  BY <1>2 DEF IInv, PageOK
<1> DEFINE list == [x \in DOMAIN pool |-> formatReserve(x, pool[x], given, now - lag)]
<1>4. page = [kind |-> "list", at |-> now - lag, reserves |-> list]
  BY <1>3 DEF formatReserves
<1> HIDE DEF list
<1>5. page.reserves = list /\ page.at = now - lag
  BY <1>4
<1>6. r \in DOMAIN pool
  BY <1>1, <1>5 DEF list
<1>7. list[r] = formatReserve(r, pool[r], given, now - lag)
  BY <1>6 DEF list
<1>8. r \in Reserves
  BY <1>6 DEF IInv, SnapshotsOK, Listed
<1> QED BY <1>1, <1>5, <1>6, <1>7, <1>8

\* In every behaviour the yearly yield of a rate that a list shows, rayPow of its
\* growth per second, is not below what a debt at that rate grows by in a year
\* on the summary, but for the roundings of the two formulas.
THEOREM YieldsCoverDebts == Spec => []YieldCoversDebtGrowth
<1>1. ASSUME NEW rate \in Nat
      PROVE  calculateCompoundedInterest(rate, SECONDS_PER_YEAR, 0) - RAY
               <= APY(rate) + Roundings(rate \div SECONDS_PER_YEAR)
  <2> DEFINE n == SECONDS_PER_YEAR
             s == rate \div n
             b == binomialApproximatedRayPow(s, n)
             a == rayPow(RAY + s, n)
  <2>1. n \in Nat \ {0} /\ n = SECONDS_PER_YEAR /\ RAY \in Nat
    BY PoolAssumption, RayAssumption
  <2>2. s \in Nat /\ DivDown(rate, n) = s
    BY <2>1, DivNat DEF DivDown
  <2>3. TimeDelta(n, 0) = n
    BY <2>1 DEF TimeDelta
  <2>4. calculateCompoundedInterest(rate, n, 0) = b
    BY <2>2, <2>3 DEF calculateCompoundedInterest
  <2>5. APY(rate) = a - RAY
    BY DEF APY
  <2> HIDE DEF n, s, a, b
  <2>6. Roundings(s) \in Nat /\ b <= a + Roundings(s)
    BY <2>1, <2>2, PowerNearSeries DEF a, b
  <2>7. b \in Int /\ a \in Int
    <3>1. n \in Nat /\ n <= n /\ RAY + s \in Nat /\ RAY + s >= RAY
      BY <2>1, <2>2
    <3> QED BY <2>2, <3>1, BinomialMonotone, RayPowAtLeast DEF a, b
  <2>8. b - RAY <= (a - RAY) + Roundings(s)
    BY <2>1, <2>6, <2>7
  <2> QED BY <2>4, <2>5, <2>8 DEF n, s
<1>2. IInv => YieldCoversDebtGrowth
  <2> SUFFICES ASSUME IInv, NEW r \in InList
               PROVE  LET Growth(rate) ==
                            calculateCompoundedInterest(rate, SECONDS_PER_YEAR, 0) - RAY
                          Covers(yield, rate) ==
                            Growth(rate) <= yield + Roundings(rate \div SECONDS_PER_YEAR)
                      IN  /\ Covers(page.reserves[r].variableBorrowAPY, pool[r].rates.variable)
                          /\ Covers(page.reserves[r].stableBorrowAPY, pool[r].rates.stable)
    BY DEF YieldCoversDebtGrowth
  <2>1. /\ page.reserves[r].variableBorrowAPY = APY(pool[r].rates.variable)
        /\ page.reserves[r].stableBorrowAPY = APY(pool[r].rates.stable)
    <3>1. PICK given \in BOOLEAN :
            page.reserves[r] = formatReserve(r, pool[r], given, now - lag)
      BY OnList
    <3>2. \A m, t : /\ formatReserve(r, m, given, t).variableBorrowAPY = APY(m.rates.variable)
                    /\ formatReserve(r, m, given, t).stableBorrowAPY = APY(m.rates.stable)
      BY DEF formatReserve
    <3> QED BY <3>1, <3>2
  <2>2. pool[r].rates.variable \in Nat /\ pool[r].rates.stable \in Nat
    <3>1. r \in DOMAIN pool /\ r \in Reserves
      BY OnList
    <3>2. pool[r].rates \in Rates[r]
      BY <3>1 DEF IInv, SnapshotsOK, ReserveOK
    <3> QED BY <3>1, <3>2, SummaryAssumption
  <2> QED BY <1>1, <2>1, <2>2
<1> QED BY <1>2, TypesKept, PTL

-----------------------------------------------------------------------------
(* Lists: no yield, and no rewards.                                        *)

\* Shared by more, each gets no more.
LEMMA DivShrinks ==
  ASSUME NEW n \in Nat, NEW d \in Nat \ {0}, NEW e \in Nat \ {0}, d <= e
  PROVE  n \div d \in Nat /\ n \div e \in Nat /\ n \div e <= n \div d
<1> DEFINE p == n \div d
           q == n \div e
<1>1. n \in Int /\ p \in Nat /\ q \in Nat
  BY DivNat
<1>2. e * q <= n /\ n < d * p + d
  BY <1>1, DivBounds
<1> HIDE DEF p, q
<1>3. d * q <= e * q
  BY <1>1
<1>4. d * (q - p) < d
  BY <1>1, <1>2, <1>3
<1>5. \A k \in Int : d * k < d => k < 1
  OBVIOUS
<1>6. q <= p
  BY <1>1, <1>4, <1>5
<1> QED BY <1>1, <1>6 DEF p, q

\* Where nothing is emitted, or no longer, a second adds nothing to the rewards,
\* and less than nothing if more share the emission then.
LEMMA RewardsStay ==
  ASSUME NEW balance \in Nat, NEW index \in Int, NEW userIndex \in Int,
         NEW last \in Nat, NEW emission \in Nat, NEW supply \in Nat \ {0},
         NEW later \in Nat \ {0}, supply <= later, NEW t \in Int,
         emission = 0 \/ EmissionEnd <= t
  PROVE  calculateRewards(balance, index, userIndex, last, emission, later, t + 1)
           <= calculateRewards(balance, index, userIndex, last, emission, supply, t)
<1> DEFINE until(x) == IF x > EmissionEnd THEN EmissionEnd ELSE x
           n(x) == emission * (until(x) - last) * RewardScale
           current(x, d) == IF last = x \/ last >= EmissionEnd THEN index
                            ELSE DivDown(n(x), d) + index
           before == current(t, supply)
           after == current(t + 1, later)
<1>0. EmissionEnd \in Nat /\ RewardScale \in Nat \ {0}
  BY SummaryAssumption
<1>1. before \in Int /\ after \in Int /\ after <= before
  <2>1. CASE last >= EmissionEnd
    BY <2>1
  <2>2. CASE last < EmissionEnd /\ emission = 0
    <3>1. until(t) \in Int /\ until(t + 1) \in Int
      BY <1>0
    <3>2. n(t) = 0 /\ n(t + 1) = 0
      <4> HIDE DEF until
      <4>1. 0 * (until(t) - last) * RewardScale = 0 /\ 0 * (until(t + 1) - last) * RewardScale = 0
        BY <1>0, <3>1
      <4> QED BY <2>2, <4>1
    <3>3. DivDown(0, supply) = 0 /\ DivDown(0, later) = 0
      <4>1. supply * 0 = 0 /\ later * 0 = 0
        OBVIOUS
      <4>2. 0 \div supply = 0 /\ 0 \div later = 0
        OBVIOUS
      <4> QED BY <4>2 DEF DivDown
    <3> HIDE DEF n
    <3>4. before = index /\ after = index
      BY <3>2, <3>3
    <3> QED BY <3>4
  <2>3. CASE last < EmissionEnd /\ EmissionEnd <= t
    <3> DEFINE d == EmissionEnd - last
               g == emission * d * RewardScale
    <3>1. until(t) - last = d /\ until(t + 1) - last = d /\ last # t /\ last # t + 1
      BY <1>0, <2>3
    <3>2. d \in Nat
      BY <1>0, <2>3
    <3>3. g \in Nat
      <4> HIDE DEF d
      <4>1. emission * d \in Nat
        BY <3>2
      <4> QED BY <1>0, <4>1
    <3>4. n(t) = g /\ n(t + 1) = g
      BY <3>1
    <3> HIDE DEF g, n
    <3>5. /\ DivDown(g, supply) \in Nat /\ DivDown(g, later) \in Nat
          /\ DivDown(g, later) <= DivDown(g, supply)
      <4>1. g >= 0 /\ DivDown(g, supply) = g \div supply /\ DivDown(g, later) = g \div later
        BY <3>3 DEF DivDown
      <4> QED BY <3>3, <4>1, DivShrinks
    <3>6. before = DivDown(g, supply) + index /\ after = DivDown(g, later) + index
      <4>1. ~(last = t \/ last >= EmissionEnd) /\ ~(last = t + 1 \/ last >= EmissionEnd)
        BY <1>0, <2>3, <3>1
      <4> QED BY <3>4, <4>1
    <3> HIDE DEF before, after
    <3> QED BY <3>5, <3>6
  <2> QED BY <1>0, <2>1, <2>2, <2>3
<1>2. /\ calculateRewards(balance, index, userIndex, last, emission, supply, t)
           = DivDown(balance * (before - userIndex), RewardScale)
      /\ calculateRewards(balance, index, userIndex, last, emission, later, t + 1)
           = DivDown(balance * (after - userIndex), RewardScale)
  BY DEF calculateRewards
<1> HIDE DEF before, after
<1>3. /\ balance * (after - userIndex) \in Int /\ balance * (before - userIndex) \in Int
      /\ balance * (after - userIndex) <= balance * (before - userIndex)
  BY <1>1
<1>4. DivDown(balance * (after - userIndex), RewardScale)
        <= DivDown(balance * (before - userIndex), RewardScale)
  BY <1>0, <1>3, DivDownMonotone
<1> QED BY <1>2, <1>4

\* The supplies of a reserve grow, and are there at any date if they are at one.
LEMMA SuppliesGrow ==
  ASSUME NEW r \in Reserves, NEW m, NEW s \in Int, NEW t \in Int, s <= t, Accruing(m, s),
         NEW k \in Kinds
  PROVE  /\ calculateSupplies(r, m, s)[k] \in Nat /\ calculateSupplies(r, m, t)[k] \in Nat
         /\ calculateSupplies(r, m, s)[k] <= calculateSupplies(r, m, t)[k]
         /\ calculateSupplies(r, m, s)[k] = 0 <=> calculateSupplies(r, m, t)[k] = 0
<1> DEFINE c == Config[r]
           v == c.totalScaledVariableDebt
           p == c.totalPrincipalStableDebt
           l == c.availableLiquidity
           g(x) == calculateCompoundedInterest(m.rates.variable, x, m.lastUpdateTimestamp)
           h(x) == calculateCompoundedInterest(c.averageStableRate, x, 0)
           w == rayMul(v, m.variableBorrowIndex)
           early == calculateSupplies(r, m, s)
           late == calculateSupplies(r, m, t)
<1>0. /\ v \in Nat /\ p \in Nat /\ l \in Nat /\ c.averageStableRate \in Nat
      /\ c.stableDebtLastUpdateTimestamp = 0
  BY SummaryAssumption DEF Factors
<1>1. /\ m.lastUpdateTimestamp \in Int /\ 0 \in Int /\ m.lastUpdateTimestamp <= s
      /\ 0 <= s /\ m.rates.variable \in Nat /\ m.variableBorrowIndex \in Nat
  BY DEF Accruing
<1>2. /\ g(s) \in Nat /\ g(t) \in Nat /\ g(s) <= g(t)
  <2>1. g(s) \in Nat /\ g(s) <= g(t)
    BY <1>1, CompoundedMonotone
  <2>2. m.lastUpdateTimestamp <= t /\ t <= t
    BY <1>1
  <2>3. g(t) \in Nat
    BY <1>1, <2>2, CompoundedMonotone
  <2> QED BY <2>1, <2>3
<1>3. /\ h(s) \in Nat /\ h(t) \in Nat /\ h(s) <= h(t)
  <2> DEFINE none == 0
  <2>1. none \in Int /\ none <= s /\ none <= t /\ t <= t
    BY <1>1
  <2> HIDE DEF none
  <2>2. /\ calculateCompoundedInterest(c.averageStableRate, s, none) \in Nat
        /\ calculateCompoundedInterest(c.averageStableRate, s, none)
             <= calculateCompoundedInterest(c.averageStableRate, t, none)
    BY <1>0, <2>1, CompoundedMonotone
  <2>3. calculateCompoundedInterest(c.averageStableRate, t, none) \in Nat
    BY <1>0, <2>1, CompoundedMonotone
  <2> QED BY <2>2, <2>3 DEF none
<1>4. w \in Nat
  BY <1>0, <1>1, RayMulNat
<1>5. /\ early.v = rayMul(w, g(s)) /\ late.v = rayMul(w, g(t))
      /\ early.s = rayMul(p, h(s)) /\ late.s = rayMul(p, h(t))
      /\ early.a = early.v + early.s + l /\ late.a = late.v + late.s + l
  BY <1>0 DEF calculateSupplies
<1> HIDE DEF c, v, p, l, g, h, w, early, late
<1>6. /\ early.v \in Nat /\ late.v \in Nat /\ early.v <= late.v
  <2>1. w <= w
    BY <1>4
  <2> QED BY <1>2, <1>4, <1>5, <2>1, RayMulNat, RayMulMonotone
<1>7. /\ early.s \in Nat /\ late.s \in Nat /\ early.s <= late.s
  <2>1. p <= p
    BY <1>0
  <2> QED BY <1>0, <1>3, <1>5, <2>1, RayMulNat, RayMulMonotone
<1>8. early.a \in Nat /\ late.a \in Nat /\ early.a <= late.a
  BY <1>0, <1>5, <1>6, <1>7
<1>9. (early.v = 0 <=> late.v = 0) /\ (early.s = 0 <=> late.s = 0)
  <2>1. Accruing(m, s) /\ Accruing(m, t)
    BY DEF Accruing
  <2> QED BY <2>1, SameSupplies DEF early, late
<1>10. early.a = 0 <=> late.a = 0
  <2>1. early.a = 0 <=> early.v = 0 /\ early.s = 0 /\ l = 0
    BY <1>0, <1>5, <1>6, <1>7
  <2>2. late.a = 0 <=> late.v = 0 /\ late.s = 0 /\ l = 0
    BY <1>0, <1>5, <1>6, <1>7
  <2> QED BY <1>9, <2>1, <2>2
<1> QED BY <1>6, <1>7, <1>8, <1>9, <1>10 DEF Kinds, early, late

\* A list is not older than its reserves, and what is deposited in one of them is
\* at least one unit of the scaled supply, by which calculateRewards divides.
ListCounts ==
  page.kind = "list" =>
    \A r \in DOMAIN pool :
      /\ pool[r].lastUpdateTimestamp <= page.at
      /\ calculateSupplies(r, pool[r], page.at).a # 0
           => RewardSupply(r, pool[r], page.at).a # 0

\* A reserve of a list accrues from its last update, which the list is not before.
LEMMA ListAccrues ==
  ASSUME IInv, ListCounts, NEW r \in InList
  PROVE  /\ r \in DOMAIN pool /\ r \in Reserves /\ page.at \in Int
         /\ pool[r].lastUpdateTimestamp \in Nat /\ pool[r].lastUpdateTimestamp <= page.at
         /\ Accruing(pool[r], pool[r].lastUpdateTimestamp) /\ Accruing(pool[r], page.at)
         /\ pool[r] \in Reserve /\ pool[r].liquidityIndex \in Nat \ {0}
<1> DEFINE m == pool[r]
<1>1. r \in DOMAIN pool /\ r \in Reserves /\ page.kind = "list" /\ page.at = now - lag
  BY OnList
<1>2. ReserveOK(r, m, now) /\ now \in Nat /\ lag \in Nat
  BY <1>1, SummaryAssumption DEF IInv, ChainOK, SnapshotsOK
<1>3. m.lastUpdateTimestamp <= page.at
  BY <1>1 DEF ListCounts
<1>4. /\ m \in Reserve /\ m.liquidityIndex \in Nat /\ m.liquidityIndex >= RAY
      /\ m.variableBorrowIndex \in Nat /\ m.variableBorrowIndex >= RAY
      /\ m.lastUpdateTimestamp \in Nat
      /\ m.incentivesIndex \in [Kinds -> Nat] /\ m.incentivesLast \in [Kinds -> Nat]
  BY <1>2 DEF ReserveOK, Reserve
<1>5. m.rates.liquidity \in Nat /\ m.rates.variable \in Nat /\ m.rates.stable \in Nat
  BY <1>1, <1>2, SummaryAssumption DEF ReserveOK
<1>6. \A k \in {"v", "s"} : m.incentivesIndex[k] \in Int /\ m.incentivesLast[k] \in Nat
  BY <1>4 DEF Kinds
<1>7. m.lastUpdateTimestamp <= m.lastUpdateTimestamp
  BY <1>4
<1> HIDE DEF m
<1>8. Accruing(m, m.lastUpdateTimestamp) /\ Accruing(m, page.at)
  BY <1>3, <1>4, <1>5, <1>6, <1>7 DEF Accruing
<1> QED BY <1>1, <1>2, <1>3, <1>4, <1>8, RayAssumption DEF m

\* A list shows no yield of a token that is shared: its emission has ended or is
\* nothing, or the yield is rounded away.
LEMMA NoYield ==
  ASSUME IInv, ListCounts, Priced, NEW r \in InList, NEW k \in Kinds,
         page.reserves[r].incentivesAPY[k] = 0, ~BelowLastDecimal(r, k),
         calculateSupplies(r, pool[r], page.at)[k] # 0
  PROVE  Config[r].emissionPerSecond[k] = 0 \/ EmissionEnd <= page.at
<1> DEFINE m == pool[r]
           t == page.at
           last == m.lastUpdateTimestamp
           c == Config[r]
           e == c.emissionPerSecond[k]
<1>1. PICK given \in BOOLEAN : page.reserves[r] = formatReserve(r, m, given, t)
  BY OnList
<1>2. /\ r \in Reserves /\ t \in Int /\ last \in Nat /\ last <= t
      /\ Accruing(m, last) /\ Accruing(m, t)
  BY ListAccrues
<1>3. /\ e \in Nat /\ c.scale \in Nat \ {0} /\ c.price \in Nat \ {0}
      /\ SECONDS_PER_YEAR \in Nat \ {0} /\ Dp \in Nat \ {0} /\ EmissionEnd \in Nat
  BY <1>2, SummaryAssumption, PoolAssumption DEF Factors, Priced
<1> DEFINE date == IF given /\ t # 0 THEN t ELSE last
           supplies == calculateSupplies(r, m, date)
           n == e * SECONDS_PER_YEAR * c.scale
           d == supplies[k] * c.price
<1>4. supplies[k] \in Nat \ {0}
  <2>1. last \in Int /\ t <= t
    BY <1>2
  <2>2. /\ calculateSupplies(r, m, last)[k] \in Nat
        /\ calculateSupplies(r, m, t)[k] \in Nat
        /\ calculateSupplies(r, m, last)[k] = 0 <=> calculateSupplies(r, m, t)[k] = 0
    <3> HIDE DEF m, t, last
    <3> QED BY <1>2, <2>1, SuppliesGrow
  <2>3. date = t \/ date = last
    OBVIOUS
  <2> QED BY <2>2, <2>3
<1>5. /\ page.reserves[r].incentivesAPY[k]
           = IF ~hasEmission(t) \/ supplies[k] = 0 THEN 0
             ELSE calculateIncentivesAPY(r, e, supplies[k])
      /\ Supply(page.reserves[r])[k] = supplies[k]
  <2> HIDE DEF t, m
  <2>1. /\ formatReserve(r, m, given, t).incentivesAPY
             = [j \in Kinds |->
                  IF ~hasEmission(t) \/ supplies[j] = 0 THEN 0
                  ELSE calculateIncentivesAPY(r, Config[r].emissionPerSecond[j], supplies[j])]
        /\ formatReserve(r, m, given, t).totalLiquidity = supplies.a
        /\ formatReserve(r, m, given, t).totalVariableDebt = supplies.v
        /\ formatReserve(r, m, given, t).totalStableDebt = supplies.s
    BY DEF formatReserve
  <2> HIDE DEF supplies
  <2>2. Supply(page.reserves[r])[k] = supplies[k]
    BY <1>1, <2>1 DEF Supply, Kinds
  <2> QED BY <1>1, <2>1, <2>2
<1>6. CASE ~hasEmission(t)
  BY <1>2, <1>3, <1>6 DEF hasEmission
<1>7. CASE hasEmission(t)
  <2>1. Quotient(n, d) = 0
    <3>1. page.reserves[r].incentivesAPY[k] = calculateIncentivesAPY(r, e, supplies[k])
      BY <1>4, <1>5, <1>7
    <3> QED BY <3>1 DEF calculateIncentivesAPY
  <2> HIDE DEF supplies, e, c
  <2>2. n \in Nat /\ d \in Nat \ {0}
    <3>1. e * SECONDS_PER_YEAR \in Nat
      BY <1>3
    <3> QED BY <1>3, <1>4, <3>1
  <2>3. 2 * n * Dp < d
    <3> HIDE DEF n, d
    <3> DEFINE w == n * Dp
    <3>1. w \in Nat /\ 2 * n * Dp = 2 * w
      BY <1>3, <2>2
    <3> HIDE DEF w
    <3>2. (2 * w + d) \div (2 * d) = 0
      BY <2>1, <3>1 DEF Quotient
    <3>3. 2 * w + d \in Int /\ 2 * d \in Nat \ {0}
      BY <2>2, <3>1
    <3>4. 2 * w + d < (2 * d) * ((2 * w + d) \div (2 * d)) + 2 * d
      BY <3>3, DivBounds
    <3>5. 2 * w + d < 2 * d
      BY <2>2, <3>2, <3>4
    <3> QED BY <2>2, <3>1, <3>5
  <2>4. ~(n > 0)
    <3>1. BelowLastDecimal(r, k) <=> /\ hasEmission(t) /\ n > 0
                                     /\ 2 * n * Dp < Supply(page.reserves[r])[k] * c.price
      BY DEF BelowLastDecimal, e, c
    <3> QED BY <1>5, <1>7, <2>3, <3>1
  <2>5. n = 0
    BY <2>2, <2>4
  <2>6. e = 0
    <3>1. \A x, y \in Nat : x * y = 0 => x = 0 \/ y = 0
      OBVIOUS
    <3>2. e * SECONDS_PER_YEAR \in Nat
      BY <1>3
    <3>3. e * SECONDS_PER_YEAR = 0
      BY <1>3, <2>5, <3>1, <3>2
    <3> QED BY <1>3, <3>1, <3>3
  <2> QED BY <2>6 DEF e, c
<1> QED BY <1>6, <1>7

\* calculateRewards and a list's hasEmission agree: while a list that is not older
\* than its reserves shows no yield of a token, and not because it is rounded away,
\* the user's rewards of that token do not grow.
THEOREM RewardsNeedYield ==
  ASSUME Priced
  PROVE  Spec => [](ListCounts => NoYieldNoRewards)
<1>1. IInv => (ListCounts => NoYieldNoRewards)
  <2> SUFFICES ASSUME IInv, ListCounts, NEW r \in InList, r \in DOMAIN position,
                      NEW k \in Kinds, page.reserves[r].incentivesAPY[k] = 0,
                      ~BelowLastDecimal(r, k)
               PROVE  computeUserReserveData(r, pool[r], position[r], page.at + 1).rewards[k]
                        <= computeUserReserveData(r, pool[r], position[r], page.at).rewards[k]
    BY DEF NoYieldNoRewards
  <2> DEFINE m == pool[r]
             u == position[r]
             t == page.at
             supply(x) == calculateSupplies(r, m, x)
             shared(x) == RewardSupply(r, m, x)
             held == Held(u.balances)[k]
             index == m.incentivesIndex[k]
             userIndex == u.incentivesUserIndex[k]
             last == m.incentivesLast[k]
             emission == Config[r].emissionPerSecond[k]
             reward(x) == calculateRewards(held, index, userIndex, last, emission,
                                           shared(x)[k], x)
  <2>1. /\ r \in Reserves /\ r \in DOMAIN pool /\ t \in Int /\ t + 1 \in Int /\ t <= t + 1
        /\ Accruing(m, t) /\ m \in Reserve /\ m.liquidityIndex \in Nat \ {0}
    BY ListAccrues
  <2>2. \A x : computeUserReserveData(r, m, u, x).rewards[k]
                 = IF supply(x)[k] = 0 THEN 0 ELSE reward(x)
    BY DEF computeUserReserveData
  <2>3. \A j \in Kinds : /\ supply(t)[j] \in Nat /\ supply(t + 1)[j] \in Nat
                         /\ supply(t)[j] <= supply(t + 1)[j]
                         /\ supply(t)[j] = 0 <=> supply(t + 1)[j] = 0
    <3> DEFINE s == t + 1
    <3>1. s \in Int /\ t <= s
      BY <2>1
    <3> TAKE j \in Kinds
    <3>2. /\ calculateSupplies(r, m, t)[j] \in Nat /\ calculateSupplies(r, m, s)[j] \in Nat
          /\ calculateSupplies(r, m, t)[j] <= calculateSupplies(r, m, s)[j]
          /\ calculateSupplies(r, m, t)[j] = 0 <=> calculateSupplies(r, m, s)[j] = 0
      <4> HIDE DEF m, t, s
      <4> QED BY <2>1, <3>1, SuppliesGrow
    <3> QED BY <3>2
  <2>4. CASE supply(t)[k] = 0
    <3>1. supply(t + 1)[k] = 0
      BY <2>3, <2>4
    <3> HIDE DEF supply, reward
    <3>2. /\ computeUserReserveData(r, m, u, t).rewards[k] = 0
          /\ computeUserReserveData(r, m, u, t + 1).rewards[k] = 0
      BY <2>2, <2>4, <3>1
    <3> QED BY <3>2
  <2>5. CASE supply(t)[k] # 0
    <3>1. supply(t + 1)[k] # 0
      BY <2>3, <2>5
    <3>2. emission = 0 \/ EmissionEnd <= t
      BY <2>5, NoYield
    <3>3. /\ held \in Nat /\ index \in Int /\ userIndex \in Int /\ last \in Nat
          /\ emission \in Nat
      <4>1. UserReserveOK(r, u, now)
        BY DEF IInv, SnapshotsOK
      <4>2. u.balances.aToken \in Nat /\ u.balances.variable \in Nat /\ u.balances.stable \in Nat
        BY <2>1, <4>1, SummaryAssumption DEF UserReserveOK
      <4>3. held \in Nat
        BY <4>2 DEF Held, Kinds
      <4>4. index \in Nat /\ last \in Nat /\ userIndex \in Nat
        BY <2>1, <4>1 DEF Reserve, UserReserveOK, UserReserve
      <4>5. emission \in Nat
        BY <2>1, SummaryAssumption DEF Factors
      <4> QED BY <4>3, <4>4, <4>5
    <3>4. /\ shared(t)[k] \in Nat \ {0} /\ shared(t + 1)[k] \in Nat \ {0}
          /\ shared(t)[k] <= shared(t + 1)[k]
      <4>1. \A x : /\ shared(x).a = rayDiv(supply(x).a, m.liquidityIndex)
                   /\ shared(x).v = Config[r].totalScaledVariableDebt
                   /\ shared(x).s = Config[r].totalPrincipalStableDebt
        BY DEF RewardSupply
      <4>2. CASE k = "a"
        <5> DEFINE p == supply(t).a
                   q == supply(t + 1).a
                   i == m.liquidityIndex
        <5>1. p \in Nat /\ q \in Nat /\ p <= q /\ q <= q
          BY <2>3 DEF Kinds
        <5>2. shared(t).a # 0
          BY <2>1, <2>5, <4>2, OnList DEF ListCounts
        <5> HIDE DEF supply, shared, p, q, i
        <5>3. i \in Nat \ {0}
          BY <2>1 DEF i
        <5>4. rayDiv(p, i) \in Nat /\ rayDiv(p, i) <= rayDiv(q, i) /\ rayDiv(q, i) \in Nat
          BY <5>1, <5>3, RayDivMonotone
        <5>5. shared(t).a = rayDiv(p, i) /\ shared(t + 1).a = rayDiv(q, i)
          BY <4>1 DEF p, q, i
        <5>6. /\ shared(t).a \in Nat \ {0} /\ shared(t + 1).a \in Nat \ {0}
              /\ shared(t).a <= shared(t + 1).a
          BY <5>2, <5>4, <5>5
        <5> QED BY <4>2, <5>6
      <4>3. CASE k = "v" \/ k = "s"
        <5>1. /\ Config[r].totalScaledVariableDebt \in Nat
              /\ Config[r].totalPrincipalStableDebt \in Nat
          BY <2>1, SummaryAssumption DEF Factors
        <5>2. /\ supply(t).v = 0 <=> Config[r].totalScaledVariableDebt = 0
              /\ supply(t).s = 0 <=> Config[r].totalPrincipalStableDebt = 0
          BY <2>1, SameSupplies
        <5> HIDE DEF supply, shared
        <5> QED BY <2>5, <4>1, <4>3, <5>1, <5>2
      <4> QED BY <4>2, <4>3 DEF Kinds
    <3> HIDE DEF supply, shared, held, index, userIndex, last, emission
    <3>5. reward(t + 1) <= reward(t)
      BY <2>1, <3>2, <3>3, <3>4, RewardsStay
    <3> HIDE DEF reward
    <3>6. /\ computeUserReserveData(r, m, u, t).rewards[k] = reward(t)
          /\ computeUserReserveData(r, m, u, t + 1).rewards[k] = reward(t + 1)
      BY <2>2, <2>5, <3>1
    <3> QED BY <3>5, <3>6
  <2> QED BY <2>4, <2>5
<1> QED BY <1>1, TypesKept, PTL
=============================================================================
