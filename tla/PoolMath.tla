------------------------------ MODULE PoolMath ------------------------------
(***************************************************************************)
(* Interest, balances and borrowing power: helpers/pool-math.ts.  Rates    *)
(* are rays per year, indices rays, balances integers of a token's         *)
(* smallest unit, times integers.                                          *)
(***************************************************************************)
EXTENDS RayMath, FiniteSetsExt

CONSTANTS
  SECONDS_PER_YEAR,
  LtvScale,          \* 10^LTV_PRECISION
  Dp                 \* 10^20: a plain BigNumber divides to 20 decimal places

ASSUME PoolAssumption ==
  /\ SECONDS_PER_YEAR \in Nat \ {0}
  /\ LtvScale \in Nat \ {0} /\ Dp \in Nat \ {0}

\* Mutant: the two dates are switched.
TimeDeltaSwitched(currentTimestamp, lastUpdateTimestamp) ==
  lastUpdateTimestamp - currentTimestamp

TimeDelta(currentTimestamp, lastUpdateTimestamp) ==
  currentTimestamp - lastUpdateTimestamp

calculateCompoundedInterest(rate, currentTimestamp, lastUpdateTimestamp) ==
  binomialApproximatedRayPow(DivDown(rate, SECONDS_PER_YEAR),
                             TimeDelta(currentTimestamp, lastUpdateTimestamp))

calculateLinearInterest(rate, currentTimestamp, lastUpdateTimestamp) ==
  rayMul(rate, rayDiv(wadToRay(TimeDelta(currentTimestamp, lastUpdateTimestamp)),
                      wadToRay(SECONDS_PER_YEAR))) + RAY

getReserveNormalizedIncome(rate, index, lastUpdateTimestamp, currentTimestamp) ==
  IF rate = 0 THEN index
  ELSE rayMul(calculateLinearInterest(rate, currentTimestamp,
                                      lastUpdateTimestamp), index)

\* A balance is brought to rays, multiplied there, and rounded back.
Grown(balance, interest) == rayToWad(rayMul(wadToRay(balance), interest))

getLinearBalance(balance, index, rate, lastUpdateTimestamp, currentTimestamp) ==
  Grown(balance, getReserveNormalizedIncome(rate, index, lastUpdateTimestamp,
                                            currentTimestamp))

getCompoundedBalance(balance, index, rate, lastUpdateTimestamp, currentTimestamp) ==
  IF balance = 0 THEN 0
  ELSE Grown(balance, rayMul(calculateCompoundedInterest(
                               rate, currentTimestamp, lastUpdateTimestamp), index))

getCompoundedStableBalance(balance, rate, lastUpdateTimestamp, currentTimestamp) ==
  IF balance = 0 THEN 0
  ELSE Grown(balance, calculateCompoundedInterest(rate, currentTimestamp,
                                                  lastUpdateTimestamp))

-----------------------------------------------------------------------------
\* The sum of f over S.
Total(f, S) == MapThenSumSet(LAMBDA r : f[r], S)

\* A plain BigNumber quotient, in units of 1 / Dp: halves are rounded up.
Quotient(n, d) == (2 * n * Dp + d) \div (2 * d)

\* In units of 1 / Dp; -1 stands for no debt at all.
calculateHealthFactorFromBalances(collateral, borrows, threshold) ==
  IF borrows = 0 THEN -1 ELSE Quotient(collateral * threshold, LtvScale * borrows)

\* Mutants: what is borrowed already is not subtracted; nor is the result kept
\* from becoming negative.
AvailableOfAll(collateral, borrows, ltv) == DivDown(collateral * ltv, LtvScale)
AvailableUnclamped(collateral, borrows, ltv) ==
  DivDown(collateral * ltv, LtvScale) - borrows

calculateAvailableBorrowsETH(collateral, borrows, ltv) ==
  LET available == DivDown(collateral * ltv, LtvScale) - borrows IN
  IF ltv = 0 \/ available <= 0 THEN 0 ELSE available

\* Mutant: the two dates are switched.
calculateAverageRateSwitched(index0, index1, timestamp0, timestamp1) ==
  IF timestamp0 = timestamp1 THEN [kind |-> IF index0 = index1 THEN "NaN" ELSE "infinite"]
  ELSE [kind |-> "number",
        is |-> Quotient(Quotient(index0, index1) - Dp, (timestamp1 - timestamp0) * Dp)
                 * SECONDS_PER_YEAR]

\* In units of 1 / Dp: the growth of an index between two updates of its
\* reserve.  An index that was not updated in between gives 0 / 0.
calculateAverageRate(index0, index1, timestamp0, timestamp1) ==
  IF timestamp0 = timestamp1 THEN [kind |-> IF index0 = index1 THEN "NaN" ELSE "infinite"]
  ELSE [kind |-> "number",
        is |-> Quotient(Quotient(index1, index0) - Dp, (timestamp1 - timestamp0) * Dp)
                 * SECONDS_PER_YEAR]
=============================================================================
