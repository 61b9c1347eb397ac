--------------------------- MODULE MCUserSummary ----------------------------
(***************************************************************************)
(* A year of four seconds, rays of two decimals and wads of one less: rates *)
(* and dates at which every rounding of the formulas shows.                *)
(***************************************************************************)
EXTENDS UserSummary

CONSTANTS dai, weth

MCReserves == {dai, weth}

\* One reserve moves; the other, half as dear, only serves as collateral.
MCConfig ==
  (dai :> [price |-> 3, scale |-> 2, ltv |-> 5, threshold |-> 6,
           usageAsCollateralEnabled |-> TRUE, availableLiquidity |-> 9,
           totalScaledVariableDebt |-> 7, totalPrincipalStableDebt |-> 4,
           averageStableRate |-> 40, stableDebtLastUpdateTimestamp |-> 0,
           emissionPerSecond |-> [a |-> 5, v |-> 8, s |-> 3]]) @@
  (weth :> [price |-> 1, scale |-> 1, ltv |-> 7, threshold |-> 8,
            usageAsCollateralEnabled |-> TRUE, availableLiquidity |-> 5,
            totalScaledVariableDebt |-> 0, totalPrincipalStableDebt |-> 0,
            averageStableRate |-> 0, stableDebtLastUpdateTimestamp |-> 0,
            emissionPerSecond |-> [a |-> 0, v |-> 0, s |-> 0]])

MCRates ==
  (dai :> {[liquidity |-> 12, variable |-> 52, stable |-> 40],
           [liquidity |-> 0, variable |-> 120, stable |-> 200]}) @@
  (weth :> {[liquidity |-> 12, variable |-> 0, stable |-> 0]})

MCPositions ==
  (dai :> {[aToken |-> 5, variable |-> 0, stable |-> 0, asCollateral |-> TRUE],
           [aToken |-> 0, variable |-> 3, stable |-> 0, asCollateral |-> FALSE],
           [aToken |-> 7, variable |-> 1, stable |-> 2, asCollateral |-> TRUE]}) @@
  (weth :> {[aToken |-> 11, variable |-> 0, stable |-> 0, asCollateral |-> TRUE]})
=============================================================================
