---------------------------- MODULE MCV1Summary -----------------------------
(***************************************************************************)
(* A reserve two users deposit to and one borrows from, and a second one   *)
(* that only serves as collateral.                                         *)
(***************************************************************************)
EXTENDS V1Summary

CONSTANTS dai, weth, ann, bob

MCReserves == {dai, weth}
MCUsers == {ann, bob}

MCStrategy ==
  [price |-> 3, scale |-> 2, ltv |-> 5, threshold |-> 6, optimal |-> 80, base |-> 4,
   variableSlope1 |-> 40, variableSlope2 |-> 200, stableSlope1 |-> 20,
   stableSlope2 |-> 120, marketStable |-> 12, averageStable |-> 30]

MCConfig == (dai :> MCStrategy)
            @@ (weth :> [MCStrategy EXCEPT !.price = 1, !.scale = 1, !.ltv = 7,
                                           !.threshold = 8])

\* Below the optimum, and above.
MCTotals ==
  (dai :> {[liquidity |-> 40, stable |-> 4, variable |-> 12],
           [liquidity |-> 40, stable |-> 6, variable |-> 30]})
  @@ (weth :> {[liquidity |-> 50, stable |-> 0, variable |-> 10]})

MCOpening == [u \in MCUsers |-> (dai :> 6) @@ (weth :> IF u = ann THEN 17 ELSE 0)]
=============================================================================
