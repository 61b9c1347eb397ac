------------------------------ MODULE RayMath -------------------------------
(***************************************************************************)
(* Fixed-point arithmetic of helpers/ray-math.ts, on integers: a ray is a  *)
(* number times RAY, a wad one times RAY / WAD_RAY_RATIO.  The BigNumberZD  *)
(* of helpers/bignumber.ts divides to zero decimal places and rounds       *)
(* towards zero, also when the dividend is negative.                       *)
(***************************************************************************)
EXTENDS Integers

CONSTANTS RAY, WAD_RAY_RATIO

\* 10^27 and 10^9: HALF_RAY and half the ratio are exact.
ASSUME RayAssumption ==
  /\ RAY \in Nat /\ RAY > 0 /\ RAY % 2 = 0
  /\ WAD_RAY_RATIO \in Nat /\ WAD_RAY_RATIO > 0 /\ WAD_RAY_RATIO % 2 = 0

DivDown(n, d) == IF n >= 0 THEN n \div d ELSE -((-n) \div d)

HALF_RAY == RAY \div 2

\* Rounded to the nearest, halves up, by adding half the divisor first.
rayMul(a, b) == DivDown(HALF_RAY + a * b, RAY)
rayDiv(a, b) == DivDown(DivDown(b, 2) + a * RAY, b)
wadToRay(a) == a * WAD_RAY_RATIO

\* Mutant: half the ratio is not added.
rayToWadFloor(a) == DivDown(a, WAD_RAY_RATIO)

rayToWad(a) == DivDown(WAD_RAY_RATIO \div 2 + a, WAD_RAY_RATIO)

\* Mutant: the base is not squared from one bit of the exponent to the next.
rayPowUnsquared(a, p) ==
  LET Loop[s \in Nat \X Nat \X Nat] ==
        LET n == s[1]  x == s[2]  z == s[3] IN
        IF n = 0 THEN z ELSE Loop[<<n \div 2, x, IF n % 2 = 0 THEN z ELSE rayMul(z, x)>>]
  IN  Loop[<<p \div 2, rayMul(a, a), IF p % 2 = 0 THEN RAY ELSE a>>]

\* a ^ p, from the lowest bit of p to the highest: what is left of p, the base
\* squared so far and the product so far.
rayPow(a, p) ==
  LET Loop[s \in Nat \X Nat \X Nat] ==
        LET n == s[1]  x == s[2]  z == s[3]
            square == rayMul(x, x)
        IN  IF n = 0 THEN z
            ELSE Loop[<<n \div 2, square, IF n % 2 = 0 THEN z ELSE rayMul(z, square)>>]
  IN  Loop[<<p \div 2, a, IF p % 2 = 0 THEN RAY ELSE a>>]

(***************************************************************************)
(* (1 + a) ^ p to the third term of the binomial series: what compounds    *)
(* every second is cut off after two compoundings.  With a negative p the  *)
(* third term is zero, like with p = 1 and p = 2.                          *)
(***************************************************************************)
binomialApproximatedRayPow(a, p) ==
  LET basePowerTwo == rayMul(a, a)
      basePowerThree == rayMul(basePowerTwo, a)
      expMinusTwo == IF p > 2 THEN p - 2 ELSE 0
  IN  IF p = 0 THEN RAY
      ELSE RAY + p * a
             + DivDown(p * (p - 1) * basePowerTwo, 2)
             + DivDown(p * (p - 1) * expMinusTwo * basePowerThree, 6)
=============================================================================
