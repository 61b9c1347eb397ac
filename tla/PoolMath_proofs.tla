-------------------------- MODULE PoolMath_proofs ---------------------------
(***************************************************************************)
(* What the fixed-point operators return for natural arguments: nothing    *)
(* negative, nothing that shrinks as an argument or the time grows, and a  *)
(* product rounded twice that is the one rounded once or one unit more.    *)
(* How far each rounding goes, and which are undone; what a clock that is  *)
(* behind leaves of an interest; what a total is; that a power of one or   *)
(* more is one or more; and how a power compares with the series that is   *)
(* taken in its place.                                                     *)
(***************************************************************************)
EXTENDS PoolMath, FiniteSetTheorems, WellFoundedInduction, TLAPS

-----------------------------------------------------------------------------
(* Division.                                                               *)

LEMMA DivBounds ==
  ASSUME NEW n \in Int, NEW d \in Nat \ {0}
  PROVE  /\ n \div d \in Int
         /\ d * (n \div d) <= n /\ n < d * (n \div d) + d
OBVIOUS

LEMMA DivUnique ==
  ASSUME NEW n \in Int, NEW d \in Nat \ {0}, NEW q \in Int,
         d * q <= n, n < d * q + d
  PROVE  n \div d = q
<1> DEFINE p == n \div d
<1>1. p \in Int /\ d * p <= n /\ n < d * p + d
  BY DivBounds
<1> HIDE DEF p
<1>2. d * (q - p) < d /\ d * (p - q) < d
  BY <1>1
<1>3. \A k \in Int : d * k < d => k < 1
  OBVIOUS
<1>4. p = q
  BY <1>1, <1>2, <1>3
<1> QED BY <1>4 DEF p

LEMMA DivMonotone ==
  ASSUME NEW n \in Int, NEW m \in Int, n <= m, NEW d \in Nat \ {0}
  PROVE  n \div d <= m \div d
<1> DEFINE p == n \div d
           q == m \div d
<1>1. p \in Int /\ q \in Int /\ d * p <= n /\ m < d * q + d
  BY DivBounds
<1> HIDE DEF p, q
<1>2. d * (p - q) < d
  BY <1>1
<1>3. \A k \in Int : d * k < d => k < 1
  OBVIOUS
<1>4. p <= q
  BY <1>1, <1>2, <1>3
<1> QED BY <1>4 DEF p, q

LEMMA DivNat ==
  ASSUME NEW n \in Nat, NEW d \in Nat \ {0}
  PROVE  n \div d \in Nat
OBVIOUS

\* Rounding towards zero keeps the order, across zero too.
LEMMA DivDownMonotone ==
  ASSUME NEW n \in Int, NEW m \in Int, n <= m, NEW d \in Nat \ {0}
  PROVE  /\ DivDown(n, d) \in Int /\ DivDown(n, d) <= DivDown(m, d)
         /\ n \in Nat => DivDown(n, d) \in Nat /\ DivDown(n, d) = n \div d
<1>1. n \div d \in Int /\ (-n) \div d \in Int /\ m \div d \in Int /\ (-m) \div d \in Int
  BY DivBounds
<1>2. CASE n >= 0
  <2>1. m >= 0 /\ n \in Nat /\ n \div d <= m \div d /\ n \div d \in Nat
    BY <1>2, DivMonotone, DivNat
  <2> QED BY <1>1, <1>2, <2>1 DEF DivDown
<1>3. CASE n < 0 /\ m >= 0
  <2>1. (-n) \div d \in Nat /\ m \div d \in Nat
    BY <1>3, DivNat
  <2> QED BY <1>1, <1>3, <2>1 DEF DivDown
<1>4. CASE n < 0 /\ m < 0
  <2>1. (-m) \div d <= (-n) \div d
    BY <1>4, DivMonotone
  <2> QED BY <1>1, <1>4, <2>1 DEF DivDown
<1> QED BY <1>2, <1>3, <1>4

\* A product of naturals grows with its factors.
LEMMA ProductMonotone ==
  ASSUME NEW a \in Nat, NEW b \in Nat, NEW x \in Nat, NEW y \in Nat,
         a <= x, b <= y
  PROVE  a * b \in Nat /\ x * y \in Nat /\ a * b <= x * y
<1>1. a * b <= a * y /\ a * y <= x * y
  OBVIOUS
<1> QED BY <1>1

-----------------------------------------------------------------------------
(* Products and quotients of rays.                                         *)

LEMMA HalfRay == HALF_RAY \in Nat /\ RAY = 2 * HALF_RAY /\ HALF_RAY > 0
BY RayAssumption DEF HALF_RAY

\* The product of two naturals, in rays.
LEMMA RayMulNat ==
  ASSUME NEW a \in Nat, NEW b \in Nat
  PROVE  /\ rayMul(a, b) \in Nat
         /\ rayMul(a, b) = (HALF_RAY + a * b) \div RAY
<1> DEFINE p == a * b
<1>1. p \in Nat
  OBVIOUS
<1> HIDE DEF p
<1>2. HALF_RAY + p >= 0 /\ (HALF_RAY + p) \div RAY \in Nat
  BY <1>1, HalfRay, RayAssumption
<1> QED BY <1>2 DEF rayMul, DivDown, p

LEMMA RayMulMonotone ==
  ASSUME NEW a \in Nat, NEW b \in Nat, NEW x \in Nat, NEW y \in Nat,
         a <= x, b <= y
  PROVE  rayMul(a, b) <= rayMul(x, y)
<1>1. a * b \in Nat /\ x * y \in Nat /\ a * b <= x * y
  BY ProductMonotone
<1> DEFINE p == a * b
           q == x * y
<1> HIDE DEF p, q
<1>2. HALF_RAY + p \in Int /\ HALF_RAY + q \in Int /\ RAY \in Nat \ {0}
      /\ HALF_RAY + p <= HALF_RAY + q
  BY <1>1, HalfRay, RayAssumption DEF p, q
<1>3. (HALF_RAY + p) \div RAY <= (HALF_RAY + q) \div RAY
  BY <1>2, DivMonotone
<1> QED BY <1>3, RayMulNat DEF p, q

\* A factor of one or more shrinks nothing.
LEMMA RayMulAtLeast ==
  ASSUME NEW x \in Nat, NEW y \in Nat, x >= RAY
  PROVE  rayMul(x, y) >= y /\ rayMul(y, x) >= y
<1>0. RAY \in Nat /\ RAY \in Nat \ {0} /\ HALF_RAY \in Nat /\ HALF_RAY < RAY
  BY HalfRay, RayAssumption
<1>1. rayMul(RAY, y) = y
  <2>1. RAY * y \in Int /\ HALF_RAY + RAY * y \in Int
        /\ RAY * y <= HALF_RAY + RAY * y
        /\ HALF_RAY + RAY * y < RAY * y + RAY
    BY <1>0
  <2>2. (HALF_RAY + RAY * y) \div RAY = y
    BY <1>0, <2>1, DivUnique
  <2> QED BY <1>0, <2>2, RayMulNat
<1>2. rayMul(x, y) >= y
  BY <1>0, <1>1, RayMulMonotone, RayMulNat
<1>3. x * y = y * x
  OBVIOUS
<1> QED BY <1>2, <1>3, RayMulNat

LEMMA RayDivMonotone ==
  ASSUME NEW a \in Nat, NEW x \in Nat, a <= x, NEW b \in Nat \ {0}
  PROVE  rayDiv(a, b) \in Nat /\ rayDiv(a, b) <= rayDiv(x, b)
<1>1. DivDown(b, 2) \in Nat
  BY DivDownMonotone
<1>2. a * RAY \in Nat /\ x * RAY \in Nat /\ a * RAY <= x * RAY
  BY RayAssumption, ProductMonotone
<1> DEFINE p == a * RAY
           q == x * RAY
           h == DivDown(b, 2)
<1> HIDE DEF p, q, h
<1>3. h + p \in Nat /\ h + q \in Nat /\ h + p <= h + q
  BY <1>1, <1>2 DEF p, q, h
<1>4. DivDown(h + p, b) \in Nat /\ DivDown(h + p, b) <= DivDown(h + q, b)
  BY <1>3, DivDownMonotone
<1> QED BY <1>4 DEF rayDiv, p, q, h

(* A balance brought to rays, multiplied and rounded back is rounded       *)
(* twice, where the contracts round b * x once.                            *)
LEMMA DoubleRounding ==
  ASSUME NEW b \in Nat, NEW x \in Nat
  PROVE  Grown(b, x) - rayMul(b, x) \in {0, 1}
<1> DEFINE W == WAD_RAY_RATIO
           V == WAD_RAY_RATIO \div 2
           H == HALF_RAY
           p == b * x
           m == (H + p) \div RAY
           s == H + p - m * RAY
           u == W * s - W * H + H
           e == u \div RAY
<1>1. /\ W \in Nat /\ W > 0 /\ V \in Nat /\ W = 2 * V /\ H \in Nat /\ H > 0
      /\ RAY = 2 * H /\ RAY \in Nat /\ p \in Nat
  BY RayAssumption, HalfRay
<1> HIDE DEF W, V, H, p
<1>2. m \in Int /\ s \in Int /\ 0 <= s /\ s < RAY
  <2>1. H + p \in Int /\ RAY \in Nat \ {0}
    BY <1>1
  <2>2. m \in Int /\ RAY * m <= H + p /\ H + p < RAY * m + RAY
    BY <2>1, DivBounds
  <2> HIDE DEF m
  <2>3. RAY * m = m * RAY /\ m * RAY \in Int
    BY <2>1, <2>2
  <2> QED BY <1>1, <2>1, <2>2, <2>3
<1> HIDE DEF m
<1>3. W * p = W * (m * RAY) + W * s - W * H
  <2>1. m * RAY \in Int /\ p = m * RAY + s - H
    BY <1>1, <1>2
  <2> DEFINE r == m * RAY
  <2> HIDE DEF r, s
  <2>2. r \in Int /\ p = r + s - H
    BY <2>1 DEF r
  <2>3. W * (r + s - H) = W * r + W * s - W * H
    BY <1>1, <1>2, <2>2
  <2> QED BY <2>2, <2>3 DEF r
<1>4. 0 <= W * s /\ W * s <= W * RAY - W /\ W * s \in Int /\ W * H \in Int
      /\ W * RAY = 2 * (W * H) /\ W * H = 2 * (V * H) /\ V * H \in Int
  <2>1. s <= RAY - 1 /\ 0 <= s
    BY <1>1, <1>2
  <2> HIDE DEF s
  <2>2. W * 0 <= W * s /\ W * s <= W * (RAY - 1)
    BY <1>1, <1>2, <2>1
  <2> QED BY <1>1, <1>2, <2>2
<1> HIDE DEF s
<1>5. u \in Int /\ -(2 * (V * H)) + H <= u /\ u <= 2 * (V * H) + H - W
  BY <1>1, <1>4
<1>6. -V <= e /\ e <= V /\ e \in Int
  <2> HIDE DEF u
  <2>0. u \in Int /\ RAY \in Nat \ {0}
    BY <1>1, <1>5
  <2>1. e \in Int /\ RAY * e <= u /\ u < RAY * e + RAY
    BY <2>0, DivBounds
  <2> HIDE DEF e
  <2>2. 2 * (H * e) <= u /\ u < 2 * (H * e) + 2 * H /\ H * e \in Int
    BY <1>1, <2>1
  <2>3. 2 * (H * e) < 2 * (V * H) + H /\ -(2 * (V * H)) + H < 2 * (H * e) + 2 * H
    BY <1>1, <1>4, <1>5, <2>2
  <2>4. 2 * (H * (e - V)) < H /\ 2 * (H * (-V - e)) < H
    <3>1. H * (e - V) = H * e - V * H /\ H * (-V - e) = -(V * H) - H * e
      BY <1>1, <2>1
    <3>2. 2 * (H * e - V * H) < H /\ 2 * (-(V * H) - H * e) < H
      BY <1>1, <1>4, <2>2, <2>3
    <3> QED BY <3>1, <3>2
  <2>5. \A k \in Int : 2 * (H * k) < H => k <= 0
    BY <1>1
  <2>6. e - V <= 0 /\ -V - e <= 0
    BY <1>1, <2>1, <2>4, <2>5
  <2> QED BY <1>1, <2>1, <2>6
<1>7. (H + W * p) \div RAY = W * m + e
  <2>1. H + W * p = RAY * (W * m) + u /\ W * m \in Int /\ W * p \in Int
    BY <1>1, <1>2, <1>3
  <2> HIDE DEF u
  <2>0. RAY \in Nat \ {0} /\ m \in Int /\ u \in Int
    BY <1>1, <1>2, <1>5
  <2>2. e \in Int /\ RAY * e <= u /\ u < RAY * e + RAY
    BY <2>0, DivBounds
  <2> HIDE DEF e
  <2>3. RAY * (W * m + e) = RAY * (W * m) + RAY * e
    BY <1>1, <2>1, <2>2
  <2>4. /\ H + W * p \in Int /\ W * m + e \in Int
        /\ RAY * (W * m + e) <= H + W * p
        /\ H + W * p < RAY * (W * m + e) + RAY
    BY <1>1, <2>0, <2>1, <2>2, <2>3
  <2> HIDE DEF W
  <2> QED BY <2>0, <2>4, DivUnique
<1> HIDE DEF e
<1>8. V + (W * m + e) \in Int /\ W * m \in Int /\ W \in Nat \ {0}
  BY <1>1, <1>2, <1>6
<1>9. /\ rayMul(b, x) = m
      /\ Grown(b, x) = (V + (W * m + e)) \div W
  <2>1. wadToRay(b) = b * W /\ b * W \in Nat /\ (b * W) * x = W * p
    BY <1>1 DEF wadToRay, p, W
  <2>2. rayMul(b, x) = m
    BY RayMulNat DEF m, p, H
  <2>3. rayMul(b * W, x) = W * m + e /\ W * m + e \in Nat
    BY <1>7, <2>1, RayMulNat DEF H
  <2> QED BY <1>1, <1>8, <2>1, <2>2, <2>3 DEF Grown, rayToWad, DivDown, V, W
<1>10. CASE e < V
  <2>1. W * m <= V + (W * m + e) /\ V + (W * m + e) < W * m + W
    BY <1>1, <1>6, <1>8, <1>10
  <2>2. (V + (W * m + e)) \div W = m
    BY <1>2, <1>8, <2>1, DivUnique
  <2> QED BY <1>2, <1>9, <2>2
<1>11. CASE e = V
  <2>1. W * (m + 1) <= V + (W * m + e) /\ V + (W * m + e) < W * (m + 1) + W
    BY <1>1, <1>2, <1>6, <1>8, <1>11
  <2>2. (V + (W * m + e)) \div W = m + 1
    <3>1. m + 1 \in Int
      BY <1>2
    <3> QED BY <3>1, <1>8, <2>1, DivUnique
  <2> QED BY <1>2, <1>9, <2>2
<1> QED BY <1>1, <1>6, <1>10, <1>11

LEMMA GrownMonotone ==
  ASSUME NEW b \in Nat, NEW x \in Nat, NEW y \in Nat, x <= y
  PROVE  Grown(b, x) \in Nat /\ Grown(b, x) <= Grown(b, y)
<1>1. wadToRay(b) \in Nat
  BY RayAssumption, ProductMonotone DEF wadToRay
<1> DEFINE p == rayMul(wadToRay(b), x)
           q == rayMul(wadToRay(b), y)
           h == WAD_RAY_RATIO \div 2
<1>2. p \in Nat /\ q \in Nat /\ p <= q /\ h \in Nat /\ WAD_RAY_RATIO \in Nat \ {0}
  <2>1. p \in Nat /\ q \in Nat
    BY <1>1, RayMulNat
  <2>2. p <= q
    <3>1. wadToRay(b) <= wadToRay(b)
      BY <1>1
    <3> QED BY <1>1, <3>1, RayMulMonotone
  <2>3. h \in Nat /\ WAD_RAY_RATIO \in Nat \ {0}
    BY RayAssumption
  <2> QED BY <2>1, <2>2, <2>3
<1> HIDE DEF p, q, h
<1>3. DivDown(h + p, WAD_RAY_RATIO) \in Nat
      /\ DivDown(h + p, WAD_RAY_RATIO) <= DivDown(h + q, WAD_RAY_RATIO)
  BY <1>2, DivDownMonotone
<1> QED BY <1>3 DEF Grown, rayToWad, p, q, h

-----------------------------------------------------------------------------
(* Interest: at least one, and never less at a later time.                 *)

LEMMA LinearMonotone ==
  ASSUME NEW rate \in Nat, NEW last \in Int, NEW s \in Int, NEW t \in Int,
         last <= s, s <= t
  PROVE  /\ calculateLinearInterest(rate, s, last) \in Nat
         /\ calculateLinearInterest(rate, s, last) >= RAY
         /\ calculateLinearInterest(rate, s, last)
              <= calculateLinearInterest(rate, t, last)
<1> DEFINE d == TimeDelta(s, last)
           e == TimeDelta(t, last)
           y == wadToRay(SECONDS_PER_YEAR)
<1>1. d \in Nat /\ e \in Nat /\ d <= e
  BY DEF TimeDelta
<1>2. WAD_RAY_RATIO \in Nat \ {0} /\ RAY \in Nat
  BY RayAssumption
<1>3. y \in Nat \ {0}
  BY <1>2, PoolAssumption DEF wadToRay
<1> HIDE DEF d, e, y
<1>4. wadToRay(d) \in Nat /\ wadToRay(e) \in Nat /\ wadToRay(d) <= wadToRay(e)
  BY <1>1, <1>2, ProductMonotone DEF wadToRay
<1> DEFINE f == rayDiv(wadToRay(d), y)
           g == rayDiv(wadToRay(e), y)
<1>5. f \in Nat /\ g \in Nat /\ f <= g
  BY <1>3, <1>4, RayDivMonotone
<1> HIDE DEF f, g
<1>6. rayMul(rate, f) \in Nat /\ rayMul(rate, g) \in Nat
      /\ rayMul(rate, f) <= rayMul(rate, g)
  BY <1>5, RayMulNat, RayMulMonotone
<1>7. /\ calculateLinearInterest(rate, s, last) = rayMul(rate, f) + RAY
      /\ calculateLinearInterest(rate, t, last) = rayMul(rate, g) + RAY
  BY DEF calculateLinearInterest, d, e, f, g, y
<1> QED BY <1>2, <1>6, <1>7

LEMMA BinomialMonotone ==
  ASSUME NEW a \in Nat, NEW p \in Nat, NEW q \in Nat, p <= q
  PROVE  /\ binomialApproximatedRayPow(a, p) \in Nat
         /\ binomialApproximatedRayPow(a, p) >= RAY
         /\ binomialApproximatedRayPow(a, p) <= binomialApproximatedRayPow(a, q)
<1> DEFINE two == rayMul(a, a)
           three == rayMul(two, a)
           past(n) == IF n > 2 THEN n - 2 ELSE 0
           second(n) == n * (n - 1) * two
           third(n) == n * (n - 1) * past(n) * three
           sum(n) == RAY + n * a + DivDown(second(n), 2) + DivDown(third(n), 6)
<1>1. two \in Nat /\ three \in Nat /\ RAY \in Nat
  BY RayMulNat, RayAssumption
<1> HIDE DEF two, three
<1>2. \A n \in Nat : n * (n - 1) \in Nat /\ past(n) \in Nat /\ n * a \in Nat
  <2> SUFFICES ASSUME NEW n \in Nat
               PROVE  n * (n - 1) \in Nat /\ past(n) \in Nat /\ n * a \in Nat
    OBVIOUS
  <2>1. CASE n = 0
    BY <2>1
  <2>2. CASE n # 0
    <3>1. n - 1 \in Nat
      BY <2>2
    <3> QED BY <3>1, ProductMonotone
  <2> QED BY <2>1, <2>2
<1>3. p * (p - 1) <= q * (q - 1) /\ past(p) <= past(q) /\ p * a <= q * a
  <2>1. CASE p = 0
    BY <1>2, <2>1
  <2>2. CASE p # 0
    <3>1. p - 1 \in Nat /\ q - 1 \in Nat /\ p - 1 <= q - 1
      BY <2>2
    <3> QED BY <3>1, ProductMonotone
  <2> QED BY <2>1, <2>2
<1> HIDE DEF past
<1>4. /\ second(p) \in Nat /\ second(q) \in Nat /\ second(p) <= second(q)
      /\ third(p) \in Nat /\ third(q) \in Nat /\ third(p) <= third(q)
  <2> DEFINE x == p * (p - 1)
             y == q * (q - 1)
  <2>1. x \in Nat /\ y \in Nat /\ x <= y /\ past(p) \in Nat /\ past(q) \in Nat
        /\ past(p) <= past(q)
    BY <1>2, <1>3
  <2> HIDE DEF x, y
  <2>2. x * two \in Nat /\ y * two \in Nat /\ x * two <= y * two
    BY <1>1, <2>1, ProductMonotone
  <2>3. x * past(p) \in Nat /\ y * past(q) \in Nat /\ x * past(p) <= y * past(q)
    BY <2>1, ProductMonotone
  <2>4. x * past(p) * three \in Nat /\ y * past(q) * three \in Nat
        /\ x * past(p) * three <= y * past(q) * three
    BY <1>1, <2>3, ProductMonotone
  <2> QED BY <2>2, <2>4 DEF x, y
<1> HIDE DEF second, third
<1>5. /\ DivDown(second(p), 2) \in Nat /\ DivDown(second(q), 2) \in Nat
      /\ DivDown(third(p), 6) \in Nat /\ DivDown(third(q), 6) \in Nat
      /\ DivDown(second(p), 2) <= DivDown(second(q), 2)
      /\ DivDown(third(p), 6) <= DivDown(third(q), 6)
  <2>1. \A n, m \in Nat, d \in {2, 6} :
          n <= m => DivDown(n, d) \in Nat /\ DivDown(n, d) <= DivDown(m, d)
    <3> SUFFICES ASSUME NEW n \in Nat, NEW m \in Nat, n <= m, NEW d \in {2, 6}
                 PROVE  DivDown(n, d) \in Nat /\ DivDown(n, d) <= DivDown(m, d)
      OBVIOUS
    <3>1. n \in Int /\ m \in Int /\ d \in Nat \ {0}
      OBVIOUS
    <3> QED BY <3>1, DivDownMonotone
  <2>2. second(q) <= second(q) /\ third(q) <= third(q)
    BY <1>4
  <2> QED BY <1>4, <2>1, <2>2
<1>6. sum(p) \in Nat /\ sum(q) \in Nat /\ RAY <= sum(p) /\ sum(p) <= sum(q)
  BY <1>1, <1>2, <1>3, <1>5
<1>7. \A n \in Nat : binomialApproximatedRayPow(a, n) = IF n = 0 THEN RAY ELSE sum(n)
  BY DEF binomialApproximatedRayPow, two, three, past, second, third
<1>8. binomialApproximatedRayPow(a, p) = IF p = 0 THEN RAY ELSE sum(p)
  BY <1>7
<1>9. binomialApproximatedRayPow(a, q) = IF q = 0 THEN RAY ELSE sum(q)
  BY <1>7
<1>10. RAY <= sum(q)
  BY <1>1, <1>6
<1> HIDE DEF sum
<1> QED BY <1>1, <1>6, <1>8, <1>9, <1>10

LEMMA CompoundedMonotone ==
  ASSUME NEW rate \in Nat, NEW last \in Int, NEW s \in Int, NEW t \in Int,
         last <= s, s <= t
  PROVE  /\ calculateCompoundedInterest(rate, s, last) \in Nat
         /\ calculateCompoundedInterest(rate, s, last) >= RAY
         /\ calculateCompoundedInterest(rate, s, last)
              <= calculateCompoundedInterest(rate, t, last)
<1>1. TimeDelta(s, last) \in Nat /\ TimeDelta(t, last) \in Nat
      /\ TimeDelta(s, last) <= TimeDelta(t, last)
  BY DEF TimeDelta
<1>2. DivDown(rate, SECONDS_PER_YEAR) \in Nat
  BY PoolAssumption, DivDownMonotone
<1> QED BY <1>1, <1>2, BinomialMonotone DEF calculateCompoundedInterest

LEMMA IncomeMonotone ==
  ASSUME NEW rate \in Nat, NEW index \in Nat, NEW last \in Int, NEW s \in Int,
         NEW t \in Int, last <= s, s <= t
  PROVE  /\ getReserveNormalizedIncome(rate, index, last, s) \in Nat
         /\ getReserveNormalizedIncome(rate, index, last, s)
              <= getReserveNormalizedIncome(rate, index, last, t)
<1>1. /\ calculateLinearInterest(rate, s, last) \in Nat
      /\ calculateLinearInterest(rate, t, last) \in Nat
      /\ calculateLinearInterest(rate, s, last) <= calculateLinearInterest(rate, t, last)
  <2>1. t <= t /\ last <= t
    OBVIOUS
  <2> QED BY <2>1, LinearMonotone
<1> DEFINE x == calculateLinearInterest(rate, s, last)
           y == calculateLinearInterest(rate, t, last)
<1> HIDE DEF x, y
<1>2. rayMul(x, index) \in Nat /\ rayMul(x, index) <= rayMul(y, index)
  <2>1. x \in Nat /\ y \in Nat /\ x <= y /\ index <= index
    BY <1>1 DEF x, y
  <2> QED BY <2>1, RayMulNat, RayMulMonotone
<1> QED BY <1>2 DEF getReserveNormalizedIncome, x, y

LEMMA DebtFactorMonotone ==
  ASSUME NEW rate \in Nat, NEW index \in Nat, NEW last \in Int, NEW s \in Int,
         NEW t \in Int, last <= s, s <= t
  PROVE  /\ rayMul(calculateCompoundedInterest(rate, s, last), index) \in Nat
         /\ rayMul(calculateCompoundedInterest(rate, s, last), index) >= index
         /\ rayMul(calculateCompoundedInterest(rate, s, last), index)
              <= rayMul(calculateCompoundedInterest(rate, t, last), index)
<1>1. /\ calculateCompoundedInterest(rate, s, last) \in Nat
      /\ calculateCompoundedInterest(rate, t, last) \in Nat
      /\ calculateCompoundedInterest(rate, s, last) >= RAY
      /\ calculateCompoundedInterest(rate, s, last)
           <= calculateCompoundedInterest(rate, t, last)
  <2>1. t <= t /\ last <= t
    OBVIOUS
  <2> QED BY <2>1, CompoundedMonotone
<1> DEFINE x == calculateCompoundedInterest(rate, s, last)
           y == calculateCompoundedInterest(rate, t, last)
<1> HIDE DEF x, y
<1>2. x \in Nat /\ y \in Nat /\ x <= y /\ x >= RAY /\ index <= index
  BY <1>1 DEF x, y
<1>3. rayMul(x, index) \in Nat /\ rayMul(x, index) >= index
  BY <1>2, RayMulNat, RayMulAtLeast
<1>4. rayMul(x, index) <= rayMul(y, index)
  BY <1>2, RayMulMonotone
<1> QED BY <1>3, <1>4 DEF x, y

-----------------------------------------------------------------------------
(* How far a rounding goes, and where it is undone.                        *)

\* Each rounding is within half a unit.
LEMMA RayMulBounds ==
  ASSUME NEW a \in Nat, NEW b \in Nat
  PROVE  /\ rayMul(a, b) \in Nat
         /\ 2 * (RAY * rayMul(a, b)) <= 2 * (a * b) + RAY
         /\ 2 * (a * b) < 2 * (RAY * rayMul(a, b)) + RAY
<1> DEFINE p == a * b
           m == (HALF_RAY + p) \div RAY
<1>1. p \in Nat /\ HALF_RAY \in Nat /\ RAY \in Nat \ {0} /\ RAY = 2 * HALF_RAY
  BY HalfRay, RayAssumption
<1>2. rayMul(a, b) = m /\ rayMul(a, b) \in Nat
  BY RayMulNat
<1> HIDE DEF p
<1>3. HALF_RAY + p \in Int
  BY <1>1
<1>4. m \in Int /\ RAY * m <= HALF_RAY + p /\ HALF_RAY + p < RAY * m + RAY
  BY <1>1, <1>3, DivBounds
<1> HIDE DEF m
<1> DEFINE x == RAY * m
<1>5. x \in Int /\ x <= HALF_RAY + p /\ HALF_RAY + p < x + RAY
  BY <1>1, <1>4
<1> HIDE DEF x
<1>6. 2 * x <= 2 * p + RAY /\ 2 * p < 2 * x + RAY
  BY <1>1, <1>5
<1> QED BY <1>2, <1>6 DEF x, p

LEMMA RayDivBounds ==
  ASSUME NEW a \in Nat, NEW b \in Nat \ {0}
  PROVE  /\ rayDiv(a, b) \in Nat
         /\ 2 * (b * rayDiv(a, b)) <= 2 * (a * RAY) + b
         /\ 2 * (a * RAY) <= 2 * (b * rayDiv(a, b)) + b
<1> DEFINE p == a * RAY
           h == b \div 2
           q == (h + p) \div b
<1>1. p \in Nat /\ h \in Nat /\ 2 * h <= b /\ b <= 2 * h + 1
  BY RayAssumption
<1>2. DivDown(b, 2) = h
  BY DEF DivDown
<1>3. rayDiv(a, b) \in Nat
  <2>1. a <= a
    OBVIOUS
  <2> QED BY <2>1, RayDivMonotone
<1> HIDE DEF p, h
<1>4. h + p \in Nat /\ h + p \in Int
  BY <1>1
<1>5. rayDiv(a, b) = q
  BY <1>2, <1>4 DEF rayDiv, DivDown, p
<1>6. q \in Int /\ b * q <= h + p /\ h + p < b * q + b
  BY <1>4, DivBounds
<1> HIDE DEF q
<1> DEFINE x == b * q
<1>7. x \in Int /\ x <= h + p /\ h + p < x + b
  BY <1>6
<1> HIDE DEF x
<1>8. 2 * x <= 2 * p + b /\ 2 * p <= 2 * x + b
  BY <1>1, <1>7
<1> QED BY <1>3, <1>5, <1>8 DEF x, p

LEMMA RayToWadBounds ==
  ASSUME NEW a \in Nat
  PROVE  /\ rayToWad(a) \in Nat
         /\ 2 * (WAD_RAY_RATIO * rayToWad(a)) <= 2 * a + WAD_RAY_RATIO
         /\ 2 * a < 2 * (WAD_RAY_RATIO * rayToWad(a)) + WAD_RAY_RATIO
<1> DEFINE W == WAD_RAY_RATIO
           V == WAD_RAY_RATIO \div 2
           m == (V + a) \div W
<1>1. W \in Nat \ {0} /\ V \in Nat /\ W = 2 * V /\ V + a \in Nat
  BY RayAssumption
<1>2. rayToWad(a) = m
  BY <1>1 DEF rayToWad, DivDown
<1>3. m \in Nat
  <2> HIDE DEF V, W
  <2> QED BY <1>1, DivNat
<1>4. V + a \in Int
  BY <1>1
<1> HIDE DEF V, W
<1>5. m \in Int /\ W * m <= V + a /\ V + a < W * m + W
  BY <1>1, <1>4, DivBounds
<1> HIDE DEF m
<1> DEFINE x == W * m
<1>6. x \in Int /\ x <= V + a /\ V + a < x + W
  BY <1>1, <1>5
<1> HIDE DEF x
<1>7. 2 * x <= 2 * a + W /\ 2 * a < 2 * x + W
  BY <1>1, <1>6
<1> QED BY <1>2, <1>3, <1>7 DEF x, W

\* What is multiplied by an index and divided by it again is unchanged: an
\* index is never below one.
LEMMA RayDivOfProduct ==
  ASSUME NEW y \in Nat, NEW x \in Nat, x >= RAY
  PROVE  rayDiv(rayMul(y, x), x) = y
<1> DEFINE m == rayMul(y, x)
           p == y * x
           n == m * RAY
           h == x \div 2
<1>0. RAY \in Nat /\ RAY > 0 /\ HALF_RAY \in Nat /\ RAY = 2 * HALF_RAY /\ x \in Nat \ {0}
  BY HalfRay, RayAssumption
<1>1. m \in Nat /\ p \in Nat /\ 2 * (RAY * m) <= 2 * p + RAY /\ 2 * p < 2 * (RAY * m) + RAY
  <2>1. p \in Nat
    OBVIOUS
  <2>2. m \in Nat
    BY RayMulNat
  <2>3. 2 * (RAY * rayMul(y, x)) <= 2 * (y * x) + RAY
    BY RayMulBounds
  <2>4. 2 * (y * x) < 2 * (RAY * rayMul(y, x)) + RAY
    BY RayMulBounds
  <2> QED BY <2>1, <2>2, <2>3, <2>4
<1> HIDE DEF m, p
<1>2. n \in Nat /\ n = RAY * m
  BY <1>0, <1>1
<1>3. h \in Nat /\ 2 * h <= x /\ x <= 2 * h + 1 /\ DivDown(x, 2) = h
  BY DEF DivDown
<1>4. x = RAY => n <= p
  <2> SUFFICES ASSUME x = RAY PROVE n <= p
    OBVIOUS
  <2>1. p = y * RAY
    BY DEF p
  <2>2. y \in Int /\ HALF_RAY + p \in Int /\ RAY * y <= HALF_RAY + p
        /\ HALF_RAY + p < RAY * y + RAY /\ RAY \in Nat \ {0}
    BY <1>0, <1>1, <2>1
  <2>3. (HALF_RAY + p) \div RAY = y
    BY <2>2, DivUnique
  <2>4. m = y
    BY <2>3, RayMulNat DEF m, p
  <2> QED BY <2>1, <2>4
<1> HIDE DEF n, h
<1>5. h + n \in Nat /\ p <= h + n /\ h + n < p + x
  BY <1>0, <1>1, <1>2, <1>3, <1>4
<1>6. x * y = p
  BY DEF p
<1>7. (h + n) \div x = y
  <2>1. h + n \in Int /\ x \in Nat \ {0} /\ y \in Int /\ x * y <= h + n /\ h + n < x * y + x
    BY <1>0, <1>5, <1>6
  <2> QED BY <2>1, DivUnique
<1>8. rayDiv(m, x) = DivDown(h + n, x)
  BY <1>3 DEF rayDiv, n
<1> QED BY <1>5, <1>7, <1>8 DEF DivDown, m

LEMMA RayToWadOfWad ==
  ASSUME NEW b \in Nat
  PROVE  wadToRay(b) \in Nat /\ rayToWad(wadToRay(b)) = b
<1> DEFINE W == WAD_RAY_RATIO
           V == WAD_RAY_RATIO \div 2
<1>1. W \in Nat \ {0} /\ V \in Nat /\ W = 2 * V /\ V < W
  BY RayAssumption
<1> HIDE DEF W, V
<1>2. V + b * W \in Nat /\ b * W \in Nat /\ W * b <= V + b * W /\ V + b * W < W * b + W
  BY <1>1
<1>3. V + b * W \in Int /\ b \in Int
  BY <1>2
<1>4. (V + b * W) \div W = b
  BY <1>1, <1>2, <1>3, DivUnique
<1> QED BY <1>2, <1>4 DEF rayToWad, wadToRay, DivDown, W, V

\* A reserve that was updated this second has earned nothing since; one that
\* was updated before has not lost.
LEMMA IncomeNow ==
  ASSUME NEW rate \in Nat, NEW index \in Nat, NEW t \in Int
  PROVE  getReserveNormalizedIncome(rate, index, t, t) = index
<1>1. TimeDelta(t, t) = 0
  BY DEF TimeDelta
<1> DEFINE y == wadToRay(SECONDS_PER_YEAR)
<1>2. wadToRay(0) = 0 /\ y \in Nat \ {0}
  BY RayAssumption, PoolAssumption DEF wadToRay
<1> HIDE DEF y
<1>3. rayDiv(0, y) = 0
  <2>1. y \div 2 \in Nat /\ y \div 2 < y /\ 0 * RAY = 0
    BY <1>2, RayAssumption
  <2>2. (y \div 2) \div y = 0
    BY <1>2, <2>1
  <2> QED BY <1>2, <2>1, <2>2 DEF rayDiv, DivDown
<1>4. rayMul(rate, 0) = 0
  <2>1. HALF_RAY \div RAY = 0 /\ rate * 0 = 0
    BY HalfRay, RayAssumption
  <2> QED BY <2>1, HalfRay DEF rayMul, DivDown
<1>5. calculateLinearInterest(rate, t, t) = RAY
  BY <1>1, <1>2, <1>3, <1>4, RayAssumption DEF calculateLinearInterest, y
<1>6. rayMul(RAY, index) = index
  <2>1. RAY \in Nat \ {0} /\ HALF_RAY \in Nat /\ HALF_RAY < RAY
    BY HalfRay, RayAssumption
  <2>2. RAY * index \in Int /\ HALF_RAY + RAY * index \in Int
        /\ RAY * index <= HALF_RAY + RAY * index
        /\ HALF_RAY + RAY * index < RAY * index + RAY
    BY <2>1
  <2>3. (HALF_RAY + RAY * index) \div RAY = index
    BY <2>1, <2>2, DivUnique
  <2> QED BY <2>1, <2>3, RayMulNat
<1> QED BY <1>5, <1>6 DEF getReserveNormalizedIncome

LEMMA IncomeAtLeast ==
  ASSUME NEW rate \in Nat, NEW index \in Nat, NEW last \in Int, NEW t \in Int, last <= t
  PROVE  /\ getReserveNormalizedIncome(rate, index, last, t) \in Nat
         /\ getReserveNormalizedIncome(rate, index, last, t) >= index
<1>1. last <= last
  OBVIOUS
<1>2. /\ getReserveNormalizedIncome(rate, index, last, last) = index
      /\ getReserveNormalizedIncome(rate, index, last, last)
           <= getReserveNormalizedIncome(rate, index, last, t)
  BY <1>1, IncomeNow, IncomeMonotone
<1>3. t <= t
  OBVIOUS
<1> QED BY <1>2, <1>3, IncomeMonotone

-----------------------------------------------------------------------------
(* Plain quotients, arguments that may be negative, and a clock that is    *)
(* behind.                                                                 *)

LEMMA QuotientBounds ==
  ASSUME NEW n \in Int, NEW d \in Nat \ {0}
  PROVE  /\ Quotient(n, d) \in Int
         /\ 2 * (d * Quotient(n, d)) <= 2 * (n * Dp) + d
         /\ 2 * (n * Dp) < 2 * (d * Quotient(n, d)) + d
         /\ n \in Nat => Quotient(n, d) \in Nat
<1> DEFINE p == n * Dp
           k == 2 * n * Dp + d
           e == 2 * d
           q == k \div e
<1>1. p \in Int /\ k = 2 * p + d /\ k \in Int /\ e \in Nat \ {0}
  BY PoolAssumption
<1>2. q \in Int /\ e * q <= k /\ k < e * q + e
  <2> HIDE DEF k, e
  <2> QED BY <1>1, DivBounds
<1>3. n \in Nat => q \in Nat
  <2> SUFFICES ASSUME n \in Nat PROVE q \in Nat
    OBVIOUS
  <2>1. p \in Nat
    BY PoolAssumption
  <2>2. k \in Nat
    <3> HIDE DEF p, k
    <3> QED BY <1>1, <2>1
  <2> HIDE DEF k, e
  <2> QED BY <1>1, <2>2, DivNat
<1>4. Quotient(n, d) = q
  BY DEF Quotient
<1> HIDE DEF q
<1> DEFINE x == d * q
<1>5. x \in Int /\ e * q = 2 * x
  BY <1>2
<1> HIDE DEF x, p, k, e
<1>6. 2 * x <= 2 * p + d /\ 2 * p < 2 * x + d
  <2>1. 2 * x <= k /\ k < 2 * x + e /\ e = 2 * d
    BY <1>2, <1>5 DEF e
  <2> QED BY <1>1, <1>5, <2>1
<1> QED BY <1>2, <1>3, <1>4, <1>6 DEF x, p

LEMMA QuotientMonotone ==
  ASSUME NEW n \in Int, NEW m \in Int, n <= m, NEW d \in Nat \ {0}
  PROVE  Quotient(n, d) <= Quotient(m, d)
<1>1. n * Dp <= m * Dp /\ n * Dp \in Int /\ m * Dp \in Int
  BY PoolAssumption
<1>2. 2 * n * Dp = 2 * (n * Dp) /\ 2 * m * Dp = 2 * (m * Dp)
  BY PoolAssumption
<1> DEFINE j == 2 * n * Dp + d
           k == 2 * m * Dp + d
           e == 2 * d
<1>3. j \in Int /\ k \in Int /\ j <= k /\ e \in Nat \ {0}
  BY <1>1, <1>2
<1> HIDE DEF j, k, e
<1>4. j \div e <= k \div e
  BY <1>3, DivMonotone
<1> QED BY <1>4 DEF Quotient, j, k, e

\* A quotient of at least one is shown as at least one.
LEMMA QuotientAtLeast ==
  ASSUME NEW n \in Int, NEW d \in Nat \ {0}, n >= d
  PROVE  Quotient(n, d) \in Nat /\ Quotient(n, d) >= Dp
<1>1. Quotient(d, d) = Dp
  <2> DEFINE k == 2 * d * Dp + d
             e == 2 * d
             f == d * Dp
  <2>1. f \in Nat /\ k = 2 * f + d /\ k \in Int /\ e \in Nat \ {0} /\ e * Dp = 2 * f
        /\ e = 2 * d /\ Dp \in Int
    BY PoolAssumption
  <2> HIDE DEF k, e, f
  <2>2. e * Dp <= k /\ k < e * Dp + e
    BY <2>1
  <2>3. k \div e = Dp
    BY <2>1, <2>2, DivUnique
  <2> QED BY <2>3 DEF Quotient, k, e
<1>2. Quotient(n, d) >= Quotient(d, d)
  BY QuotientMonotone
<1>3. n \in Nat
  OBVIOUS
<1> QED BY <1>1, <1>2, <1>3, QuotientBounds, PoolAssumption

\* Rounded down, a quotient of sums of Dp-ths keeps the order.
LEMMA QuotientFloor ==
  ASSUME NEW n \in Nat, NEW m \in Nat, n <= m, NEW d \in Nat \ {0}
  PROVE  /\ Quotient(n, d) \div Dp \in Nat
         /\ Quotient(n, d) \div Dp <= Quotient(m, d) \div Dp
<1>1. Quotient(n, d) \in Nat /\ Quotient(m, d) \in Nat /\ Quotient(n, d) <= Quotient(m, d)
  BY QuotientBounds, QuotientMonotone
<1>2. Dp \in Nat \ {0} /\ Quotient(n, d) \in Int /\ Quotient(m, d) \in Int
  BY <1>1, PoolAssumption
<1> QED BY <1>1, <1>2, DivMonotone, DivNat

\* Whatever the sign of its arguments, an operation of rays gives an integer.
LEMMA DivDownInt ==
  ASSUME NEW n \in Int, NEW d \in Nat \ {0}
  PROVE  DivDown(n, d) \in Int
<1>1. n <= n
  OBVIOUS
<1> QED BY <1>1, DivDownMonotone

LEMMA RaysAreIntegers ==
  ASSUME NEW a \in Int, NEW b \in Int, NEW c \in Nat \ {0}
  PROVE  rayMul(a, b) \in Int /\ rayDiv(a, c) \in Int /\ wadToRay(a) \in Int
         /\ rayToWad(a) \in Int
<1>1. RAY \in Nat \ {0} /\ WAD_RAY_RATIO \in Nat \ {0} /\ HALF_RAY \in Nat
      /\ WAD_RAY_RATIO \div 2 \in Nat
  BY RayAssumption, HalfRay
<1>2. HALF_RAY + a * b \in Int /\ a * RAY \in Int /\ a * WAD_RAY_RATIO \in Int
      /\ WAD_RAY_RATIO \div 2 + a \in Int
  BY <1>1
<1>3. DivDown(c, 2) \in Int
  BY DivDownInt
<1>4. DivDown(c, 2) + a * RAY \in Int
  BY <1>2, <1>3
<1> QED BY <1>1, <1>2, <1>4, DivDownInt DEF rayMul, rayDiv, wadToRay, rayToWad

LEMMA IncomeIsInteger ==
  ASSUME NEW rate \in Int, NEW index \in Int, NEW last \in Int, NEW t \in Int
  PROVE  getReserveNormalizedIncome(rate, index, last, t) \in Int
<1>1. TimeDelta(t, last) \in Int
  BY DEF TimeDelta
<1>2. wadToRay(SECONDS_PER_YEAR) \in Nat \ {0} /\ RAY \in Int
  BY RayAssumption, PoolAssumption DEF wadToRay
<1>3. wadToRay(TimeDelta(t, last)) \in Int
  BY <1>1, <1>2, RaysAreIntegers
<1>4. rayDiv(wadToRay(TimeDelta(t, last)), wadToRay(SECONDS_PER_YEAR)) \in Int
  BY <1>2, <1>3, RaysAreIntegers
<1> DEFINE x == rayDiv(wadToRay(TimeDelta(t, last)), wadToRay(SECONDS_PER_YEAR))
<1> HIDE DEF x
<1>5. calculateLinearInterest(rate, t, last) \in Int
  <2>1. x \in Int
    BY <1>4 DEF x
  <2>2. rayMul(rate, x) \in Int
    BY <1>2, <2>1, RaysAreIntegers
  <2> QED BY <1>2, <2>2 DEF calculateLinearInterest, x
<1>6. rayMul(calculateLinearInterest(rate, t, last), index) \in Int
  BY <1>2, <1>5, RaysAreIntegers
<1> QED BY <1>6 DEF getReserveNormalizedIncome

(***************************************************************************)
(* A clock that is behind makes interest negative; less than a year's at a *)
(* rate of one does not use up what it is earned on.                       *)
(***************************************************************************)
Behind(rate, t, last) == (last - t) * rate <= RAY * SECONDS_PER_YEAR

\* It is not, at any time from which it grows, nor as far behind as a lag that
\* is short enough.
LEMMA NotBehind ==
  ASSUME NEW rate \in Nat, NEW last \in Int, NEW t \in Int, last <= t
  PROVE  Behind(rate, t, last)
<1>1. (last - t) * rate <= 0
  <2> DEFINE n == t - last
  <2>1. n \in Nat /\ n * rate >= 0 /\ (last - t) * rate = -(n * rate)
    OBVIOUS
  <2> QED BY <2>1
<1>2. RAY * SECONDS_PER_YEAR >= 0 /\ RAY * SECONDS_PER_YEAR \in Int
  BY RayAssumption, PoolAssumption
<1>3. (last - t) * rate \in Int
  OBVIOUS
<1> QED BY <1>1, <1>2, <1>3 DEF Behind

LEMMA WithinLag ==
  ASSUME NEW rate \in Nat, NEW last \in Int, NEW n \in Int, NEW delay \in Nat, last <= n,
         delay * rate <= RAY * SECONDS_PER_YEAR
  PROVE  Behind(rate, n - delay, last)
<1> DEFINE d == last - (n - delay)
           K == RAY * SECONDS_PER_YEAR
<1>1. d \in Int /\ d <= delay
  OBVIOUS
<1>2. K \in Int
  BY RayAssumption, PoolAssumption
<1> HIDE DEF d, K
<1>3. d * rate <= delay * rate /\ d * rate \in Int /\ delay * rate \in Int
  <2>1. (delay - d) * rate >= 0 /\ (delay - d) * rate = delay * rate - d * rate
    BY <1>1
  <2> QED BY <1>1, <2>1
<1>4. delay * rate <= K
  BY DEF K
<1>5. d * rate <= K
  BY <1>2, <1>3, <1>4
<1> QED BY <1>5 DEF Behind, d, K

LEMMA LinearBehind ==
  ASSUME NEW rate \in Nat, NEW last \in Int, NEW t \in Int, Behind(rate, t, last)
  PROVE  calculateLinearInterest(rate, t, last) \in Nat
<1> DEFINE n == last - t
           W == WAD_RAY_RATIO
           S == SECONDS_PER_YEAR
           y == wadToRay(SECONDS_PER_YEAR)
           x == rayDiv(wadToRay(TimeDelta(t, last)), y)
<1>0. W \in Nat \ {0} /\ S \in Nat \ {0} /\ RAY \in Nat \ {0} /\ n \in Int /\ HALF_RAY \in Nat
      /\ y = S * W /\ y \in Nat \ {0}
  BY RayAssumption, HalfRay, PoolAssumption DEF wadToRay
<1>1. CASE n <= 0
  <2>1. last <= t /\ t <= t
    BY <1>1
  <2> QED BY <2>1, LinearMonotone
<1>2. CASE n > 0
  <2> DEFINE h == DivDown(y, 2)
             e == (-n) * W * RAY
             z == h + e
  <2>1. h \in Nat
    <3>1. y \div 2 \in Nat
      BY <1>0
    <3> QED BY <1>0, <3>1 DEF DivDown
  <2>2. TimeDelta(t, last) = -n
    BY DEF TimeDelta
  <2>3. x = DivDown(z, y)
    BY <2>2 DEF rayDiv, wadToRay
  <2> HIDE DEF h, y, x, n, W, S
  <2>4. e \in Int /\ z \in Int /\ z >= e
    BY <1>0, <2>1
  <2> HIDE DEF z
  <2>5. x \in Int /\ y * x >= e
    <3>1. CASE z >= 0
      <4>1. z \in Nat /\ z \div y \in Nat /\ x = z \div y
        BY <1>0, <2>3, <2>4, <3>1, DivNat DEF DivDown
      <4>2. e <= 0
        <5>1. n * W \in Nat /\ n * W * RAY \in Nat /\ e = -(n * W * RAY)
          BY <1>0, <1>2
        <5> QED BY <5>1
      <4> HIDE DEF e
      <4>3. y * x \in Nat
        BY <1>0, <4>1
      <4> QED BY <2>4, <4>1, <4>2, <4>3
    <3>2. CASE z < 0
      <4>1. -z \in Int
        BY <2>4
      <4>2. (-z) \div y \in Int /\ y * ((-z) \div y) <= -z
        BY <1>0, <4>1, DivBounds
      <4>3. x = -((-z) \div y)
        BY <2>3, <2>4, <3>2 DEF DivDown
      <4> DEFINE d == (-z) \div y
      <4> HIDE DEF d, e
      <4>4. d \in Int /\ y * d <= -z /\ x = -d /\ y * x = -(y * d)
        BY <1>0, <4>2, <4>3 DEF d
      <4> QED BY <1>0, <2>4, <4>4
    <3> QED BY <2>4, <3>1, <3>2
  <2>6. S * x >= -n * RAY
    <3> DEFINE g == S * x
               k == n * RAY
    <3>1. y * x = W * g /\ e = -(W * k) /\ g \in Int /\ k \in Int
      BY <1>0, <2>5
    <3> HIDE DEF g, k, e
    <3>2. W * (g + k) >= 0
      <4>1. W * (g + k) = W * g + W * k /\ W * g \in Int /\ W * k \in Int
        BY <1>0, <3>1
      <4> QED BY <2>5, <3>1, <4>1
    <3>3. g + k >= 0
      BY <1>0, <3>1, <3>2
    <3>4. -n * RAY = -k
      BY <1>0 DEF k
    <3> QED BY <3>1, <3>3, <3>4 DEF g
  <2>7. rate * x >= -(RAY * RAY)
    <3> DEFINE g == S * x
               k == n * RAY
               m == rate * x
               b == n * rate
    <3>1. g \in Int /\ k \in Int /\ g >= -k /\ -n * RAY = -k /\ m \in Int /\ b \in Int
      BY <1>0, <2>5, <2>6
    <3>2. b <= RAY * S
      BY DEF Behind, n, S
    <3>3. rate * g >= rate * (-k)
      <4> HIDE DEF g, k
      <4> QED BY <3>1
    <3>4. rate * g = S * m /\ rate * (-k) = -(b * RAY)
      BY <1>0, <2>5
    <3> HIDE DEF g, k, m, b
    <3>5. b * RAY <= (RAY * S) * RAY
      BY <1>0, <3>1, <3>2
    <3>6. S * (m + RAY * RAY) >= 0
      <4>1. S * (m + RAY * RAY) = S * m + (RAY * S) * RAY /\ S * m \in Int
            /\ (RAY * S) * RAY \in Int /\ b * RAY \in Int
        BY <1>0, <3>1
      <4> QED BY <3>3, <3>4, <3>5, <4>1
    <3>7. RAY * RAY \in Int /\ m + RAY * RAY \in Int
      BY <1>0, <3>1
    <3>8. m + RAY * RAY >= 0
      BY <1>0, <3>6, <3>7
    <3> QED BY <3>1, <3>7, <3>8 DEF m
  <2> DEFINE v == HALF_RAY + rate * x
             r == DivDown(v, RAY)
  <2>8. v \in Int /\ v >= -(RAY * RAY) /\ RAY * RAY \in Nat
    BY <1>0, <2>5, <2>7
  <2>9. r \in Int /\ r >= -RAY
    <3> HIDE DEF v
    <3>1. CASE v >= 0
      <4>1. r \in Nat
        BY <1>0, <2>8, <3>1, DivNat DEF DivDown
      <4> QED BY <1>0, <4>1
    <3>2. CASE v < 0
      <4>1. -v \in Int /\ RAY * RAY \in Int /\ -v <= RAY * RAY
        BY <2>8
      <4>2. (-v) \div RAY \in Int /\ (-v) \div RAY <= (RAY * RAY) \div RAY
        BY <1>0, <4>1, DivBounds, DivMonotone
      <4>3. (RAY * RAY) \div RAY = RAY
        <5>1. RAY * RAY \in Int /\ RAY \in Int /\ RAY * RAY <= RAY * RAY
              /\ RAY * RAY < RAY * RAY + RAY
          BY <1>0
        <5> QED BY <1>0, <5>1, DivUnique
      <4> QED BY <1>0, <2>8, <3>2, <4>2, <4>3 DEF DivDown
    <3> QED BY <2>8, <3>1, <3>2
  <2>10. calculateLinearInterest(rate, t, last) = r + RAY
    BY DEF calculateLinearInterest, rayMul, x, y
  <2> HIDE DEF r
  <2> QED BY <1>0, <2>9, <2>10
<1> QED BY <1>0, <1>1, <1>2

LEMMA IncomeBehind ==
  ASSUME NEW rate \in Nat, NEW index \in Nat, NEW last \in Int, NEW t \in Int,
         Behind(rate, t, last)
  PROVE  getReserveNormalizedIncome(rate, index, last, t) \in Nat
<1>1. calculateLinearInterest(rate, t, last) \in Nat
  BY LinearBehind
<1>2. rayMul(calculateLinearInterest(rate, t, last), index) \in Nat
  BY <1>1, RayMulNat
<1> QED BY <1>2 DEF getReserveNormalizedIncome

LEMMA CompoundedBehind ==
  ASSUME NEW rate \in Nat, NEW last \in Int, NEW t \in Int, Behind(rate, t, last)
  PROVE  calculateCompoundedInterest(rate, t, last) \in Nat
<1> DEFINE n == last - t
           S == SECONDS_PER_YEAR
           a == rate \div S
           p == TimeDelta(t, last)
<1>0. S \in Nat \ {0} /\ RAY \in Nat /\ n \in Int
  BY RayAssumption, PoolAssumption
<1>1. CASE n <= 0
  <2>1. last <= t /\ t <= t
    BY <1>1
  <2> QED BY <2>1, CompoundedMonotone
<1>2. CASE n > 0
  <2>1. p = -n
    BY DEF TimeDelta
  <2> HIDE DEF S
  <2>2. rate \in Int /\ a \in Nat /\ S * a <= rate
    BY <1>0, DivBounds, DivNat
  <2>3. DivDown(rate, SECONDS_PER_YEAR) = a
    BY DEF DivDown, S
  <2> HIDE DEF n, a, p
  <2>4. n * a <= RAY /\ n * a \in Int
    <3> DEFINE k == n * a
    <3>1. k \in Int /\ n * (S * a) = S * k
      BY <1>0, <2>2
    <3>2. n * (S * a) <= n * rate
      BY <1>0, <1>2, <2>2
    <3>3. n * rate <= RAY * S
      BY DEF Behind, n, S
    <3> HIDE DEF k
    <3>4. S * (RAY - k) >= 0
      <4>1. S * (RAY - k) = RAY * S - S * k /\ RAY * S \in Int /\ S * k \in Int /\ n * rate \in Int
        BY <1>0, <2>2, <3>1
      <4> QED BY <3>1, <3>2, <3>3, <4>1
    <3>5. RAY - k >= 0
      BY <1>0, <3>1, <3>4
    <3> QED BY <1>0, <3>1, <3>5 DEF k
  <2>5. p * a = -(n * a)
    BY <1>0, <2>1, <2>2
  <2> DEFINE two == rayMul(a, a)
             three == rayMul(two, a)
  <2>6. two \in Nat /\ three \in Nat
    BY <2>2, RayMulNat
  <2> HIDE DEF two, three
  <2>7. p * (p - 1) \in Nat
    <3>1. n + 1 \in Nat /\ n \in Nat /\ n * (n + 1) \in Nat
      BY <1>0, <1>2
    <3>2. p * (p - 1) = n * (n + 1)
      BY <1>0, <2>1
    <3> QED BY <3>1, <3>2
  <2>8. p * (p - 1) * two \in Nat
    BY <2>6, <2>7
  <2>9. DivDown(p * (p - 1) * two, 2) \in Nat
    BY <2>8, DivDownMonotone
  <2>10. p * (p - 1) * 0 * three = 0
    BY <2>6, <2>7
  <2>11. DivDown(0, 6) = 0
    BY DEF DivDown
  <2>12. binomialApproximatedRayPow(a, p)
           = RAY + p * a + DivDown(p * (p - 1) * two, 2) + 0
    <3>1. ~(p > 2) /\ p # 0
      BY <1>0, <1>2, <2>1
    <3> QED BY <2>10, <2>11, <3>1 DEF binomialApproximatedRayPow, two, three
  <2>13. calculateCompoundedInterest(rate, t, last) = binomialApproximatedRayPow(a, p)
    BY <2>3 DEF calculateCompoundedInterest, p
  <2> DEFINE s == DivDown(p * (p - 1) * two, 2)
             k == n * a
  <2> HIDE DEF s, k
  <2>14. RAY + p * a + s + 0 \in Nat
    BY <1>0, <2>4, <2>5, <2>9 DEF s, k
  <2> QED BY <2>12, <2>13, <2>14 DEF s
<1> QED BY <1>0, <1>1, <1>2

-----------------------------------------------------------------------------
(* Totals.  The library's induction theorems take an operator, which the    *)
(* provers cannot instantiate; that every set of subsets of a finite set    *)
(* has a least one is induction enough.                                     *)

Pick(S) == CHOOSE x \in S : TRUE

LEMMA TotalUnfolds ==
  ASSUME NEW f, NEW S
  PROVE  Total(f, S) =
    (CHOOSE g : g = [s \in SUBSET S |-> IF s = {} THEN 0
                                        ELSE f[Pick(s)] + g[s \ {Pick(s)}]])[S]
BY DEF Total, MapThenSumSet, MapThenFoldSet, Pick

LEMMA LeastSubset ==
  ASSUME NEW S, IsFiniteSet(S), NEW B, B \subseteq SUBSET S, B # {}
  PROVE  \E s \in B : \A t \in B : ~(t \subseteq s /\ t # s)
<1>1. IsWellFoundedOn(StrictSubsetOrdering(S), FiniteSubsetsOf(S))
  BY FS_StrictSubsetOrderingWellFounded
<1>2. B \subseteq FiniteSubsetsOf(S)
  BY FS_FiniteSubsetsOfFinite
<1>3. PICK s \in B : \A t \in B : ~(<<t, s>> \in StrictSubsetOrdering(S))
  BY <1>1, <1>2, WFMin
<1>4. ASSUME NEW t \in B, t \subseteq s, t # s PROVE FALSE
  <2>1. <<t, s>> \in (SUBSET S) \X (SUBSET S)
    OBVIOUS
  <2>2. <<t, s>> \in StrictSubsetOrdering(S)
    BY <1>4, <2>1 DEF StrictSubsetOrdering
  <2> QED BY <1>3, <2>2
<1> QED BY <1>4

LEMMA SubsetInduction ==
  ASSUME NEW S, IsFiniteSet(S), NEW G,
         \A s \in SUBSET S : (\A t \in SUBSET s : t # s => t \in G) => s \in G
  PROVE  (SUBSET S) \subseteq G
<1> DEFINE B == (SUBSET S) \ G
<1>1. SUFFICES ASSUME B # {} PROVE FALSE
  OBVIOUS
<1>2. PICK s \in B : \A t \in B : ~(t \subseteq s /\ t # s)
  <2>1. B \subseteq SUBSET S
    OBVIOUS
  <2> HIDE DEF B
  <2> QED BY <1>1, <2>1, LeastSubset
<1> QED BY <1>2

IsSum(g, f, S) ==
  \A s \in SUBSET S :
    g[s] = IF s = {} THEN 0 ELSE f[Pick(s)] + g[s \ {Pick(s)}]

LEMMA PickIn == ASSUME NEW s, s # {} PROVE Pick(s) \in s
BY DEF Pick

LEMMA SumUnique ==
  ASSUME NEW S, IsFiniteSet(S), NEW f, NEW g, NEW h, IsSum(g, f, S), IsSum(h, f, S)
  PROVE  \A s \in SUBSET S : g[s] = h[s]
<1> DEFINE G == {s \in SUBSET S : g[s] = h[s]}
<1>1. ASSUME NEW s \in SUBSET S, \A t \in SUBSET s : t # s => t \in G
      PROVE  s \in G
  <2>1. CASE s = {}
    BY <2>1 DEF IsSum
  <2>2. CASE s # {}
    <3>1. Pick(s) \in s
      BY <2>2, PickIn
    <3>2. s \ {Pick(s)} \in SUBSET s /\ s \ {Pick(s)} # s
      BY <3>1
    <3>3. g[s \ {Pick(s)}] = h[s \ {Pick(s)}]
      BY <1>1, <3>2
    <3> QED BY <2>2, <3>3 DEF IsSum
  <2> QED BY <2>1, <2>2
<1> HIDE DEF G
<1>2. (SUBSET S) \subseteq G
  BY <1>1, SubsetInduction
<1> QED BY <1>2 DEF G

LEMMA SumExists ==
  ASSUME NEW S, IsFiniteSet(S), NEW f, \A x \in S : f[x] \in Int
  PROVE  \E g \in [SUBSET S -> Int] : IsSum(g, f, S)
<1> DEFINE Of(s) == {g \in [SUBSET s -> Int] : IsSum(g, f, s)}
           G == {s \in SUBSET S : Of(s) # {}}
<1>1. ASSUME NEW s \in SUBSET S, \A t \in SUBSET s : t # s => t \in G
      PROVE  s \in G
  <2>0. IsFiniteSet(s)
    BY FS_Subset
  <2>1. CASE s = {}
    <3>1. [t \in SUBSET s |-> 0] \in Of(s)
      BY <2>1 DEF IsSum
    <3> QED BY <3>1
  <2>2. CASE s # {}
    <3> DEFINE sol(t) == CHOOSE g : g \in Of(t)
    <3>1. ASSUME NEW t \in SUBSET s, t # s
          PROVE  sol(t) \in [SUBSET t -> Int] /\ IsSum(sol(t), f, t)
      <4>1. Of(t) # {}
        BY <1>1, <3>1
      <4>2. sol(t) \in Of(t)
        BY <4>1
      <4> QED BY <4>2
    <3> DEFINE rest == s \ {Pick(s)}
               g == [t \in SUBSET s |-> IF t = s THEN f[Pick(s)] + sol(rest)[rest]
                                        ELSE sol(t)[t]]
    <3>2. Pick(s) \in s /\ rest \in SUBSET s /\ rest # s
      BY <2>2, PickIn
    <3> HIDE DEF sol
    <3>3. g \in [SUBSET s -> Int]
      <4>1. ASSUME NEW t \in SUBSET s, t # s PROVE sol(t)[t] \in Int
        BY <3>1, <4>1
      <4>2. f[Pick(s)] + sol(rest)[rest] \in Int
        BY <3>2, <4>1
      <4> QED BY <4>1, <4>2
    <3>4. ASSUME NEW t \in SUBSET s
          PROVE  g[t] = IF t = {} THEN 0 ELSE f[Pick(t)] + g[t \ {Pick(t)}]
      <4>1. CASE t = s
        BY <2>2, <3>2, <4>1
      <4>2. CASE t # s /\ t = {}
        <5>1. sol(t)[t] = 0
          BY <3>1, <4>2 DEF IsSum
        <5> QED BY <4>2, <5>1
      <4>3. CASE t # s /\ t # {}
        <5> DEFINE u == t \ {Pick(t)}
        <5>1. Pick(t) \in t /\ u \in SUBSET t /\ u \in SUBSET s /\ u # s
          BY <4>3, PickIn
        <5>2. sol(t)[t] = f[Pick(t)] + sol(t)[u]
          BY <3>1, <4>3 DEF IsSum
        <5>3. IsSum(sol(t), f, u) /\ IsSum(sol(u), f, u)
          <6>1. \A x \in SUBSET u : x \in SUBSET t
            BY <5>1
          <6>2. IsSum(sol(t), f, t) /\ IsSum(sol(u), f, u)
            BY <3>1, <4>3, <5>1
          <6> QED BY <6>1, <6>2 DEF IsSum
        <5>4. IsFiniteSet(u)
          BY <2>0, <5>1, FS_Subset
        <5>5. sol(t)[u] = sol(u)[u]
          BY <5>3, <5>4, SumUnique
        <5> QED BY <4>3, <5>1, <5>2, <5>5
      <4> QED BY <4>1, <4>2, <4>3
    <3>5. IsSum(g, f, s)
      BY <3>4 DEF IsSum
    <3> QED BY <3>3, <3>5
  <2> QED BY <2>1, <2>2
<1>2. (SUBSET S) \subseteq G
  <2> HIDE DEF G
  <2> QED BY <1>1, SubsetInduction
<1>3. S \in G
  BY <1>2
<1> QED BY <1>3

LEMMA TotalOfSum ==
  ASSUME NEW S, IsFiniteSet(S), NEW f, \A x \in S : f[x] \in Int
  PROVE  \E g \in [SUBSET S -> Int] :
           IsSum(g, f, S) /\ \A T \in SUBSET S : g[T] = Total(f, T)
<1>1. PICK g \in [SUBSET S -> Int] : IsSum(g, f, S)
  BY SumExists
<1>2. ASSUME NEW T \in SUBSET S PROVE g[T] = Total(f, T)
  <2> DEFINE Solves(h) == h = [s \in SUBSET T |-> IF s = {} THEN 0
                                             ELSE f[Pick(s)] + h[s \ {Pick(s)}]]
             k == [s \in SUBSET T |-> g[s]]
             h == CHOOSE h : Solves(h)
  <2>0. IsFiniteSet(T)
    BY FS_Subset
  <2>1. Solves(k)
    <3>1. ASSUME NEW s \in SUBSET T
          PROVE  k[s] = IF s = {} THEN 0 ELSE f[Pick(s)] + k[s \ {Pick(s)}]
      <4>1. s \in SUBSET S /\ s \ {Pick(s)} \in SUBSET T
        OBVIOUS
      <4>2. g[s] = IF s = {} THEN 0 ELSE f[Pick(s)] + g[s \ {Pick(s)}]
        BY <1>1, <4>1 DEF IsSum
      <4> QED BY <4>1, <4>2
    <3> QED BY <3>1
  <2>2. Solves(h)
    <3> HIDE DEF Solves
    <3> QED BY <2>1
  <2>3. IsSum(h, f, T) /\ IsSum(k, f, T)
    <3> HIDE DEF h, k
    <3> QED BY <2>1, <2>2 DEF IsSum
  <2>4. h[T] = k[T]
    <3> HIDE DEF h, k
    <3> QED BY <2>0, <2>3, SumUnique
  <2>5. Total(f, T) = h[T]
    BY TotalUnfolds
  <2> QED BY <2>4, <2>5
<1> QED BY <1>1, <1>2

\* A total is a number, that of nothing is zero, and any part of it can be
\* taken out.
LEMMA TotalTakes ==
  ASSUME NEW S, IsFiniteSet(S), NEW f, \A x \in S : f[x] \in Int
  PROVE  /\ Total(f, {}) = 0
         /\ \A T \in SUBSET S : Total(f, T) \in Int
         /\ \A T \in SUBSET S : \A x \in T : Total(f, T) = f[x] + Total(f, T \ {x})
<1>1. PICK g \in [SUBSET S -> Int] :
        IsSum(g, f, S) /\ \A T \in SUBSET S : g[T] = Total(f, T)
  BY TotalOfSum
<1> DEFINE G == {T \in SUBSET S : \A x \in T : g[T] = f[x] + g[T \ {x}]}
<1>2. ASSUME NEW s \in SUBSET S, \A t \in SUBSET s : t # s => t \in G
      PROVE  s \in G
  <2> SUFFICES ASSUME NEW x \in s PROVE g[s] = f[x] + g[s \ {x}]
    OBVIOUS
  <2> DEFINE p == Pick(s)
  <2>1. p \in s /\ g[s] = f[p] + g[s \ {p}]
    BY <1>1, PickIn DEF IsSum
  <2> HIDE DEF p
  <2>2. CASE x = p
    BY <2>1, <2>2
  <2>3. CASE x # p
    <3> DEFINE u == s \ {p}
               w == s \ {x}
               v == (s \ {p}) \ {x}
    <3>1. u \in SUBSET s /\ u # s /\ x \in u /\ w \in SUBSET s /\ w # s /\ p \in w
          /\ v = u \ {x} /\ v = w \ {p} /\ v \in SUBSET S
      BY <2>1, <2>3
    <3> HIDE DEF u, w, v
    <3>2. u \in G /\ w \in G
      BY <1>2, <3>1
    <3>3. g[u] = f[x] + g[v]
      BY <3>1, <3>2
    <3>4. g[w] = f[p] + g[v]
      BY <3>1, <3>2
    <3>5. f[x] \in Int /\ f[p] \in Int /\ g[v] \in Int
      BY <1>1, <2>1, <3>1
    <3>6. g[s] = f[p] + g[u]
      BY <2>1 DEF u
    <3>7. g[s] = f[x] + g[w]
      BY <3>3, <3>4, <3>5, <3>6
    <3> QED BY <3>7 DEF w
  <2> QED BY <2>2, <2>3
<1> HIDE DEF G
<1>3. (SUBSET S) \subseteq G
  BY <1>2, SubsetInduction
<1>4. Total(f, {}) = 0
  BY <1>1 DEF IsSum
<1>5. ASSUME NEW T \in SUBSET S PROVE Total(f, T) \in Int
  BY <1>1
<1>6. ASSUME NEW T \in SUBSET S, NEW x \in T
      PROVE  Total(f, T) = f[x] + Total(f, T \ {x})
  <2>1. g[T] = f[x] + g[T \ {x}]
    BY <1>3 DEF G
  <2>2. T \ {x} \in SUBSET S
    OBVIOUS
  <2> QED BY <1>1, <2>1, <2>2
<1> QED BY <1>4, <1>5, <1>6

\* Terms that compare, each up to the same constant, have totals that do.
LEMMA TotalCompare ==
  ASSUME NEW S, IsFiniteSet(S), NEW f, NEW h, NEW a \in Int, NEW b \in Int, NEW c \in Int,
         \A x \in S : f[x] \in Int /\ h[x] \in Int /\ a * f[x] <= b * h[x] + c
  PROVE  /\ Cardinality(S) \in Nat /\ Total(f, S) \in Int /\ Total(h, S) \in Int
         /\ a * Total(f, S) <= b * Total(h, S) + c * Cardinality(S)
<1> DEFINE Fits(T) == a * Total(f, T) <= b * Total(h, T) + c * Cardinality(T)
           G == {T \in SUBSET S : Fits(T)}
<1>0. ASSUME NEW T \in SUBSET S
      PROVE  IsFiniteSet(T) /\ Cardinality(T) \in Nat
             /\ Total(f, T) \in Int /\ Total(h, T) \in Int
  BY FS_Subset, FS_CardinalityType, TotalTakes
<1>1. ASSUME NEW T \in SUBSET S, \A t \in SUBSET T : t # T => t \in G
      PROVE  T \in G
  <2>1. CASE T = {}
    <3>1. Total(f, T) = 0 /\ Total(h, T) = 0 /\ Cardinality(T) = 0
      BY <2>1, TotalTakes, FS_EmptySet
    <3> QED BY <3>1
  <2>2. CASE T # {}
    <3>1. PICK x \in T : TRUE
      BY <2>2
    <3> DEFINE u == T \ {x}
               fu == Total(f, u)
               hu == Total(h, u)
               n == Cardinality(u)
               fx == f[x]
               hx == h[x]
    <3>2. u \in SUBSET S /\ u \in SUBSET T /\ u # T
      BY <3>1
    <3>3. fu \in Int /\ hu \in Int /\ n \in Nat /\ fx \in Int /\ hx \in Int
      BY <1>0, <3>1, <3>2
    <3>4. Total(f, T) = fx + fu /\ Total(h, T) = hx + hu
      BY <3>1, TotalTakes
    <3>5. Cardinality(T) = n + 1
      <4>1. IsFiniteSet(T) /\ Cardinality(T) \in Nat /\ Cardinality(T) - 1 = n
        BY <1>0, <3>1, FS_RemoveElement
      <4> QED BY <3>3, <4>1
    <3>6. u \in G
      BY <1>1, <3>2
    <3>7. a * fu <= b * hu + c * n
      BY <3>6
    <3>8. a * fx <= b * hx + c
      BY <3>1
    <3> HIDE DEF u, fu, hu, n, fx, hx
    <3>9. a * (fx + fu) = a * fx + a * fu /\ b * (hx + hu) = b * hx + b * hu
          /\ c * (n + 1) = c * n + c
      BY <3>3
    <3>10. a * fx \in Int /\ a * fu \in Int /\ b * hx \in Int /\ b * hu \in Int /\ c * n \in Int
      BY <3>3
    <3>11. a * (fx + fu) <= b * (hx + hu) + c * (n + 1)
      BY <3>7, <3>8, <3>9, <3>10
    <3> QED BY <3>4, <3>5, <3>11
  <2> QED BY <2>1, <2>2
<1> HIDE DEF G
<1>2. (SUBSET S) \subseteq G
  BY <1>1, SubsetInduction
<1>3. S \in SUBSET S
  OBVIOUS
<1>4. Fits(S)
  BY <1>2, <1>3 DEF G
<1> QED BY <1>0, <1>3, <1>4

\* The totals of terms that grow, that are natural, and that are the same.
LEMMA TotalMonotone ==
  ASSUME NEW S, IsFiniteSet(S), NEW f, NEW h,
         \A x \in S : f[x] \in Int /\ h[x] \in Int /\ f[x] <= h[x]
  PROVE  Total(f, S) \in Int /\ Total(h, S) \in Int /\ Total(f, S) <= Total(h, S)
<1> DEFINE one == 1
           none == 0
<1>1. /\ one \in Int /\ none \in Int
      /\ \A x \in S : f[x] \in Int /\ h[x] \in Int /\ one * f[x] <= one * h[x] + none
  OBVIOUS
<1> HIDE DEF one, none
<1>2. /\ Cardinality(S) \in Nat /\ Total(f, S) \in Int /\ Total(h, S) \in Int
      /\ one * Total(f, S) <= one * Total(h, S) + none * Cardinality(S)
  BY <1>1, TotalCompare
<1> QED BY <1>2 DEF one, none

LEMMA TotalNat ==
  ASSUME NEW S, IsFiniteSet(S), NEW f, \A x \in S : f[x] \in Nat
  PROVE  Total(f, S) \in Nat
<1> DEFINE one == 1
           none == 0
<1>1. /\ one \in Int /\ none \in Int
      /\ \A x \in S : f[x] \in Int /\ none * f[x] <= one * f[x] + none
  OBVIOUS
<1> HIDE DEF one, none
<1>2. /\ Cardinality(S) \in Nat /\ Total(f, S) \in Int
      /\ none * Total(f, S) <= one * Total(f, S) + none * Cardinality(S)
  BY <1>1, TotalCompare
<1> QED BY <1>2 DEF one, none

LEMMA TotalAgrees ==
  ASSUME NEW S, IsFiniteSet(S), NEW f, NEW h, \A x \in S : f[x] \in Int /\ h[x] = f[x]
  PROVE  Total(h, S) = Total(f, S)
<1>1. Total(f, S) \in Int /\ Total(h, S) \in Int /\ Total(f, S) <= Total(h, S)
  BY TotalMonotone
<1>2. Total(h, S) <= Total(f, S)
  BY TotalMonotone
<1> QED BY <1>1, <1>2

\* Only one term changes.
LEMMA TotalChanges ==
  ASSUME NEW S, IsFiniteSet(S), NEW f, NEW h, \A x \in S : f[x] \in Int /\ h[x] \in Int,
         NEW y \in S, \A x \in S \ {y} : h[x] = f[x]
  PROVE  Total(h, S) = Total(f, S) - f[y] + h[y]
<1>1. S \in SUBSET S /\ S \ {y} \in SUBSET S /\ IsFiniteSet(S \ {y})
  BY FS_Subset
<1>2. Total(f, S) = f[y] + Total(f, S \ {y}) /\ Total(h, S) = h[y] + Total(h, S \ {y})
  BY <1>1, TotalTakes
<1>3. Total(h, S \ {y}) = Total(f, S \ {y})
  BY <1>1, TotalAgrees
<1>4. Total(f, S \ {y}) \in Int /\ f[y] \in Int /\ h[y] \in Int
  BY <1>1, TotalTakes
<1> QED BY <1>2, <1>3, <1>4

\* The total of sums.
LEMMA TotalAdds ==
  ASSUME NEW S, IsFiniteSet(S), NEW f, NEW g, NEW h,
         \A x \in S : f[x] \in Int /\ g[x] \in Int /\ h[x] = f[x] + g[x]
  PROVE  /\ Total(f, S) \in Int /\ Total(g, S) \in Int
         /\ Total(h, S) = Total(f, S) + Total(g, S)
<1> DEFINE G == {T \in SUBSET S : Total(h, T) = Total(f, T) + Total(g, T)}
<1>0. \A x \in S : h[x] \in Int /\ f[x] \in Int /\ g[x] \in Int
  OBVIOUS
<1>1. ASSUME NEW T \in SUBSET S
      PROVE  Total(f, T) \in Int /\ Total(g, T) \in Int /\ Total(h, T) \in Int
  BY <1>0, TotalTakes
<1>2. ASSUME NEW T \in SUBSET S, \A t \in SUBSET T : t # T => t \in G
      PROVE  T \in G
  <2>1. CASE T = {}
    <3>1. Total(f, T) = 0 /\ Total(g, T) = 0 /\ Total(h, T) = 0
      BY <1>0, <2>1, TotalTakes
    <3> QED BY <3>1
  <2>2. CASE T # {}
    <3>1. PICK x \in T : TRUE
      BY <2>2
    <3> DEFINE u == T \ {x}
    <3>2. u \in SUBSET S /\ u \in SUBSET T /\ u # T
      BY <3>1
    <3>3. Total(h, u) = Total(f, u) + Total(g, u)
      BY <1>2, <3>2
    <3>4. /\ Total(f, T) = f[x] + Total(f, u) /\ Total(g, T) = g[x] + Total(g, u)
          /\ Total(h, T) = h[x] + Total(h, u)
      BY <1>0, <3>1, TotalTakes
    <3>5. Total(f, u) \in Int /\ Total(g, u) \in Int
      BY <1>1, <3>2
    <3> HIDE DEF u
    <3>6. f[x] \in Int /\ g[x] \in Int /\ h[x] = f[x] + g[x]
      BY <3>1
    <3>7. Total(h, T) = Total(f, T) + Total(g, T)
      BY <3>3, <3>4, <3>5, <3>6
    <3> QED BY <3>7
  <2> QED BY <2>1, <2>2
<1> HIDE DEF G
<1>3. (SUBSET S) \subseteq G
  BY <1>2, SubsetInduction
<1>4. S \in SUBSET S
  OBVIOUS
<1>5. Total(h, S) = Total(f, S) + Total(g, S)
  BY <1>3, <1>4 DEF G
<1> QED BY <1>1, <1>4, <1>5

\* A finite set has a greatest term and a least.
LEMMA GreatestTerm ==
  ASSUME NEW S, IsFiniteSet(S), NEW f, \A x \in S : f[x] \in Int
  PROVE  \A T \in SUBSET S : T # {} => \E x \in T : \A y \in T : f[y] <= f[x]
<1> DEFINE G == {T \in SUBSET S : T # {} => \E x \in T : \A y \in T : f[y] <= f[x]}
<1>1. ASSUME NEW T \in SUBSET S, \A t \in SUBSET T : t # T => t \in G
      PROVE  T \in G
  <2> SUFFICES ASSUME T # {} PROVE \E x \in T : \A y \in T : f[y] <= f[x]
    OBVIOUS
  <2>1. PICK x \in T : TRUE
    OBVIOUS
  <2>2. CASE T \ {x} = {}
    <3>1. \A y \in T : y = x /\ f[y] \in Int
      BY <2>2
    <3>2. \A y \in T : f[y] <= f[x]
      BY <3>1
    <3> QED BY <2>1, <3>2
  <2>3. CASE T \ {x} # {}
    <3>1. T \ {x} \in G
      BY <1>1, <2>1
    <3>2. PICK z \in T \ {x} : \A y \in T \ {x} : f[y] <= f[z]
      BY <2>3, <3>1
    <3>3. f[x] \in Int /\ f[z] \in Int
      BY <2>1, <3>2
    <3>4. CASE f[x] <= f[z]
      BY <3>2, <3>4
    <3>5. CASE f[z] <= f[x]
      <4>1. ASSUME NEW y \in T PROVE f[y] <= f[x]
        <5>1. f[y] \in Int
          OBVIOUS
        <5> QED BY <3>2, <3>3, <3>5, <5>1
      <4> QED BY <2>1, <4>1
    <3> QED BY <3>3, <3>4, <3>5
  <2> QED BY <2>2, <2>3
<1> HIDE DEF G
<1>2. (SUBSET S) \subseteq G
  BY <1>1, SubsetInduction
<1> QED BY <1>2 DEF G

LEMMA LeastTerm ==
  ASSUME NEW S, IsFiniteSet(S), S # {}, NEW f, \A x \in S : f[x] \in Int
  PROVE  \E x \in S : \A y \in S : f[x] <= f[y]
<1> DEFINE g == [x \in S |-> -f[x]]
<1>1. \A x \in S : g[x] \in Int /\ g[x] = -f[x]
  OBVIOUS
<1> HIDE DEF g
<1>2. S \in SUBSET S /\ \A x \in S : g[x] \in Int
  BY <1>1
<1>3. \A T \in SUBSET S : T # {} => \E x \in T : \A y \in T : g[y] <= g[x]
  BY <1>2, GreatestTerm
<1>4. PICK x \in S : \A y \in S : g[y] <= g[x]
  BY <1>2, <1>3
<1>5. ASSUME NEW y \in S PROVE f[x] <= f[y]
  <2>1. -f[y] <= -f[x] /\ f[x] \in Int /\ f[y] \in Int
    BY <1>1, <1>4
  <2> QED BY <2>1
<1> QED BY <1>5

(***************************************************************************)
(* An average rate times the time is the growth of the index, from RAY, to *)
(* the decimals of its two quotients.                                      *)
(***************************************************************************)
LEMMA AverageOfGrowth ==
  ASSUME NEW g \in Nat, NEW dt \in Nat \ {0}, NEW rate,
         rate = Quotient(Quotient(g, RAY) - Dp, dt * Dp) * SECONDS_PER_YEAR
  PROVE  LET decimals == 1 + (RAY * (dt + 1)) \div (2 * Dp)
         IN  (RAY * rate * dt) \div (SECONDS_PER_YEAR * Dp)
               \in (g - RAY - decimals)..(g - RAY + decimals)
<1> DEFINE S == SECONDS_PER_YEAR
           R == RAY
           D == Dp
           q1 == Quotient(g, RAY)
           n == q1 - D
           w == dt * D
           q2 == Quotient(n, w)
           G == g - R
           k == R * (dt + 1)
           decimals == 1 + k \div (2 * D)
           p == q2 * dt
           X == R * p
           y == X \div D
<1>0. /\ R \in Nat \ {0} /\ D \in Nat \ {0} /\ S \in Nat \ {0} /\ R \in Int /\ D \in Int
      /\ S \in Int /\ dt \in Int /\ g \in Int
  BY RayAssumption, PoolAssumption
<1>1. /\ q1 \in Int /\ 2 * (R * q1) <= 2 * (g * D) + R /\ 2 * (g * D) < 2 * (R * q1) + R
  BY <1>0, QuotientBounds
<1> HIDE DEF q1
<1>2. n \in Int /\ w \in Nat \ {0} /\ q1 = n + D
  BY <1>0, <1>1
<1> HIDE DEF n, w
<1>3. /\ q2 \in Int /\ 2 * (w * q2) <= 2 * (n * D) + w /\ 2 * (n * D) < 2 * (w * q2) + w
  BY <1>2, QuotientBounds
<1> HIDE DEF q2
<1>4. p \in Int /\ X \in Int /\ w * q2 = D * p /\ w = D * dt /\ n * D = D * n
  <2>1. (dt * D) * q2 = D * (q2 * dt)
    BY ONLY <1>0, <1>3
  <2>2. dt * D = D * dt /\ n * D = D * n
    BY ONLY <1>0, <1>2
  <2>3. p \in Int
    BY ONLY <1>0, <1>3
  <2>4. X \in Int
    BY ONLY <1>0, <2>3
  <2> QED BY <2>1, <2>2, <2>3, <2>4 DEF w
<1> HIDE DEF S, R, D, p
<1>5. 2 * p <= 2 * n + dt /\ 2 * n <= 2 * p + dt
  <2> DEFINE a == 2 * n + dt - 2 * p
             b == 2 * p + dt - 2 * n
  <2>1. a \in Int /\ b \in Int
    BY <1>0, <1>2, <1>4
  <2>2. D * a = 2 * (D * n) + D * dt - 2 * (D * p) /\ D * b = 2 * (D * p) + D * dt - 2 * (D * n)
    BY ONLY <1>0, <1>2, <1>4
  <2>3. D * n \in Int /\ D * dt \in Int /\ D * p \in Int
    BY ONLY <1>0, <1>2, <1>4
  <2> HIDE DEF a, b
  <2>4. D * a >= 0 /\ D * b >= 0
    BY <1>3, <1>4, <2>2, <2>3
  <2>5. a >= 0 /\ b >= 0
    BY ONLY <1>0, <2>1, <2>4
  <2> QED BY <1>0, <1>2, <1>4, <2>5 DEF a, b
<1>6. 2 * X <= 2 * (R * n) + R * dt /\ 2 * (R * n) <= 2 * X + R * dt
  <2>1. R * (2 * p) <= R * (2 * n + dt) /\ R * (2 * n) <= R * (2 * p + dt)
    <3> DEFINE a == 2 * p
               b == 2 * n + dt
               c == 2 * n
               d == 2 * p + dt
    <3>1. a \in Int /\ b \in Int /\ c \in Int /\ d \in Int /\ a <= b /\ c <= d
      BY <1>0, <1>2, <1>4, <1>5
    <3> HIDE DEF a, b, c, d
    <3>2. R * a <= R * b /\ R * c <= R * d
      BY ONLY <1>0, <3>1
    <3> QED BY <3>2 DEF a, b, c, d
  <2>2. R * (2 * p) = 2 * (R * p) /\ R * (2 * n + dt) = 2 * (R * n) + R * dt
        /\ R * (2 * n) = 2 * (R * n) /\ R * (2 * p + dt) = 2 * (R * p) + R * dt
    BY ONLY <1>0, <1>2, <1>4
  <2> QED BY <2>1, <2>2
<1>7. G \in Int /\ g * D = D * G + D * R /\ R * q1 = R * n + D * R
  <2>1. g * D = D * (g - R) + D * R
    BY ONLY <1>0
  <2>2. R * (n + D) = R * n + D * R
    BY ONLY <1>0, <1>2
  <2> QED BY <1>0, <1>2, <2>1, <2>2
<1>8. k \in Nat /\ k = R * dt + R
  <2>1. R * (dt + 1) = R * dt + R /\ R * dt \in Nat
    BY ONLY <1>0
  <2> QED BY <1>0, <2>1
<1> HIDE DEF G, k, X
<1>9. 2 * X <= 2 * (D * G) + k /\ 2 * (D * G) <= 2 * X + k
  <2>1. R * n \in Int /\ D * R \in Int /\ D * G \in Int /\ R * dt \in Int
    BY ONLY <1>0, <1>2, <1>7
  <2> QED BY <1>0, <1>1, <1>4, <1>6, <1>7, <1>8, <2>1
<1>10. decimals \in Int /\ k < 2 * (D * decimals)
  <2> DEFINE e == 2 * D
             z == k \div e
  <2>1. e \in Nat \ {0} /\ k \in Int
    BY <1>0, <1>8
  <2>2. z \in Int /\ k < e * z + e
    BY <2>1, DivBounds
  <2> HIDE DEF z
  <2>3. 2 * (D * (1 + z)) = (2 * D) * z + 2 * D
    BY ONLY <1>0, <2>2
  <2> QED BY <2>2, <2>3 DEF z
<1>11. y \in Int /\ D * y <= X /\ X < D * y + D
  BY <1>0, <1>4, DivBounds
<1> HIDE DEF decimals, y
<1>12. y < G + decimals /\ G - decimals < y + 1
  <2> DEFINE a == G + decimals - y
             b == y + 1 - (G - decimals)
  <2>1. a \in Int /\ b \in Int
    BY <1>7, <1>10, <1>11
  <2>2. D * a = D * G + D * decimals - D * y /\ D * b = D * y + D - D * G + D * decimals
    BY ONLY <1>0, <1>7, <1>10, <1>11
  <2>3. D * G \in Int /\ D * decimals \in Int /\ D * y \in Int
    BY ONLY <1>0, <1>7, <1>10, <1>11
  <2> HIDE DEF a, b
  <2>4. D * a > 0 /\ D * b > 0
    BY <1>0, <1>4, <1>8, <1>9, <1>10, <1>11, <2>2, <2>3
  <2>5. a > 0 /\ b > 0
    BY ONLY <1>0, <2>1, <2>4
  <2> QED BY <1>7, <1>10, <1>11, <2>1, <2>5 DEF a, b
<1>13. y \in (G - decimals)..(G + decimals)
  BY <1>7, <1>10, <1>11, <1>12
<1>14. (R * (q2 * S) * dt) \div (S * D) = y
  <2>1. R * (q2 * S) * dt = S * X
    <3>1. R * (q2 * S) * dt = S * (R * (q2 * dt))
      BY ONLY <1>0, <1>3
    <3> QED BY <3>1 DEF X, p
  <2>2. S * X \in Int /\ S * D \in Nat \ {0}
    BY ONLY <1>0, <1>4
  <2> DEFINE d == S * D
             m == S * X
  <2>3. d * y <= m /\ m < d * y + d
    <3>1. d * y = S * (D * y) /\ d * y + d = S * (D * y + D) /\ D * y \in Int
      BY ONLY <1>0, <1>11
    <3> DEFINE f == D * y
               h == D * y + D
    <3>2. f \in Int /\ h \in Int /\ f <= X /\ X < h
      BY <1>0, <1>11, <3>1
    <3> HIDE DEF f, h
    <3>3. S * f <= S * X /\ S * X < S * h
      BY ONLY <1>0, <1>4, <3>2
    <3> QED BY <3>1, <3>3 DEF f, h
  <2> HIDE DEF d, m
  <2>4. m \div d = y
    BY <1>11, <2>2, <2>3, DivUnique DEF d, m
  <2> QED BY <2>1, <2>4 DEF d, m
<1> QED BY <1>13, <1>14 DEF R, S, D, G, k, decimals, q2, n, w, q1

\* What compounds is an integer, also before it began to.
LEMMA CompoundedIsInteger ==
  ASSUME NEW rate \in Nat, NEW last \in Int, NEW t \in Int
  PROVE  calculateCompoundedInterest(rate, t, last) \in Int
<1> DEFINE a == DivDown(rate, SECONDS_PER_YEAR)
           p == TimeDelta(t, last)
           b2 == rayMul(a, a)
           b3 == rayMul(b2, a)
           e == IF p > 2 THEN p - 2 ELSE 0
<1>1. a \in Int /\ p \in Int /\ RAY \in Int
  BY PoolAssumption, RayAssumption, DivDownInt DEF TimeDelta
<1> HIDE DEF a, p
<1>2. b2 \in Int
  <2>1. 1 \in Nat \ {0}
    OBVIOUS
  <2> QED BY <1>1, <2>1, RaysAreIntegers
<1> HIDE DEF b2
<1>3. b3 \in Int
  <2>1. 1 \in Nat \ {0}
    OBVIOUS
  <2> QED BY <1>1, <1>2, <2>1, RaysAreIntegers
<1>4. e \in Int
  BY <1>1
<1> HIDE DEF b3, e
<1> DEFINE n == p * (p - 1) * b2
           m == p * (p - 1) * e * b3
<1>5. n \in Int /\ m \in Int /\ p * a \in Int
  BY ONLY <1>1, <1>2, <1>3, <1>4
<1> HIDE DEF n, m
<1>6. DivDown(n, 2) \in Int /\ DivDown(m, 6) \in Int
  BY <1>5, DivDownInt
<1>7. binomialApproximatedRayPow(a, p) =
        IF p = 0 THEN RAY ELSE RAY + p * a + DivDown(n, 2) + DivDown(m, 6)
  BY DEF binomialApproximatedRayPow, n, m, e, b3, b2
<1>8. RAY + p * a + DivDown(n, 2) + DivDown(m, 6) \in Int
  BY <1>1, <1>5, <1>6
<1> QED BY <1>1, <1>7, <1>8 DEF calculateCompoundedInterest, a, p

\* What is weighted counts for something only if there is something to weigh.
LEMMA WeightedTotal ==
  ASSUME NEW S, IsFiniteSet(S), NEW f, NEW w, NEW g,
         \A x \in S : f[x] \in Nat /\ w[x] \in Nat /\ g[x] = f[x] * w[x]
  PROVE  /\ Total(f, S) \in Nat /\ Total(g, S) \in Nat
         /\ Total(g, S) > 0 => Total(f, S) > 0
<1>1. Total(f, S) \in Nat /\ Total(g, S) \in Nat
  BY TotalNat
<1>2. CASE S = {}
  <2>1. Total(g, S) = 0
    BY <1>2, TotalTakes
  <2> QED BY <1>1, <2>1
<1>3. CASE S # {}
  <2>1. PICK x \in S : \A y \in S : w[y] <= w[x]
    BY <1>3, GreatestTerm
  <2> DEFINE m == w[x]
             one == 1
             none == 0
  <2>2. m \in Int /\ m \in Nat /\ one \in Int /\ none \in Int
    OBVIOUS
  <2>3. ASSUME NEW y \in S PROVE g[y] \in Int /\ f[y] \in Int /\ one * g[y] <= m * f[y] + none
    <3>1. f[y] \in Nat /\ w[y] \in Nat /\ g[y] = f[y] * w[y] /\ w[y] <= m
      BY <2>1
    <3> QED BY ONLY <2>2, <3>1
  <2> HIDE DEF m, one, none
  <2>4. one * Total(g, S) <= m * Total(f, S) + none * Cardinality(S)
        /\ Cardinality(S) \in Nat
    BY <2>2, <2>3, TotalCompare
  <2>5. Total(g, S) <= m * Total(f, S)
    BY <1>1, <2>2, <2>4 DEF one, none
  <2>6. ASSUME Total(f, S) = 0 PROVE Total(g, S) <= 0
    BY <2>2, <2>5, <2>6
  <2> QED BY <1>1, <2>6
<1> QED BY <1>2, <1>3

-----------------------------------------------------------------------------
(* Powers.  rayPow's loop is a recursive function: that there is one is     *)
(* shown first, by the same kind of induction over the naturals.            *)

\* Naturals have a least one, and what follows from all below holds of all.
LEMMA NatLeast ==
  ASSUME NEW B, B \subseteq Nat, B # {}
  PROVE  \E n \in B : \A m \in B : n <= m
<1>1. PICK n \in B : \A m \in B : ~(<<m, n>> \in OpToRel(<, Nat))
  BY NatLessThanWellFounded, WFMin, Zenon
<1>2. ASSUME NEW m \in B, m < n PROVE FALSE
  <2>1. <<m, n>> \in Nat \X Nat
    OBVIOUS
  <2>2. <<m, n>> \in OpToRel(<, Nat)
    BY <1>2, <2>1, Zenon DEF OpToRel
  <2> QED BY <1>1, <2>2
<1>3. \A m \in B : m \in Nat /\ n \in Nat /\ ~(m < n)
  BY <1>2
<1> QED BY <1>3

LEMMA NatBelow ==
  ASSUME NEW G, \A n \in Nat : (\A m \in Nat : m < n => m \in G) => n \in G
  PROVE  Nat \subseteq G
<1> DEFINE B == Nat \ G
<1>1. SUFFICES ASSUME B # {} PROVE FALSE
  OBVIOUS
<1>2. PICK n \in B : \A m \in B : n <= m
  <2>1. B \subseteq Nat
    OBVIOUS
  <2> HIDE DEF B
  <2> QED BY <1>1, <2>1, NatLeast
<1>3. \A m \in Nat : m < n => m \in G
  BY <1>2
<1> QED BY <1>2, <1>3

Turns == Nat \X Nat \X Nat

\* What one turn of rayPow's loop makes of what is left of the exponent, the
\* base squared so far and the product so far.
Turned(s) ==
  <<s[1] \div 2, rayMul(s[2], s[2]),
    IF s[1] % 2 = 0 THEN s[3] ELSE rayMul(s[3], rayMul(s[2], s[2]))>>

Loops(f, s) == f[s] = IF s[1] = 0 THEN s[3] ELSE f[Turned(s)]

LEMMA RayPowUnfolds ==
  ASSUME NEW a, NEW p
  PROVE  rayPow(a, p) =
    (CHOOSE f : f = [s \in Turns |-> IF s[1] = 0 THEN s[3] ELSE f[Turned(s)]])
      [<<p \div 2, a, IF p % 2 = 0 THEN RAY ELSE a>>]
BY DEF rayPow, Turned, Turns

\* A turn leaves less of the exponent.
LEMMA TurnedIs ==
  ASSUME NEW s \in Turns
  PROVE  /\ s[1] \in Nat /\ s[2] \in Nat /\ s[3] \in Nat /\ Turned(s) \in Turns
         /\ Turned(s)[1] = s[1] \div 2 /\ Turned(s)[2] = rayMul(s[2], s[2])
         /\ Turned(s)[3] = IF s[1] % 2 = 0 THEN s[3] ELSE rayMul(s[3], rayMul(s[2], s[2]))
         /\ s[1] # 0 => Turned(s)[1] < s[1]
<1>1. s[1] \in Nat /\ s[2] \in Nat /\ s[3] \in Nat
  BY DEF Turns
<1> DEFINE half == s[1] \div 2
           square == rayMul(s[2], s[2])
           product == IF s[1] % 2 = 0 THEN s[3] ELSE rayMul(s[3], rayMul(s[2], s[2]))
<1>2. half \in Nat /\ (s[1] # 0 => half < s[1])
  BY <1>1
<1>3. square \in Nat
  BY <1>1, RayMulNat
<1>4. product \in Nat
  BY <1>1, <1>3, RayMulNat
<1>5. Turned(s) = <<half, square, product>>
  BY DEF Turned
<1> HIDE DEF half, square, product
<1>6. Turned(s) \in Turns /\ Turned(s)[1] = half /\ Turned(s)[2] = square
      /\ Turned(s)[3] = product
  BY <1>2, <1>3, <1>4, <1>5 DEF Turns
<1> QED BY <1>1, <1>2, <1>6 DEF half, square, product

\* The functions that are the loop for exponents up to n.
LoopsUpTo(n) == {f \in [Turns -> Nat] : \A s \in Turns : s[1] <= n => Loops(f, s)}

\* Loops for exponents up to a bound: all agree below it, and there is one.
LEMMA LoopsAgree ==
  ASSUME NEW n \in Nat, NEW m \in Nat, n <= m, NEW f \in LoopsUpTo(n), NEW g \in LoopsUpTo(m)
  PROVE  \A s \in Turns : s[1] <= n => f[s] = g[s]
<1> DEFINE G == {k \in Nat : \A s \in Turns : s[1] = k /\ k <= n => f[s] = g[s]}
<1>1. ASSUME NEW k \in Nat, \A j \in Nat : j < k => j \in G
      PROVE  k \in G
  <2> SUFFICES ASSUME NEW s \in Turns, s[1] = k, k <= n PROVE f[s] = g[s]
    OBVIOUS
  <2>1. Loops(f, s) /\ Loops(g, s)
    BY DEF LoopsUpTo
  <2>2. CASE k = 0
    BY <2>1, <2>2 DEF Loops
  <2>3. CASE k # 0
    <3>1. Turned(s) \in Turns /\ Turned(s)[1] \in Nat /\ Turned(s)[1] < k
      BY <2>3, TurnedIs
    <3>2. Turned(s)[1] \in G /\ Turned(s)[1] <= n
      BY <1>1, <3>1
    <3>3. f[Turned(s)] = g[Turned(s)]
      BY <3>1, <3>2
    <3> QED BY <2>1, <2>3, <3>3 DEF Loops
  <2> QED BY <2>2, <2>3
<1> HIDE DEF G
<1>2. Nat \subseteq G
  BY <1>1, NatBelow
<1>3. \A s \in Turns : s[1] \in Nat
  BY TurnedIs
<1> QED BY <1>2, <1>3 DEF G

LEMMA LoopsExistUpTo == \A n \in Nat : LoopsUpTo(n) # {}
<1> DEFINE G == {n \in Nat : LoopsUpTo(n) # {}}
<1>1. ASSUME NEW n \in Nat, \A m \in Nat : m < n => m \in G
      PROVE  n \in G
  <2>1. CASE n = 0
    <3> DEFINE f == [s \in Turns |-> s[3]]
    <3>1. f \in [Turns -> Nat]
      BY TurnedIs
    <3>2. \A s \in Turns : s[1] <= n => Loops(f, s)
      BY <2>1, TurnedIs DEF Loops
    <3>3. f \in LoopsUpTo(n)
      BY <3>1, <3>2 DEF LoopsUpTo
    <3> QED BY <3>3
  <2>2. CASE n # 0
    <3>1. n - 1 \in Nat /\ n - 1 < n
      BY <2>2
    <3>2. PICK f : f \in LoopsUpTo(n - 1)
      BY <1>1, <3>1
    <3>3. f \in [Turns -> Nat] /\ \A s \in Turns : s[1] <= n - 1 => Loops(f, s)
      BY <3>2 DEF LoopsUpTo
    <3> DEFINE g == [s \in Turns |-> IF s[1] = n THEN f[Turned(s)] ELSE f[s]]
    <3>4. g \in [Turns -> Nat]
      BY <3>3, TurnedIs
    <3>5. ASSUME NEW s \in Turns, s[1] <= n PROVE Loops(g, s)
      <4>1. s[1] \in Nat /\ Turned(s) \in Turns /\ (s[1] # 0 => Turned(s)[1] < s[1])
        BY TurnedIs
      <4>2. s[1] # 0 => g[Turned(s)] = f[Turned(s)]
        BY <3>5, <4>1
      <4>3. CASE s[1] = n
        BY <2>2, <4>1, <4>2, <4>3 DEF Loops
      <4>4. CASE s[1] # n
        <5>1. Loops(f, s)
          BY <3>1, <3>3, <3>5, <4>1, <4>4
        <5>2. g[s] = f[s]
          BY <4>4
        <5> HIDE DEF g
        <5> QED BY <4>2, <5>1, <5>2 DEF Loops
      <4> QED BY <4>3, <4>4
    <3> HIDE DEF g
    <3>6. g \in LoopsUpTo(n)
      BY <3>4, <3>5 DEF LoopsUpTo
    <3> QED BY <3>6
  <2> QED BY <2>1, <2>2
<1> HIDE DEF G
<1>2. Nat \subseteq G
  BY <1>1, NatBelow
<1> QED BY <1>2 DEF G

LEMMA LoopsExist == \E f \in [Turns -> Nat] : \A s \in Turns : Loops(f, s)
<1> DEFINE sol(n) == CHOOSE f : f \in LoopsUpTo(n)
           f == [s \in Turns |-> sol(s[1])[s]]
<1>1. ASSUME NEW n \in Nat PROVE sol(n) \in LoopsUpTo(n)
  <2>1. \E g : g \in LoopsUpTo(n)
    BY LoopsExistUpTo
  <2> QED BY <2>1
<1> HIDE DEF sol
<1>2. f \in [Turns -> Nat]
  <2>1. ASSUME NEW s \in Turns PROVE sol(s[1])[s] \in Nat
    BY <1>1, TurnedIs DEF LoopsUpTo
  <2> QED BY <2>1
<1>3. ASSUME NEW s \in Turns PROVE Loops(f, s)
  <2>1. /\ s[1] \in Nat /\ Turned(s) \in Turns /\ Turned(s)[1] \in Nat
        /\ s[1] # 0 => Turned(s)[1] <= s[1]
    BY TurnedIs
  <2> DEFINE n == s[1]
             m == Turned(s)[1]
  <2>2. f[s] = sol(n)[s] /\ f[Turned(s)] = sol(m)[Turned(s)]
    BY <2>1
  <2>3. Loops(sol(n), s)
    BY <1>1, <2>1 DEF LoopsUpTo
  <2>4. n # 0 => sol(m)[Turned(s)] = sol(n)[Turned(s)]
    <3> HIDE DEF f
    <3>1. sol(n) \in LoopsUpTo(n) /\ sol(m) \in LoopsUpTo(m)
      BY <1>1, <2>1
    <3> QED BY <2>1, <3>1, LoopsAgree
  <2> HIDE DEF f
  <2> QED BY <2>2, <2>3, <2>4 DEF Loops
<1> HIDE DEF f
<1> QED BY <1>2, <1>3

\* rayPow(a, p) is the loop from the lowest bit of p.
LEMMA RayPowLoop ==
  \E loop : /\ \A s \in Turns : loop[s] = IF s[1] = 0 THEN s[3] ELSE loop[Turned(s)]
            /\ \A a, p : rayPow(a, p) = loop[<<p \div 2, a, IF p % 2 = 0 THEN RAY ELSE a>>]
<1> DEFINE Solves(f) == f = [s \in Turns |-> IF s[1] = 0 THEN s[3] ELSE f[Turned(s)]]
           loop == CHOOSE f : Solves(f)
<1>1. Solves(loop)
  <2>1. PICK f \in [Turns -> Nat] : \A s \in Turns : Loops(f, s)
    BY LoopsExist
  <2>2. Solves(f)
    <3>1. f = [s \in Turns |-> f[s]]
      BY <2>1
    <3> QED BY <2>1, <3>1 DEF Loops
  <2> HIDE DEF Solves
  <2> QED BY <2>2
<1>2. \A s \in Turns : loop[s] = IF s[1] = 0 THEN s[3] ELSE loop[Turned(s)]
  <2> HIDE DEF loop
  <2> QED BY <1>1
<1>3. \A a, p : rayPow(a, p) = loop[<<p \div 2, a, IF p % 2 = 0 THEN RAY ELSE a>>]
  BY RayPowUnfolds
<1> HIDE DEF loop, Solves
<1> QED BY <1>2, <1>3

\* A growth of one or more, compounded: rayPow(a, p) is one or more.
LEMMA RayPowAtLeast ==
  ASSUME NEW a \in Nat, a >= RAY, NEW p \in Nat
  PROVE  rayPow(a, p) \in Nat /\ rayPow(a, p) >= RAY
<1>2. PICK loop : /\ \A s \in Turns : loop[s] = IF s[1] = 0 THEN s[3] ELSE loop[Turned(s)]
                  /\ \A b, q : rayPow(b, q) = loop[<<q \div 2, b, IF q % 2 = 0 THEN RAY ELSE b>>]
  BY RayPowLoop, Zenon
<1>3. rayPow(a, p) = loop[<<p \div 2, a, IF p % 2 = 0 THEN RAY ELSE a>>]
  BY <1>2
<1> DEFINE G == {n \in Nat : \A s \in Turns : s[1] = n /\ s[2] >= RAY =>
                               loop[s] \in Nat /\ loop[s] >= s[3]}
<1>4. ASSUME NEW n \in Nat, \A m \in Nat : m < n => m \in G
      PROVE  n \in G
  <2> SUFFICES ASSUME NEW s \in Turns, s[1] = n, s[2] >= RAY
               PROVE  loop[s] \in Nat /\ loop[s] >= s[3]
    OBVIOUS
  <2> DEFINE x == s[2]
             z == s[3]
             y == Turned(s)
             square == rayMul(x, x)
  <2>1. /\ x \in Nat /\ z \in Nat /\ y \in Turns /\ y[1] \in Nat /\ y[2] = square
        /\ y[3] = IF n % 2 = 0 THEN z ELSE rayMul(z, square)
        /\ n # 0 => y[1] < n
    BY TurnedIs
  <2>2. CASE n = 0
    <3>1. loop[s] = z
      BY <1>2, <2>2
    <3> QED BY <2>1, <3>1
  <2>3. CASE n # 0
    <3>1. square \in Nat /\ square >= x
      BY <2>1, RayMulNat, RayMulAtLeast
    <3>2. square >= RAY
      BY <2>1, <3>1, RayAssumption
    <3> HIDE DEF square, y, x, z
    <3>3. y[3] \in Nat /\ y[3] >= z
      BY <2>1, <3>1, <3>2, RayMulNat, RayMulAtLeast
    <3>4. loop[y] \in Nat /\ loop[y] >= y[3]
      <4>1. y[1] \in G
        BY <1>4, <2>1, <2>3
      <4> QED BY <2>1, <3>2, <4>1
    <3>5. loop[s] = loop[y]
      BY <1>2, <2>3 DEF y
    <3> QED BY <2>1, <3>3, <3>4, <3>5 DEF z
  <2> QED BY <2>2, <2>3
<1> HIDE DEF G
<1>5. Nat \subseteq G
  BY <1>4, NatBelow
<1> DEFINE z == IF p % 2 = 0 THEN RAY ELSE a
           s == <<p \div 2, a, z>>
<1>6. z \in Nat /\ z >= RAY /\ p \div 2 \in Nat
  BY RayAssumption
<1> HIDE DEF z
<1>7. s \in Turns /\ s[1] \in Nat /\ s[2] = a /\ s[3] = z
  BY <1>6 DEF Turns
<1> HIDE DEF s
<1>8. loop[s] \in Nat /\ loop[s] >= z
  BY <1>5, <1>7 DEF G
<1>9. rayPow(a, p) = loop[s]
  BY <1>3 DEF s, z
<1> QED BY <1>6, <1>8, <1>9, RayAssumption

-----------------------------------------------------------------------------
(***************************************************************************)
(* A power against the binomial series to its third term, which            *)
(* calculateCompoundedInterest takes in its place: Series(u, k) is that of   *)
(* k compoundings of u, times 6 * RAY * RAY, without a rounding.           *)
(***************************************************************************)
Series(u, k) ==
  6 * (RAY * RAY * RAY) + 6 * (RAY * RAY) * (k * u)
    + 3 * RAY * (k * (k - 1) * (u * u))
    + k * (k - 1) * (k - 2) * (u * u * u)

\* The binomial coefficients of a sum of exponents, times a power of u.
LEMMA TermsOfSum ==
  ASSUME NEW u \in Nat, NEW j \in Nat, NEW k \in Nat
  PROVE  /\ (j + k) * u = j * u + k * u
         /\ (j + k) * (j + k - 1) * (u * u)
              = j * (j - 1) * (u * u) + k * (k - 1) * (u * u) + 2 * ((j * u) * (k * u))
         /\ (j + k) * (j + k - 1) * (j + k - 2) * (u * u * u)
              = j * (j - 1) * (j - 2) * (u * u * u) + k * (k - 1) * (k - 2) * (u * u * u)
                + 3 * ((j * u) * (k * (k - 1) * (u * u)))
                + 3 * ((j * (j - 1) * (u * u)) * (k * u))
OBVIOUS

LEMMA ProductOfSums ==
  ASSUME NEW R \in Nat, NEW a1 \in Nat, NEW a2 \in Nat, NEW a3 \in Nat,
         NEW b1 \in Nat, NEW b2 \in Nat, NEW b3 \in Nat
  PROVE  (6 * (R * R * R) + 6 * (R * R) * a1 + 3 * R * a2 + a3)
           * (6 * (R * R * R) + 6 * (R * R) * b1 + 3 * R * b2 + b3)
         = 6 * (R * R * R)
             * (6 * (R * R * R) + 6 * (R * R) * (a1 + b1)
                  + 3 * R * (a2 + b2 + 2 * (a1 * b1))
                  + (a3 + b3 + 3 * (a1 * b2) + 3 * (a2 * b1)))
           + 9 * (R * R) * (a2 * b2) + 6 * (R * R) * (a1 * b3) + 6 * (R * R) * (a3 * b1)
           + 3 * R * (a2 * b3) + 3 * R * (a3 * b2) + a3 * b3
OBVIOUS

\* The terms of the series, each over its power of RAY, are naturals.
LEMMA TermsNat ==
  ASSUME NEW u \in Nat, NEW k \in Nat
  PROVE  /\ k * u \in Nat /\ k * (k - 1) * (u * u) \in Nat
         /\ k * (k - 1) * (k - 2) * (u * u * u) \in Nat
<1>1. k * (k - 1) \in Nat /\ k * (k - 1) * (k - 2) \in Nat
  <2>1. CASE k = 0 \/ k = 1
    BY <2>1
  <2>2. CASE k # 0 /\ k # 1
    <3> DEFINE i == k - 1
               j == k - 2
    <3>1. i \in Nat /\ j \in Nat
      BY <2>2
    <3> HIDE DEF i, j
    <3>2. k * i \in Nat
      BY ONLY k \in Nat, <3>1
    <3>3. k * i * j \in Nat
      BY ONLY <3>1, <3>2
    <3> QED BY <3>2, <3>3 DEF i, j
  <2> QED BY <2>1, <2>2
<1>2. u * u \in Nat /\ u * u * u \in Nat /\ k * u \in Nat
  OBVIOUS
<1> DEFINE p == k * (k - 1)
           q == k * (k - 1) * (k - 2)
           v == u * u
           w == u * u * u
<1> HIDE DEF p, q, v, w
<1>3. p * v \in Nat /\ q * w \in Nat
  BY ONLY <1>1, <1>2 DEF p, q, v, w
<1> QED BY <1>2, <1>3 DEF p, q, v, w

\* What the first terms of two powers say of the power of the sum.
LEMMA SeriesTimes ==
  ASSUME NEW u \in Nat, NEW j \in Nat, NEW k \in Nat
  PROVE  /\ Series(u, k) \in Nat /\ Series(u, k) >= 6 * (RAY * RAY * RAY)
         /\ Series(u, j) * Series(u, k) >= 6 * (RAY * RAY * RAY) * Series(u, j + k)
<1> DEFINE a1 == j * u
           a2 == j * (j - 1) * (u * u)
           a3 == j * (j - 1) * (j - 2) * (u * u * u)
           b1 == k * u
           b2 == k * (k - 1) * (u * u)
           b3 == k * (k - 1) * (k - 2) * (u * u * u)
<1>1. /\ a1 \in Nat /\ a2 \in Nat /\ a3 \in Nat
      /\ b1 \in Nat /\ b2 \in Nat /\ b3 \in Nat
  BY TermsNat
<1>2. /\ (j + k) * u = a1 + b1
      /\ (j + k) * (j + k - 1) * (u * u) = a2 + b2 + 2 * (a1 * b1)
      /\ (j + k) * (j + k - 1) * (j + k - 2) * (u * u * u)
           = a3 + b3 + 3 * (a1 * b2) + 3 * (a2 * b1)
  BY TermsOfSum
<1> DEFINE R == RAY
<1>3. R \in Nat
  BY RayAssumption
<1>4. /\ Series(u, j) = 6 * (R * R * R) + 6 * (R * R) * a1 + 3 * R * a2 + a3
      /\ Series(u, k) = 6 * (R * R * R) + 6 * (R * R) * b1 + 3 * R * b2 + b3
      /\ Series(u, j + k) = 6 * (R * R * R) + 6 * (R * R) * (a1 + b1)
                              + 3 * R * (a2 + b2 + 2 * (a1 * b1))
                              + (a3 + b3 + 3 * (a1 * b2) + 3 * (a2 * b1))
  BY <1>2 DEF Series
<1> HIDE DEF R, a1, a2, a3, b1, b2, b3
<1> DEFINE F == 6 * (R * R * R) + 6 * (R * R) * a1 + 3 * R * a2 + a3
           G == 6 * (R * R * R) + 6 * (R * R) * b1 + 3 * R * b2 + b3
           H == 6 * (R * R * R) + 6 * (R * R) * (a1 + b1)
                              + 3 * R * (a2 + b2 + 2 * (a1 * b1))
                              + (a3 + b3 + 3 * (a1 * b2) + 3 * (a2 * b1))
           rest == 9 * (R * R) * (a2 * b2) + 6 * (R * R) * (a1 * b3)
                     + 6 * (R * R) * (a3 * b1)
                     + 3 * R * (a2 * b3) + 3 * R * (a3 * b2) + a3 * b3
<1>5. F * G = 6 * (R * R * R) * H + rest
  <2>1. F * G = 6 * (R * R * R) * H + 9 * (R * R) * (a2 * b2) + 6 * (R * R) * (a1 * b3)
                     + 6 * (R * R) * (a3 * b1)
                     + 3 * R * (a2 * b3) + 3 * R * (a3 * b2) + a3 * b3
    BY ONLY <1>1, <1>3, ProductOfSums
  <2>2. H \in Int /\ 6 * (R * R * R) * H \in Int
    BY ONLY <1>1, <1>3
  <2> QED BY ONLY <1>1, <1>3, <2>1, <2>2
<1>6. rest \in Nat
  <2>1. \A x, y, z \in Nat : x * y * z \in Nat /\ x * (y * z) \in Nat /\ x * y \in Nat
    OBVIOUS
  <2>2. R * R \in Nat /\ 9 * (R * R) \in Nat /\ 6 * (R * R) \in Nat /\ 3 * R \in Nat
    BY ONLY <1>3, <2>1
  <2> DEFINE n9 == 9 * (R * R)
             n6 == 6 * (R * R)
             n3 == 3 * R
  <2> HIDE DEF n9, n6, n3
  <2>3. /\ n9 * (a2 * b2) \in Nat /\ n6 * (a1 * b3) \in Nat /\ n6 * (a3 * b1) \in Nat
        /\ n3 * (a2 * b3) \in Nat /\ n3 * (a3 * b2) \in Nat /\ a3 * b3 \in Nat
    BY ONLY <1>1, <2>1, <2>2 DEF n9, n6, n3
  <2> QED BY <2>3 DEF n9, n6, n3
<1> HIDE DEF rest
<1>7. H \in Int /\ F \in Int /\ 6 * (R * R * R) * H \in Int
  BY ONLY <1>1, <1>3
<1>8. G \in Nat /\ G >= 6 * (R * R * R)
  <2>1. \A x, y \in Nat : x * y \in Nat
    OBVIOUS
  <2>2. R * R \in Nat /\ R * R * R \in Nat
    BY ONLY <1>3, <2>1
  <2> DEFINE x == 6 * (R * R)
             y == 3 * R
             o == R * R * R
  <2>3. x \in Nat /\ y \in Nat /\ o \in Nat
    BY <1>3, <2>2
  <2> HIDE DEF x, y, o
  <2>4. x * b1 \in Nat /\ y * b2 \in Nat
    BY ONLY <1>1, <2>1, <2>3
  <2> DEFINE c == x * b1
             d == y * b2
  <2> HIDE DEF c, d
  <2>5. 6 * o + c + d + b3 \in Nat /\ 6 * o + c + d + b3 >= 6 * o
    BY ONLY <1>1, <2>3, <2>4 DEF c, d
  <2> QED BY <2>5 DEF c, d, x, y, o
<1> HIDE DEF F, G, H
<1>9. F * G >= 6 * (R * R * R) * H
  <2> DEFINE e == 6 * (R * R * R) * H
             f == F * G
  <2>1. e \in Int /\ f = e + rest
    BY <1>5, <1>7
  <2> HIDE DEF e, f
  <2>2. f >= e
    BY ONLY <1>6, <2>1
  <2> QED BY <2>2 DEF e, f
<1>10. Series(u, j) = F /\ Series(u, k) = G /\ Series(u, j + k) = H
  BY <1>4 DEF F, G, H
<1> QED BY <1>8, <1>9, <1>10 DEF R

\* A power is the series to the third term, for a base a unit less, and one more.
Above(x, u, k) == 6 * (RAY * RAY) * x >= Series(u, k) + 6 * (RAY * RAY)

\* The product of two powers, rounded, is a power above its series too: what
\* the rounding takes away the second of the two units gives.
LEMMA AboveTimes ==
  ASSUME NEW u \in Nat, NEW j \in Nat, NEW k \in Nat, NEW x \in Nat, NEW y \in Nat,
         Above(x, u, j), Above(y, u, k)
  PROVE  rayMul(x, y) \in Nat /\ Above(rayMul(x, y), u, j + k)
<1> DEFINE R == RAY
           q == rayMul(x, y)
           f == Series(u, j)
           g == Series(u, k)
           s == Series(u, j + k)
<1>1. R \in Nat /\ R > 0 /\ q \in Nat
  BY RayAssumption, RayMulNat
<1>2. /\ f \in Nat /\ f >= 6 * (R * R * R) /\ g \in Nat /\ g >= 6 * (R * R * R)
      /\ s \in Nat /\ f * g >= 6 * (R * R * R) * s
  <2>1. j + k \in Nat
    OBVIOUS
  <2> QED BY <2>1, SeriesTimes
<1>3. 6 * (R * R) * x >= f + 6 * (R * R) /\ 6 * (R * R) * y >= g + 6 * (R * R)
  BY DEF Above
<1>4. 2 * R * q >= 2 * (x * y) - R
  <2>1. 2 * (x * y) < 2 * (R * q) + R
    BY RayMulBounds
  <2> DEFINE p == x * y
  <2>2. p \in Int /\ R * q \in Int
    BY <1>1
  <2> HIDE DEF p, q, R
  <2>3. 2 * (R * q) >= 2 * p - R
    BY <1>1, <2>1, <2>2 DEF p
  <2>4. 2 * R * q = 2 * (R * q)
    BY ONLY <1>1
  <2> QED BY <2>3, <2>4 DEF p
<1> HIDE DEF R, q, f, g, s
<1>5. 36 * (R * R * R * R) * (x * y) >= 6 * (R * R * R) * s + 72 * (R * R * R * R * R)
  <2> DEFINE o == 6 * (R * R)
  <2>1. o \in Nat /\ o * x \in Nat /\ o * y \in Nat /\ f + o \in Nat /\ g + o \in Nat
    BY ONLY <1>1, <1>2, x \in Nat, y \in Nat
  <2>2. f + o <= o * x /\ g + o <= o * y
    BY ONLY <1>1, <1>2, <1>3, <2>1
  <2>3. (f + o) * (g + o) <= (o * x) * (o * y)
    <3> HIDE DEF o
    <3> QED BY <2>1, <2>2, ProductMonotone
  <2>4. (o * x) * (o * y) = 36 * (R * R * R * R) * (x * y)
    BY ONLY <1>1, x \in Nat, y \in Nat
  <2>5. (f + o) * (g + o) = f * g + o * f + o * g + 36 * (R * R * R * R)
    BY ONLY <1>1, <1>2
  <2>6. o * f >= 36 * (R * R * R * R * R) /\ o * g >= 36 * (R * R * R * R * R)
    <3>1. o * (6 * (R * R * R)) = 36 * (R * R * R * R * R)
      BY ONLY <1>1
    <3>2. 6 * (R * R * R) \in Nat
      BY ONLY <1>1
    <3> DEFINE e == 6 * (R * R * R)
    <3> HIDE DEF o, e
    <3>3. o * e <= o * f /\ o * e <= o * g
      BY ONLY <1>2, <2>1, <3>2 DEF e
    <3> QED BY <3>1, <3>3 DEF e
  <2>7. /\ 36 * (R * R * R * R) \in Nat /\ 36 * (R * R * R * R * R) \in Nat
        /\ f * g \in Nat /\ o * f \in Nat /\ o * g \in Nat
        /\ 6 * (R * R * R) * s \in Nat
    BY ONLY <1>1, <1>2, <2>1
  <2>8. 72 * (R * R * R * R * R) = 36 * (R * R * R * R * R) + 36 * (R * R * R * R * R)
    BY ONLY <1>1
  <2> DEFINE a == 36 * (R * R * R * R)
             b == 36 * (R * R * R * R * R)
             c == f * g
             d == o * f
             e == o * g
             t == 6 * (R * R * R) * s
             v == (o * x) * (o * y)
  <2>9. v \in Int
    BY <2>1
  <2> HIDE DEF a, b, c, d, e, t, v, o
  <2>10. c + d + e + a <= v
    BY <2>3, <2>5 DEF a, c, d, e, v
  <2>11. c >= t /\ d >= b /\ e >= b
    BY <1>2, <2>6 DEF b, c, d, e, t
  <2>12. a \in Nat /\ b \in Nat /\ c \in Nat /\ d \in Nat /\ e \in Nat /\ t \in Nat
    BY <2>7 DEF a, b, c, d, e, t
  <2>13. v >= t + (b + b)
    BY ONLY <2>9, <2>10, <2>11, <2>12
  <2> QED BY <2>4, <2>8, <2>13 DEF b, t, v
<1>6. 6 * R * (x * y) >= s + 12 * (R * R)
  <2> DEFINE c == 6 * (R * R * R)
             v == 6 * R * (x * y)
             w == s + 12 * (R * R)
  <2>1. c \in Nat /\ c > 0 /\ v \in Int /\ w \in Int
    BY ONLY <1>1, <1>2, x \in Nat, y \in Nat
  <2>2. c * v = 36 * (R * R * R * R) * (x * y)
    BY ONLY <1>1, x \in Nat, y \in Nat
  <2>3. c * w = 6 * (R * R * R) * s + 72 * (R * R * R * R * R)
    BY ONLY <1>1, <1>2
  <2>4. c * v >= c * w
    BY <1>5, <2>2, <2>3
  <2> HIDE DEF c, v, w
  <2>5. v >= w
    BY ONLY <2>1, <2>4
  <2> QED BY <2>5 DEF v, w
<1>7. 6 * (R * R) * q >= s + 6 * (R * R)
  <2> DEFINE p == x * y
             r == R * R
  <2>1. p \in Nat /\ r \in Nat
    BY ONLY <1>1, x \in Nat, y \in Nat
  <2>2. 3 * R * (2 * R * q) >= 3 * R * (2 * p - R)
    <3> DEFINE v == 2 * R * q
               w == 2 * p - R
    <3>1. v \in Int /\ w \in Int /\ v >= w /\ 3 * R \in Nat
      BY ONLY <1>1, <1>4, <2>1
    <3> DEFINE c == 3 * R
    <3> HIDE DEF c, v, w
    <3>2. c * v >= c * w
      BY ONLY <3>1 DEF c
    <3> QED BY <3>2 DEF c, v, w
  <2>3. 3 * R * (2 * R * q) = 6 * r * q /\ 3 * R * (2 * p - R) = 6 * R * p - 3 * r
    BY ONLY <1>1, <2>1
  <2>4. 6 * R * p \in Int /\ 6 * r * q \in Int
    BY ONLY <1>1, <2>1
  <2> DEFINE a == 6 * R * p
             b == 6 * r * q
  <2>5. a >= s + 12 * r /\ b >= a - 3 * r
    BY <1>6, <2>2, <2>3
  <2> HIDE DEF a, b, p, r
  <2>6. b >= s + 6 * r
    BY ONLY <1>2, <2>1, <2>4, <2>5 DEF a, b
  <2> QED BY <2>6 DEF b, r
<1> QED BY <1>1, <1>7 DEF Above, R, q, s

LEMMA AboveGrows ==
  ASSUME NEW u \in Nat, NEW k \in Nat, NEW x \in Nat, NEW y \in Nat, x <= y, Above(x, u, k)
  PROVE  Above(y, u, k)
<1> DEFINE c == 6 * (RAY * RAY)
           e == Series(u, k) + 6 * (RAY * RAY)
<1>1. c \in Nat /\ e \in Int
  BY RayAssumption, SeriesTimes
<1>2. c * x >= e
  BY DEF Above
<1> HIDE DEF c, e
<1>3. c * x <= c * y
  BY <1>1
<1>4. c * y >= e
  BY <1>1, <1>2, <1>3
<1> QED BY <1>4 DEF Above, c, e

\* What rayPow's loop starts from and keeps: a power, or the one it starts with.
Begun(z, u, k) == Above(z, u, k) \/ (k = 0 /\ z = RAY)

LEMMA BegunTimes ==
  ASSUME NEW u \in Nat, NEW j \in Nat, NEW k \in Nat, NEW z \in Nat, NEW x \in Nat,
         Begun(z, u, j), Above(x, u, k)
  PROVE  rayMul(z, x) \in Nat /\ Above(rayMul(z, x), u, j + k)
<1>1. CASE Above(z, u, j)
  BY <1>1, AboveTimes
<1>2. CASE j = 0 /\ z = RAY
  <2>1. rayMul(z, x) \in Nat /\ x <= rayMul(z, x) /\ j + k = k
    BY <1>2, RayMulNat, RayMulAtLeast, RayAssumption
  <2> QED BY <2>1, AboveGrows
<1> QED BY <1>1, <1>2 DEF Begun

LEMMA Halves ==
  ASSUME NEW n \in Nat
  PROVE  /\ n \div 2 \in Nat
         /\ n % 2 = 0 => n = 2 * (n \div 2)
         /\ n % 2 # 0 => n = 2 * (n \div 2) + 1
OBVIOUS

\* Compounded every second by rayPow, a growth is more than the binomial series
\* to the third term says of a growth one unit less.
LEMMA RayPowAboveSeries ==
  ASSUME NEW u \in Nat, NEW p \in Nat \ {0}
  PROVE  rayPow(RAY + u + 1, p) \in Nat /\ Above(rayPow(RAY + u + 1, p), u, p)
<1> DEFINE a == RAY + u + 1
<1>0. RAY \in Nat /\ a \in Nat /\ a >= RAY
  BY RayAssumption
<1>1. PICK loop : /\ \A s \in Turns : loop[s] = IF s[1] = 0 THEN s[3] ELSE loop[Turned(s)]
                  /\ \A b, q : rayPow(b, q) = loop[<<q \div 2, b, IF q % 2 = 0 THEN RAY ELSE b>>]
  BY RayPowLoop, Zenon
<1>2. Above(a, u, 1)
  <2> DEFINE R == RAY
  <2>1. R \in Nat
    BY <1>0
  <2>2. Series(u, 1) = 6 * (R * R * R) + 6 * (R * R) * u
    BY <2>1 DEF Series
  <2> HIDE DEF R
  <2>3. 6 * (R * R) * (R + u + 1) = 6 * (R * R * R) + 6 * (R * R) * u + 6 * (R * R)
    BY ONLY <2>1, u \in Nat
  <2>4. 6 * (R * R * R) + 6 * (R * R) * u + 6 * (R * R) \in Int
    BY ONLY <2>1, u \in Nat
  <2> DEFINE c == 6 * (R * R * R) + 6 * (R * R) * u + 6 * (R * R)
  <2> HIDE DEF c
  <2>5. c >= c
    BY <2>4 DEF c
  <2> QED BY <2>2, <2>3, <2>5 DEF Above, R, c
<1> DEFINE Kept(s, m, k) == Above(s[2], u, m) /\ Begun(s[3], u, k)
           G == {n \in Nat : \A s \in Turns, m \in Nat, k \in Nat :
                   s[1] = n /\ Kept(s, m, k) => Begun(loop[s], u, k + 2 * (m * n))}
<1>3. ASSUME NEW n \in Nat, \A i \in Nat : i < n => i \in G
      PROVE  n \in G
  <2> SUFFICES ASSUME NEW s \in Turns, NEW m \in Nat, NEW k \in Nat, s[1] = n, Kept(s, m, k)
               PROVE  Begun(loop[s], u, k + 2 * (m * n))
    OBVIOUS
  <2> DEFINE x == s[2]
             z == s[3]
             y == Turned(s)
             square == rayMul(x, x)
  <2>1. /\ x \in Nat /\ z \in Nat /\ y \in Turns /\ y[1] \in Nat /\ y[1] = n \div 2
        /\ y[2] = square
        /\ y[3] = IF n % 2 = 0 THEN z ELSE rayMul(z, square)
        /\ n # 0 => y[1] < n
    BY TurnedIs
  <2>2. CASE n = 0
    <3>1. loop[s] = z
      BY <1>1, <2>2
    <3>2. k + 2 * (m * n) = k
      BY <2>2
    <3> QED BY <3>1, <3>2
  <2>3. CASE n # 0
    <3>1. square \in Nat /\ Above(square, u, m + m)
      BY <2>1, AboveTimes
    <3> DEFINE l == IF n % 2 = 0 THEN k ELSE k + (m + m)
    <3>2. l \in Nat /\ m + m \in Nat
      OBVIOUS
    <3>3. Begun(y[3], u, l)
      <4>1. CASE n % 2 = 0
        BY <2>1, <4>1
      <4>2. CASE n % 2 # 0
        <5>1. m + m \in Nat
          OBVIOUS
        <5>2. Above(rayMul(z, square), u, k + (m + m))
          <6> HIDE DEF square, x, z, y
          <6> QED BY <2>1, <3>1, <5>1, BegunTimes DEF z
        <5> QED BY <2>1, <4>2, <5>2 DEF Begun
      <4> QED BY <4>1, <4>2
    <3>4. l + 2 * ((m + m) * (n \div 2)) = k + 2 * (m * n)
      <4> DEFINE h == n \div 2
      <4>1. h \in Nat /\ (n % 2 = 0 => n = 2 * h) /\ (n % 2 # 0 => n = 2 * h + 1)
        BY Halves
      <4>2. k + 2 * ((m + m) * h) = k + 2 * (m * (2 * h))
        BY ONLY <4>1, k \in Nat, m \in Nat
      <4>3. k + (m + m) + 2 * ((m + m) * h) = k + 2 * (m * (2 * h + 1))
        BY ONLY <4>1, k \in Nat, m \in Nat
      <4> HIDE DEF h
      <4>4. CASE n % 2 = 0
        BY <4>1, <4>2, <4>4 DEF h
      <4>5. CASE n % 2 # 0
        BY <4>1, <4>3, <4>5 DEF h
      <4> QED BY <4>4, <4>5
    <3> HIDE DEF square, y, x, z, l
    <3>5. Begun(loop[y], u, l + 2 * ((m + m) * (n \div 2)))
      <4>1. y[1] \in G
        BY <1>3, <2>1, <2>3
      <4>2. Kept(y, m + m, l)
        BY <2>1, <3>1, <3>3
      <4> QED BY <2>1, <3>2, <4>1, <4>2
    <3>6. loop[s] = loop[y]
      BY <1>1, <2>3 DEF y
    <3> QED BY <3>4, <3>5, <3>6
  <2> QED BY <2>2, <2>3
<1> HIDE DEF G
<1>4. Nat \subseteq G
  BY <1>3, NatBelow
<1> DEFINE z == IF p % 2 = 0 THEN RAY ELSE a
           k == IF p % 2 = 0 THEN 0 ELSE 1
           s == <<p \div 2, a, z>>
<1>5. /\ z \in Nat /\ z >= RAY /\ p \div 2 \in Nat /\ k \in Nat
      /\ Begun(z, u, k)
      /\ k + 2 * (1 * (p \div 2)) = p
  <2> DEFINE h == p \div 2
  <2>1. p \in Nat /\ h \in Nat /\ (p % 2 = 0 => p = 2 * h) /\ (p % 2 # 0 => p = 2 * h + 1)
    <3>1. p \in Nat
      OBVIOUS
    <3> QED BY <3>1, Halves
  <2> HIDE DEF a, h
  <2>2. CASE p % 2 = 0
    <3>1. z = RAY /\ k = 0
      BY <2>2
    <3> HIDE DEF z, k
    <3> QED BY <1>0, <2>1, <2>2, <3>1 DEF Begun, h
  <2>3. CASE p % 2 # 0
    <3>1. z = a /\ k = 1
      BY <2>3
    <3> HIDE DEF z, k
    <3>2. 1 + 2 * (1 * h) = p
      BY <2>1, <2>3
    <3> QED BY <1>0, <1>2, <2>1, <3>1, <3>2 DEF Begun, h
  <2> QED BY <2>2, <2>3
<1> HIDE DEF z, k
<1>6. s \in Turns /\ s[1] = p \div 2 /\ s[2] = a /\ s[3] = z
  BY <1>0, <1>5 DEF Turns
<1>7. rayPow(a, p) = loop[s]
  BY <1>1 DEF z
<1> HIDE DEF s, a
<1>8. Begun(loop[s], u, k + 2 * (1 * (p \div 2)))
  <2> DEFINE one == 1
  <2>1. one \in Nat /\ Kept(s, one, k)
    BY <1>2, <1>5, <1>6
  <2> HIDE DEF one, Kept
  <2>2. Begun(loop[s], u, k + 2 * (one * (p \div 2)))
    BY <1>4, <1>5, <1>6, <2>1 DEF G
  <2> QED BY <2>2 DEF one
<1>9. Above(loop[s], u, p)
  BY <1>5, <1>8 DEF Begun
<1>10. rayPow(a, p) \in Nat
  BY <1>0, RayPowAtLeast
<1> QED BY <1>7, <1>9, <1>10 DEF a

\* What calculateCompoundedInterest says of n seconds is at most the series it
\* is cut from, with the square and the cube each rounded up by a half.
LEMMA CompoundedBelowSeries ==
  ASSUME NEW s \in Nat, NEW n \in Nat \ {0}
  PROVE  /\ binomialApproximatedRayPow(s, n) \in Nat
         /\ 12 * (RAY * RAY) * (binomialApproximatedRayPow(s, n) - RAY)
              <= 12 * (RAY * RAY) * (n * s)
                 + 3 * RAY * (n * (n - 1) * (2 * (s * s) + RAY))
                 + n * (n - 1) * (n - 2) * (2 * (s * s * s) + RAY * s + RAY * RAY)
<1> DEFINE R == RAY
           b2 == rayMul(s, s)
           b3 == rayMul(b2, s)
           past == IF n > 2 THEN n - 2 ELSE 0
           p == n * (n - 1)
           q == n * (n - 1) * (n - 2)
           d2 == DivDown(n * (n - 1) * b2, 2)
           d3 == DivDown(n * (n - 1) * past * b3, 6)
<1>1. R \in Nat /\ R > 0
  BY RayAssumption
<1>2. b2 \in Nat /\ b3 \in Nat
  BY RayMulNat
<1>3. binomialApproximatedRayPow(s, n) = R + n * s + d2 + d3
  BY DEF binomialApproximatedRayPow
<1>4. binomialApproximatedRayPow(s, n) \in Nat
  <2>1. n \in Nat /\ n <= n
    OBVIOUS
  <2> QED BY <2>1, BinomialMonotone
<1>5. p \in Nat /\ q \in Nat /\ n * (n - 1) * past = q
  <2>1. CASE n > 2
    <3> DEFINE i == n - 1
               j == n - 2
    <3>1. i \in Nat /\ j \in Nat
      BY <2>1
    <3> HIDE DEF i, j
    <3>2. n * i \in Nat
      BY ONLY n \in Nat \ {0}, <3>1
    <3>3. n * i * j \in Nat
      BY ONLY <3>1, <3>2
    <3> QED BY <2>1, <3>2, <3>3 DEF i, j
  <2>2. CASE n = 1
    BY <2>2
  <2>3. CASE n = 2
    BY <2>3
  <2> QED BY <2>1, <2>2, <2>3
<1>6. 2 * R * b2 <= 2 * (s * s) + R /\ 2 * R * b3 <= 2 * (b2 * s) + R
  <2>1. \A x, y \in Nat : 2 * R * rayMul(x, y) <= 2 * (x * y) + R
    <3> SUFFICES ASSUME NEW x \in Nat, NEW y \in Nat
                 PROVE  2 * R * rayMul(x, y) <= 2 * (x * y) + R
      OBVIOUS
    <3> DEFINE c == rayMul(x, y)
    <3>1. c \in Nat /\ 2 * (R * c) <= 2 * (x * y) + R
      BY RayMulBounds
    <3> HIDE DEF c, R
    <3>2. 2 * R * c = 2 * (R * c)
      BY ONLY <1>1, <3>1
    <3> QED BY <3>1, <3>2 DEF c
  <2> QED BY <1>2, <2>1
<1>7. d2 \in Int /\ d3 \in Int /\ 2 * d2 <= p * b2 /\ 6 * d3 <= q * b3
  <2>1. \A x \in Nat : /\ DivDown(x, 2) \in Int /\ 2 * DivDown(x, 2) <= x
                       /\ DivDown(x, 6) \in Int /\ 6 * DivDown(x, 6) <= x
    <3> SUFFICES ASSUME NEW x \in Nat
                 PROVE  /\ DivDown(x, 2) \in Int /\ 2 * DivDown(x, 2) <= x
                        /\ DivDown(x, 6) \in Int /\ 6 * DivDown(x, 6) <= x
      OBVIOUS
    <3>1. DivDown(x, 2) = x \div 2 /\ DivDown(x, 6) = x \div 6
      BY DEF DivDown
    <3>2. x \div 2 \in Int /\ 2 * (x \div 2) <= x /\ x \div 6 \in Int /\ 6 * (x \div 6) <= x
      BY DivBounds
    <3> QED BY <3>1, <3>2
  <2>2. p * b2 \in Nat /\ q * b3 \in Nat
    <3> HIDE DEF p, q, b2, b3
    <3> QED BY <1>2, <1>5
  <2>3. d2 = DivDown(p * b2, 2) /\ d3 = DivDown(q * b3, 6)
    BY <1>5
  <2> HIDE DEF p, q, b2, b3, d2, d3
  <2> QED BY <2>1, <2>2, <2>3
<1> DEFINE g == n * s
           v == s * s
           w == s * s * s
<1>8. g \in Nat /\ v \in Nat /\ w \in Nat /\ w = v * s
  OBVIOUS
<1> HIDE DEF R, b2, b3, p, q, d2, d3, g, v, w
<1>9. 2 * (R * R) * b3 <= 2 * w + R * s + R * R
  <2>1. R * (2 * R * b3) <= R * (2 * (b2 * s) + R)
    BY ONLY <1>1, <1>2, <1>6, s \in Nat
  <2>2. (2 * R * b2) * s <= (2 * v + R) * s
    <3> DEFINE x == 2 * R * b2
               y == 2 * v + R
    <3>1. x \in Nat /\ y \in Nat /\ x <= y /\ s <= s
      BY <1>1, <1>2, <1>6, <1>8 DEF v
    <3> HIDE DEF x, y
    <3>2. x * s <= y * s
      BY ONLY <3>1, s \in Nat
    <3> QED BY <3>2 DEF x, y
  <2>3. /\ R * (2 * R * b3) = 2 * (R * R) * b3
        /\ R * (2 * (b2 * s) + R) = (2 * R * b2) * s + R * R
        /\ (2 * v + R) * s = 2 * (v * s) + R * s
    BY ONLY <1>1, <1>2, <1>8, s \in Nat
  <2>4. 2 * (R * R) * b3 \in Int /\ (2 * R * b2) * s \in Int /\ R * R \in Int
        /\ v * s \in Int /\ R * s \in Int
    BY ONLY <1>1, <1>2, <1>8, s \in Nat
  <2> DEFINE a == 2 * (R * R) * b3
             b == (2 * R * b2) * s
             c == R * R
             d == v * s
             e == R * s
  <2>5. a <= b + c /\ b <= 2 * d + e
    BY <2>1, <2>2, <2>3
  <2> HIDE DEF a, b, c, d, e
  <2>6. a <= 2 * d + e + c
    BY ONLY <2>4, <2>5 DEF a, b, c, d, e
  <2> QED BY <1>8, <2>6 DEF a, c, d, e
<1>10. 12 * (R * R) * (g + d2 + d3)
         <= 12 * (R * R) * g + 6 * (R * R) * (p * b2) + 2 * (R * R) * (q * b3)
  <2> DEFINE x == p * b2
             y == q * b3
             r == R * R
  <2>1. x \in Nat /\ y \in Nat /\ r \in Nat
    BY ONLY <1>1, <1>2, <1>5
  <2>2. 2 * d2 <= x /\ 6 * d3 <= y
    BY <1>7
  <2> HIDE DEF x, y, r
  <2>3. 6 * r * (2 * d2) <= 6 * r * x /\ 2 * r * (6 * d3) <= 2 * r * y
    BY ONLY <1>7, <2>1, <2>2
  <2>4. 12 * r * (g + d2 + d3) = 12 * r * g + 6 * r * (2 * d2) + 2 * r * (6 * d3)
    BY ONLY <1>7, <1>8, <2>1
  <2>5. /\ 12 * r * g \in Int /\ 6 * r * (2 * d2) \in Int /\ 2 * r * (6 * d3) \in Int
        /\ 6 * r * x \in Int /\ 2 * r * y \in Int
    BY ONLY <1>7, <1>8, <2>1
  <2> DEFINE a == 12 * r * g
             b == 6 * r * (2 * d2)
             c == 2 * r * (6 * d3)
             d == 6 * r * x
             e == 2 * r * y
  <2> HIDE DEF a, b, c, d, e
  <2>6. a + b + c <= a + d + e
    BY ONLY <2>3, <2>5 DEF a, b, c, d, e
  <2> QED BY <2>4, <2>6 DEF a, b, c, d, e, x, y, r
<1>11. 6 * (R * R) * (p * b2) <= 3 * R * (p * (2 * v + R))
  <2> DEFINE x == 2 * R * b2
             y == 2 * v + R
             c == 3 * R * p
  <2>1. x \in Nat /\ y \in Nat /\ c \in Nat /\ x <= y
    BY <1>1, <1>2, <1>5, <1>6, <1>8 DEF v
  <2>2. c * x = 6 * (R * R) * (p * b2) /\ c * y = 3 * R * (p * (2 * v + R))
    BY ONLY <1>1, <1>2, <1>5, <1>8
  <2> HIDE DEF x, y, c
  <2>3. c * x <= c * y
    BY ONLY <2>1
  <2> QED BY <2>2, <2>3
<1>12. 2 * (R * R) * (q * b3) <= q * (2 * w + R * s + R * R)
  <2> DEFINE x == 2 * (R * R) * b3
             y == 2 * w + R * s + R * R
  <2>1. x \in Nat /\ y \in Nat
    BY ONLY <1>1, <1>2, <1>8, s \in Nat
  <2>2. q * x = 2 * (R * R) * (q * b3)
    BY ONLY <1>1, <1>2, <1>5
  <2>3. x <= y
    BY <1>9
  <2> HIDE DEF x, y
  <2>4. q * x <= q * y
    BY ONLY <1>5, <2>1, <2>3
  <2> QED BY <2>2, <2>4 DEF y
<1>13. 12 * (R * R) * (g + d2 + d3)
         <= 12 * (R * R) * g + 3 * R * (p * (2 * v + R)) + q * (2 * w + R * s + R * R)
  <2> DEFINE a == 12 * (R * R) * (g + d2 + d3)
             b == 12 * (R * R) * g
             c == 6 * (R * R) * (p * b2)
             d == 2 * (R * R) * (q * b3)
             e == 3 * R * (p * (2 * v + R))
             f == q * (2 * w + R * s + R * R)
  <2>1. a \in Int /\ b \in Int /\ c \in Int /\ d \in Int /\ e \in Int /\ f \in Int
    BY ONLY <1>1, <1>2, <1>5, <1>7, <1>8, s \in Nat
  <2>2. a <= b + c + d /\ c <= e /\ d <= f
    BY <1>10, <1>11, <1>12
  <2> HIDE DEF a, b, c, d, e, f
  <2>3. a <= b + e + f
    BY ONLY <2>1, <2>2
  <2> QED BY <2>3 DEF a, b, e, f
<1>14. binomialApproximatedRayPow(s, n) - R = g + d2 + d3
  BY <1>1, <1>3, <1>7, <1>8 DEF g
<1> QED BY <1>4, <1>13, <1>14 DEF R, g, p, q, v, w
=============================================================================
