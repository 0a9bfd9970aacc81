------------------------- MODULE RebalancingProofs -------------------------
(***************************************************************************)
(* What is proved of planning and trading, for any instruments, classes,   *)
(* weights, prices and fees.                                               *)
(***************************************************************************)
EXTENDS Rebalancing, Sums, SequenceTheorems

-----------------------------------------------------------------------------
(* Arithmetic.                                                             *)

LEMMA OfTwo ==
  ASSUME NEW a \in Int, NEW b \in Int
  PROVE  Min({a, b}) = (IF a <= b THEN a ELSE b) /\ Max({a, b}) = (IF a >= b THEN a ELSE b)
<1>1. \E x \in {a, b} : \A y \in {a, b} : x <= y OBVIOUS
<1>2. \E x \in {a, b} : \A y \in {a, b} : x >= y OBVIOUS
<1>3. Min({a, b}) \in {a, b} /\ \A y \in {a, b} : Min({a, b}) <= y BY <1>1 DEF Min
<1>4. Max({a, b}) \in {a, b} /\ \A y \in {a, b} : Max({a, b}) >= y BY <1>2 DEF Max
<1>q. QED BY <1>3, <1>4

LEMMA Division ==
  ASSUME NEW n \in Int, NEW d \in Nat \ {0}
  PROVE  n \div d \in Int /\ n % d \in 0..(d - 1) /\ n = d * (n \div d) + (n % d)
OBVIOUS

LEMMA Products ==
  ASSUME NEW a \in Int, NEW b \in Int, NEW c \in Nat, a <= b
  PROVE  a * c <= b * c /\ c * a <= c * b
OBVIOUS

LEMMA Quotients ==
  ASSUME NEW n \in Nat, NEW d \in Nat \ {0}
  PROVE  n \div d \in Nat /\ d * (n \div d) <= n
OBVIOUS

\* The quotient rounded up is the least number that reaches n.
LEMMA Ceiling ==
  ASSUME NEW n \in Nat, NEW d \in Nat \ {0}
  PROVE  CeilDiv(n, d) \in Nat /\ CeilDiv(n, d) * d >= n /\ (CeilDiv(n, d) - 1) * d < n
<1> DEFINE k == CeilDiv(n, d)
<1>1. n + d - 1 \in Nat OBVIOUS
<1>2. k \in Nat BY <1>1, Quotients DEF CeilDiv
<1>3. n + d - 1 = d * k + ((n + d - 1) % d) /\ (n + d - 1) % d \in 0..(d - 1)
  BY <1>1, Division DEF CeilDiv
<1> HIDE DEF k
<1>4. (k - 1) * d = d * k - d /\ k * d = d * k BY <1>2
<1>5. d * k \in Int BY <1>2
<1>q. QED BY <1>2, <1>3, <1>4, <1>5 DEF k

LEMMA Cancel ==
  ASSUME NEW a \in Int, NEW b \in Int, NEW c \in Nat \ {0}, c * a <= c * b PROVE a <= b
<1> SUFFICES ASSUME b + 1 <= a PROVE FALSE OBVIOUS
<1>1. c * (b + 1) <= c * a BY Products
<1>2. c * (b + 1) = c * b + c OBVIOUS
<1>3. c * a \in Int /\ c * b \in Int OBVIOUS
<1>q. QED BY <1>1, <1>2, <1>3

-----------------------------------------------------------------------------
(* Handing out by rank, and by largest remainder.                          *)

\* What an order by rank needs: distinct ranks.
Ranked(S) ==
  /\ \A x \in S : Rank[x] \in Nat
  /\ \A x, y \in S : Rank[x] = Rank[y] => x = y

LEMMA AheadIsStrict ==
  ASSUME NEW S, Ranked(S), NEW amount, \A x \in S : amount[x] \in Int
  PROVE  Strict([x \in S |-> {y \in S : Ahead(amount, y, x)}], S)
BY DEF Strict, Ahead, Ranked

LEMMA RankIsStrict ==
  ASSUME NEW S, Ranked(S)
  PROVE  Strict([x \in S |-> {y \in S : Rank[y] < Rank[x]}], S)
BY DEF Strict, Ranked

LEMMA SomeIsFirst ==
  ASSUME NEW S, IsFiniteSet(S), S # {}, Ranked(S) PROVE First(S) \in S
<1> DEFINE before == [x \in S |-> {y \in S : Rank[y] < Rank[x]}]
<1>1. Strict(before, S) BY RankIsStrict
<1>2. 0 < Cardinality(S)
  <2>1. Cardinality(S) \in Nat BY FS_CardinalityType
  <2>2. Cardinality(S) # 0 BY FS_EmptySet
  <2>q. QED BY <2>1, <2>2
<1>3. 0 \in Nat OBVIOUS
<1> HIDE DEF before
<1>4. PICK x \in S : before[x] = Firsts(before, S, 0) BY <1>1, <1>2, <1>3, NextFirst
<1>5. before[x] = {} BY <1>1, <1>4, AllFirsts
<1>6. \A y \in S : Rank[x] <= Rank[y]
  <2> TAKE y \in S
  <2>1. ~(Rank[y] < Rank[x]) BY <1>5 DEF before
  <2>q. QED BY <2>1 DEF Ranked
<1>q. QED BY <1>6 DEF First

LEMMA OneMore ==
  ASSUME NEW S, IsFiniteSet(S), NEW before, Strict(before, S), NEW k \in 0..Cardinality(S),
         NEW f, \A x \in S : f[x] = IF Cardinality(before[x]) < k THEN 1 ELSE 0
  PROVE  SumFunctionOnSet(f, S) = k
<1> DEFINE T == Firsts(before, S, k)
<1>1. \A x \in S : f[x] = IF x \in T THEN 1 ELSE 0 BY DEF Firsts, Place
<1>2. T \subseteq S BY DEF Firsts
<1>3. Cardinality(T) = k BY FirstsCount
<1> HIDE DEF T
<1>4. SumFunctionOnSet(f, S) = Cardinality(T) BY <1>1, <1>2, SumCounts
<1>q. QED BY <1>3, <1>4

LEMMA SumConstant ==
  ASSUME NEW S, IsFiniteSet(S), NEW k \in Int, NEW f, \A x \in S : f[x] = k
  PROVE  SumFunctionOnSet(f, S) = k * Cardinality(S)
<1> DEFINE one == [x \in S |-> 1]
<1>1. \A x \in S : one[x] = IF x \in S THEN 1 ELSE 0 OBVIOUS
<1>2. \A x \in S : one[x] \in Int /\ f[x] = k * one[x] OBVIOUS
<1> HIDE DEF one
<1>3. SumFunctionOnSet(one, S) = Cardinality(S) BY <1>1, SumCounts
<1>m. Multiple(f, k, one, S) BY <1>2 DEF Multiple
<1>4. SumFunctionOnSet(f, S) = k * SumFunctionOnSet(one, S) BY <1>m, SumTimes
<1>q. QED BY <1>3, <1>4

\* The largest remainders give out exactly what rounding down has left over.
\* (within-asset-allocation.ts: allocateByLargestRemainder)
LEMMA SharesAddUp ==
  ASSUME NEW S, IsFiniteSet(S), Ranked(S), NEW amount \in Nat, NEW part, NEW whole \in Nat \ {0},
         \A x \in S : part[x] \in Nat, SumFunctionOnSet(part, S) = whole
  PROVE  /\ SumFunctionOnSet(Shares(amount, part, whole, S), S) = amount
         /\ \A x \in S : Shares(amount, part, whole, S)[x] \in Nat
<1> DEFINE product == [x \in S |-> amount * part[x]]
           floor == [x \in S |-> (amount * part[x]) \div whole]
           remainder == [x \in S |-> (amount * part[x]) % whole]
           exact == [x \in S |-> whole * floor[x]]
           left == amount - SumFunctionOnSet(floor, S)
           before == [x \in S |-> {y \in S : Ahead(remainder, y, x)}]
           extra == [x \in S |-> IF Cardinality(before[x]) < left THEN 1 ELSE 0]
           shares == Shares(amount, part, whole, S)
<1>1. \A x \in S : /\ floor[x] \in Nat /\ remainder[x] \in 0..(whole - 1)
                   /\ product[x] \in Nat /\ exact[x] \in Int
                   /\ product[x] = exact[x] + remainder[x]
  <2> TAKE x \in S
  <2>1. product[x] \in Nat OBVIOUS
  <2>2. product[x] = whole * (product[x] \div whole) + (product[x] % whole)
    BY <2>1, Division
  <2>3. floor[x] = product[x] \div whole /\ remainder[x] = product[x] % whole OBVIOUS
  <2>4. floor[x] \in Nat /\ remainder[x] \in 0..(whole - 1)
    <3> DEFINE p == product[x]
    <3>1. p \in Nat /\ p \in Int BY <2>1
    <3> HIDE DEF p
    <3>2. p \div whole \in Nat BY <3>1, Quotients
    <3>3. p % whole \in 0..(whole - 1) BY <3>1, Division
    <3>q. QED BY <2>3, <3>2, <3>3 DEF p
  <2>5. exact[x] = whole * floor[x] OBVIOUS
  <2> HIDE DEF product, floor, remainder, exact
  <2>6. exact[x] \in Int BY <2>4, <2>5
  <2>q. QED BY <2>1, <2>2, <2>3, <2>4, <2>5, <2>6
<1>2. /\ \A x \in S : product[x] = amount * part[x]
      /\ \A x \in S : exact[x] = whole * floor[x]
  OBVIOUS
<1>3. shares = [x \in S |-> floor[x] + extra[x]]
  <2>1. DOMAIN floor = S OBVIOUS
  <2>2. SumFunction(floor) = SumFunctionOnSet(floor, S) BY <2>1 DEF SumFunction
  <2>3. \A x \in S : before[x] = {y \in S : Ahead(remainder, y, x)} OBVIOUS
  <2> HIDE DEF floor, remainder, before
  <2>q. QED BY <2>2, <2>3, Zenon DEF Shares, floor, remainder
<1>4. \A x \in S : extra[x] \in {0, 1} OBVIOUS
<1>5. Strict(before, S)
  <2>1. \A x \in S : remainder[x] \in Int BY <1>1
  <2> HIDE DEF remainder
  <2>q. QED BY <2>1, AheadIsStrict
<1>6. \A x \in S : extra[x] = IF Cardinality(before[x]) < left THEN 1 ELSE 0 OBVIOUS
<1> HIDE DEF product, floor, remainder, exact, before, extra, shares
<1> DEFINE F == SumFunctionOnSet(floor, S)  R == SumFunctionOnSet(remainder, S)
           n == Cardinality(S)
<1>7. SumFunctionOnSet(product, S) = amount * whole
  <2>1. Multiple(product, amount, part, S) BY <1>2 DEF Multiple
  <2>2. SumFunctionOnSet(product, S) = amount * SumFunctionOnSet(part, S)
    BY <2>1, SumTimes
  <2>q. QED BY <2>2
<1>8. SumFunctionOnSet(product, S) = SumFunctionOnSet(exact, S) + R
  <2>1. \A x \in S : exact[x] \in Int /\ remainder[x] \in Int BY <1>1
  <2>q. QED BY <1>1, <2>1, SumPlus
<1>9. SumFunctionOnSet(exact, S) = whole * F
  <2>1. Multiple(exact, whole, floor, S) BY <1>1, <1>2 DEF Multiple
  <2>2. SumFunctionOnSet(exact, S) = whole * SumFunctionOnSet(floor, S)
    BY <2>1, SumTimes
  <2>q. QED BY <2>2 DEF F
<1>10. F \in Nat /\ R \in Nat /\ n \in Nat
  <2>1. \A x \in S : floor[x] \in Nat /\ remainder[x] \in Nat BY <1>1
  <2>q. QED BY <2>1, SumBounds, FS_CardinalityType
<1>11. R <= whole * n
  <2> DEFINE full == [x \in S |-> whole]
  <2>1. \A x \in S : full[x] = whole OBVIOUS
  <2> HIDE DEF full
  <2>2. SumFunctionOnSet(full, S) = whole * n BY <2>1, SumConstant
  <2>3. \A x \in S : remainder[x] \in Int /\ full[x] \in Int /\ remainder[x] <= full[x]
    BY <1>1, <2>1
  <2>4. R <= SumFunctionOnSet(full, S) BY <2>3, SumAtMost
  <2>q. QED BY <2>2, <2>4
<1> HIDE DEF F, R, n
<1>12. left \in Int /\ left = amount - F BY <1>10 DEF F
<1> HIDE DEF left
<1>13. whole * left = R
  <2>1. whole * left = whole * amount - whole * F BY <1>10, <1>12
  <2>2. whole * amount = amount * whole OBVIOUS
  <2>3. whole * F \in Int /\ amount * whole \in Int BY <1>10
  <2>q. QED BY <1>7, <1>8, <1>9, <1>10, <2>1, <2>2, <2>3
<1>14. left \in 0..n
  <2>1. whole * 0 <= whole * left BY <1>10, <1>13
  <2>2. whole * left <= whole * n BY <1>11, <1>13
  <2>3. 0 <= left BY <1>12, <2>1, Cancel
  <2>4. left <= n BY <1>10, <1>12, <2>2, Cancel
  <2>q. QED BY <1>10, <1>12, <2>3, <2>4
<1>15. SumFunctionOnSet(extra, S) = left BY <1>5, <1>6, <1>14, OneMore DEF n
<1>16. \A x \in S : shares[x] = floor[x] + extra[x] BY <1>3
<1>17. SumFunctionOnSet(shares, S) = F + SumFunctionOnSet(extra, S)
  <2>1. \A x \in S : floor[x] \in Int /\ extra[x] \in Int BY <1>1, <1>4
  <2>2. SumFunctionOnSet(shares, S) = SumFunctionOnSet(floor, S) + SumFunctionOnSet(extra, S)
    BY <1>16, <2>1, SumPlus
  <2>q. QED BY <2>2 DEF F
<1>18. \A x \in S : shares[x] \in Nat BY <1>1, <1>4, <1>16
<1>q. QED BY <1>10, <1>12, <1>15, <1>17, <1>18 DEF shares

\* Equal points, and what is left over for the first in the order of the ranks.
\* (within-asset-allocation.ts: resolveEqualWithinAssetPoints)
LEMMA EqualPointsAddUp ==
  ASSUME NEW S, IsFiniteSet(S), Ranked(S), S # {}, Scale \in Nat
  PROVE  /\ SumFunctionOnSet(resolveEqualWithinAssetPoints(S), S) = Scale
         /\ \A x \in S : resolveEqualWithinAssetPoints(S)[x] \in Nat
<1> DEFINE n == Cardinality(S)
           before == [x \in S |-> {y \in S : Rank[y] < Rank[x]}]
           each == [x \in S |-> Scale \div n]
           extra == [x \in S |-> IF Cardinality(before[x]) < Scale % n THEN 1 ELSE 0]
           points == resolveEqualWithinAssetPoints(S)
<1>1. n \in Nat \ {0}
  <2>1. Cardinality(S) \in Nat BY FS_CardinalityType
  <2>2. Cardinality(S) # 0 BY FS_EmptySet
  <2>q. QED BY <2>1, <2>2
<1>2. Scale = n * (Scale \div n) + (Scale % n) /\ Scale % n \in 0..(n - 1) /\ Scale \div n \in Nat
  <2> HIDE DEF n
  <2>1. Scale \div n \in Nat BY <1>1, Quotients
  <2>2. Scale \in Int OBVIOUS
  <2>3. Scale = n * (Scale \div n) + (Scale % n) /\ Scale % n \in 0..(n - 1) BY <1>1, <2>2, Division
  <2>q. QED BY <2>1, <2>3
<1>3. Strict(before, S) BY RankIsStrict
<1>4. /\ \A x \in S : each[x] = Scale \div n
      /\ \A x \in S : extra[x] = IF Cardinality(before[x]) < Scale % n THEN 1 ELSE 0
      /\ \A x \in S : extra[x] \in {0, 1}
      /\ \A x \in S : points[x] = each[x] + extra[x]
  BY DEF resolveEqualWithinAssetPoints
<1> DEFINE q == Scale \div n  r == Scale % n
<1>5. q \in Nat /\ r \in 0..n BY <1>1, <1>2
<1> HIDE DEF n, before, each, extra, points
<1>6. SumFunctionOnSet(extra, S) = r BY <1>3, <1>4, <1>5, OneMore DEF n
<1>7. SumFunctionOnSet(each, S) = q * n BY <1>4, <1>5, SumConstant DEF n
<1>8. SumFunctionOnSet(points, S) = SumFunctionOnSet(each, S) + SumFunctionOnSet(extra, S)
  <2>1. \A x \in S : each[x] \in Int /\ extra[x] \in Int BY <1>4, <1>5
  <2>q. QED BY <1>4, <2>1, SumPlus
<1>9. Scale = q * n + r
  <2>1. q * n = n * q BY <1>1, <1>5
  <2>q. QED BY <1>2, <2>1
<1>10. \A x \in S : points[x] \in Nat BY <1>4, <1>5
<1>q. QED BY <1>6, <1>7, <1>8, <1>9, <1>10 DEF points

-----------------------------------------------------------------------------
(* The calculators.                                                        *)

LEMMA Constants ==
  /\ IsFiniteSet(Instruments) /\ IsFiniteSet(Securities) /\ IsFiniteSet(Classes)
  /\ ClassOf \in [Instruments -> Securities] /\ Cash \in Classes /\ Cash \notin Securities
  /\ \A S \in SUBSET Instruments : Ranked(S) /\ IsFiniteSet(S)
  /\ \A S \in SUBSET Securities : Ranked(S) /\ IsFiniteSet(S)
  /\ Scale \in Nat \ {0} /\ MaxDrift \in Nat /\ Minimum \in Nat /\ FeeBuffer \in Nat
  /\ FeePercent \in Nat
<1>1. IsFiniteSet(Classes) BY RebalancingAssumption, FS_AddElement DEF Classes
<1>2. Ranked(Instruments \cup Classes) BY RebalancingAssumption DEF Ranked
<1>3. \A S \in SUBSET Instruments : Ranked(S) BY <1>2 DEF Ranked
<1>4. \A S \in SUBSET Securities : Ranked(S) BY <1>2 DEF Ranked, Classes
<1>5. \A S \in SUBSET Instruments : IsFiniteSet(S) BY RebalancingAssumption, FS_Subset
<1>6. \A S \in SUBSET Securities : IsFiniteSet(S) BY RebalancingAssumption, FS_Subset
<1>q. QED BY <1>1, <1>3, <1>4, <1>5, <1>6, RebalancingAssumption DEF Classes

LEMMA BandOf ==
  ASSUME NEW w \in 0..Scale
  PROVE  Lower(w) \in 0..w /\ Upper(w) \in w..Scale /\ (w = 0 => Lower(w) = 0 /\ Upper(w) = 0)
<1>1. Scale \in Nat /\ MaxDrift \in Nat /\ w \in Nat /\ w <= Scale BY Constants
<1>2. CeilDiv(w, 4) \in Nat BY <1>1, Ceiling
<1>3. w = 0 => CeilDiv(w, 4) = 0
  <2>1. (0 + 4 - 1) \div 4 = 0 OBVIOUS
  <2>q. QED BY <2>1 DEF CeilDiv
<1>4. Drift(w) = IF CeilDiv(w, 4) <= MaxDrift THEN CeilDiv(w, 4) ELSE MaxDrift
  BY <1>1, <1>2, OfTwo DEF Drift
<1>5. Drift(w) \in Nat /\ (w = 0 => Drift(w) = 0) BY <1>1, <1>2, <1>3, <1>4
<1>6. w - Drift(w) \in Int /\ w + Drift(w) \in Int BY <1>1, <1>5
<1>7. Lower(w) = IF 0 >= w - Drift(w) THEN 0 ELSE w - Drift(w) BY <1>6, OfTwo DEF Lower
<1>8. Upper(w) = IF Scale <= w + Drift(w) THEN Scale ELSE w + Drift(w)
  BY <1>1, <1>6, OfTwo DEF Upper
<1>q. QED BY <1>1, <1>5, <1>7, <1>8

\* What is below its range is lifted by less than a won into it, what is above is
\* not lifted at all.
LEMMA EdgeValue ==
  ASSUME NEW value \in Nat, NEW w \in 0..Scale, NEW total \in Nat
  PROVE  /\ desiredBandEdgeValue(value, w, total) \in Nat
         /\ desiredBandEdgeValue(value, w, total) > value =>
              (desiredBandEdgeValue(value, w, total) - 1) * Scale < Lower(w) * total
         /\ w = 0 /\ value = 0 => desiredBandEdgeValue(value, w, total) = 0
<1> DEFINE l == Lower(w) * total  u == Upper(w) * total
           d == desiredBandEdgeValue(value, w, total)
<1>1. l \in Nat /\ u \in Nat /\ Scale \in Nat \ {0} /\ (w = 0 => l = 0 /\ u = 0)
  <2>1. Lower(w) \in Nat /\ Upper(w) \in Nat /\ (w = 0 => Lower(w) = 0 /\ Upper(w) = 0)
    BY BandOf
  <2>q. QED BY <2>1, Constants
<1>2. d = IF value * Scale < l THEN CeilDiv(l, Scale)
          ELSE IF value * Scale > u THEN u \div Scale ELSE value
  BY DEF desiredBandEdgeValue, classifyBand
<1>3. CASE value * Scale < l
  <2>1. d = CeilDiv(l, Scale) BY <1>2, <1>3
  <2> HIDE DEF l, u
  <2>2. CeilDiv(l, Scale) \in Nat /\ (CeilDiv(l, Scale) - 1) * Scale < l BY <1>1, Ceiling
  <2>3. ~(w = 0 /\ value = 0)
    <3>1. value = 0 => value * Scale = 0 BY <1>1
    <3>q. QED BY <1>1, <1>3, <3>1
  <2>q. QED BY <2>1, <2>2, <2>3 DEF l
<1>4. CASE ~(value * Scale < l) /\ value * Scale > u
  <2>1. d = u \div Scale BY <1>2, <1>4
  <2> HIDE DEF l, u, d
  <2>2. d \in Nat /\ Scale * d <= u BY <1>1, <2>1, Quotients
  <2>3. Scale * d <= Scale * value
    <3>1. value * Scale = Scale * value /\ Scale * value \in Int /\ Scale * d \in Int
      BY <1>1, <2>2
    <3>q. QED BY <1>1, <1>4, <2>2, <3>1
  <2>4. d <= value BY <1>1, <2>2, <2>3, Cancel
  <2>q. QED BY <2>2, <2>4 DEF d
<1>5. CASE ~(value * Scale < l) /\ ~(value * Scale > u)
  <2>1. d = value BY <1>2, <1>5
  <2>q. QED BY <2>1
<1>q. QED BY <1>3, <1>4, <1>5

LEMMA WholeShares ==
  ASSUME NEW amount \in Nat, NEW p \in Nat \ {0}
  PROVE  roundKrOrder(amount, p) \in Nat /\ roundKrOrder(amount, p) * p <= amount
<1> DEFINE n == amount \div p
<1>1. n \in Nat /\ p * n <= amount BY Quotients
<1> HIDE DEF n
<1>2. n * p = p * n BY <1>1
<1>3. roundKrOrder(amount, p) \in {0, n} BY DEF roundKrOrder, n
<1>q. QED BY <1>1, <1>2, <1>3

\* Nobody gets more than he needs, and all together not more than there is.
LEMMA Allocated ==
  ASSUME NEW S, IsFiniteSet(S), Ranked(S), NEW need, \A x \in S : need[x] \in Nat, NEW cash \in Nat
  PROVE  /\ \A x \in S : /\ allocateSpendableCash(need, S, cash)[x] \in Nat
                         /\ allocateSpendableCash(need, S, cash)[x] <= need[x]
         /\ SumFunctionOnSet(allocateSpendableCash(need, S, cash), S) <= cash
<1> DEFINE given == allocateSpendableCash(need, S, cash)
           before == [x \in S |-> {y \in S : Ahead(need, y, x)}]
<1>1. \A x \in S : need[x] \in Int OBVIOUS
<1>2. Strict(before, S) BY <1>1, AheadIsStrict
<1>3. \A x \in S : LET left == cash - SumFunctionOnSet(need, before[x])
                   IN  given[x] = IF left <= 0 THEN 0
                                  ELSE IF need[x] <= left THEN need[x] ELSE left
  <2> TAKE x \in S
  <2> DEFINE taken == SumFunctionOnSet(need, {y \in S : Ahead(need, y, x)})
             left == cash - taken
  <2>1. given[x] = Min({need[x], Max({0, left})}) BY DEF allocateSpendableCash
  <2>2. taken \in Nat
    <3>1. IsFiniteSet({y \in S : Ahead(need, y, x)}) BY FS_Subset
    <3>q. QED BY <3>1, SumBounds
  <2>3. before[x] = {y \in S : Ahead(need, y, x)} OBVIOUS
  <2>4. need[x] \in Nat OBVIOUS
  <2> HIDE DEF taken, before, given
  <2>5. left \in Int /\ 0 \in Int BY <2>2
  <2> HIDE DEF left
  <2>6. Max({0, left}) = (IF 0 >= left THEN 0 ELSE left) BY <2>5, OfTwo
  <2>7. Max({0, left}) \in Int BY <2>5, <2>6
  <2>8. given[x] = IF need[x] <= Max({0, left}) THEN need[x] ELSE Max({0, left})
    BY <2>1, <2>4, <2>7, OfTwo
  <2>9. given[x] = IF left <= 0 THEN 0 ELSE IF need[x] <= left THEN need[x] ELSE left
    BY <2>4, <2>5, <2>6, <2>8
  <2>q. QED BY <2>3, <2>9 DEF left, taken
<1> HIDE DEF given, before
<1>4. /\ \A x \in S : given[x] \in Nat /\ given[x] <= need[x]
      /\ SumFunctionOnSet(given, S) = IF SumFunctionOnSet(need, S) <= cash
                                      THEN SumFunctionOnSet(need, S) ELSE cash
  BY <1>2, <1>3, TakenInOrder
<1>5. SumFunctionOnSet(need, S) \in Nat BY SumBounds
<1>q. QED BY <1>4, <1>5 DEF given

-----------------------------------------------------------------------------
(* What a plan is calculated from.                                         *)

GoodBasis(b) ==
  /\ b.qty \in [Instruments -> Nat] /\ b.price \in [Instruments -> Nat]
  /\ b.value \in [Instruments -> Nat] /\ b.target \in Target /\ b.total = Total(b)

LEMMA MembersOf ==
  \A c \in Securities : /\ Members(c) \in SUBSET Instruments /\ IsFiniteSet(Members(c))
                        /\ Ranked(Members(c)) /\ \A i \in Members(c) : ClassOf[i] = c
BY Constants DEF Members

LEMMA TargetParts ==
  ASSUME NEW t \in Target
  PROVE  /\ t.managed \in Nat /\ t.within \in [Instruments -> 0..Scale]
         /\ \A c \in Classes : t.weight[c] \in 0..Scale
<1>1. t.weight \in Weights /\ t.managed \in Nat /\ t.within \in [Instruments -> 0..Scale]
  BY DEF Target
<1>2. t.weight \in [Classes -> 0..Scale] BY <1>1, RebalancingAssumption
<1>q. QED BY <1>1, <1>2

\* The sum over the instruments is the sum over the classes of their members'.
LEMMA ByClass ==
  ASSUME NEW f, \A i \in Instruments : f[i] \in Int,
         NEW g, \A c \in Securities : g[c] = SumFunctionOnSet(f, Members(c))
  PROVE  SumFunctionOnSet(g, Securities) = SumFunctionOnSet(f, Instruments)
<1> DEFINE part == [c \in Securities |-> Members(c)]
<1>1. /\ \A c \in Securities : part[c] \subseteq Instruments /\ g[c] = SumFunctionOnSet(f, part[c])
      /\ \A i \in Instruments : \E c \in Securities : i \in part[c]
      /\ \A c, d \in Securities : c # d => part[c] \cap part[d] = {}
  BY Constants DEF Members
<1>2. IsFiniteSet(Instruments) /\ IsFiniteSet(Securities) BY Constants
<1> HIDE DEF part
<1>q. QED BY <1>1, <1>2, SumOfFamily

LEMMA MemberSums ==
  ASSUME NEW f, \A i \in Instruments : f[i] \in Nat
  PROVE  \A c \in Securities : SumFunctionOnSet(f, Members(c)) \in Nat
<1> TAKE c \in Securities
<1>1. \A i \in Members(c) : f[i] \in Nat BY MembersOf
<1>q. QED BY <1>1, MembersOf, SumBounds

LEMMA TotalCounts ==
  ASSUME NEW b, b.value \in [Instruments -> Nat], b.target.managed \in Nat
  PROVE  /\ \A c \in Classes : ClassValue(b, c) \in Nat
         /\ Total(b) \in Nat
         /\ Total(b) = b.target.managed + SumFunctionOnSet(b.value, Instruments)
<1> DEFINE v == b.value  m == b.target.managed
           g == [c \in Classes |-> ClassValue(b, c)]
<1>1. \A i \in Instruments : v[i] \in Nat /\ v[i] \in Int OBVIOUS
<1> HIDE DEF v, m
<1>2. /\ \A c \in Securities : ClassValue(b, c) = SumFunctionOnSet(v, Members(c))
      /\ ClassValue(b, Cash) = m
  BY Constants DEF ClassValue, v, m
<1>3. \A c \in Securities : ClassValue(b, c) \in Nat BY <1>1, <1>2, MemberSums
<1>4. m \in Nat BY DEF m
<1>5. \A c \in Classes : ClassValue(b, c) \in Nat BY <1>2, <1>3, <1>4 DEF Classes
<1>6. DOMAIN g = Classes /\ \A c \in Classes : g[c] = ClassValue(b, c) OBVIOUS
<1>7. Total(b) = SumFunctionOnSet(g, Classes) BY <1>6 DEF Total, SumFunction
<1> HIDE DEF g
<1>8. \A c \in Classes : g[c] \in Nat /\ g[c] \in Int BY <1>5, <1>6
<1>9. Total(b) \in Nat BY <1>7, <1>8, Constants, SumBounds
<1>10. Classes \ {Cash} = Securities BY Constants DEF Classes
<1>11. SumFunctionOnSet(g, Classes) = g[Cash] + SumFunctionOnSet(g, Classes \ {Cash})
  BY <1>8, Constants, SumAdds
<1>12. SumFunctionOnSet(g, Securities) = SumFunctionOnSet(v, Instruments)
  <2>1. \A c \in Securities : g[c] = SumFunctionOnSet(v, Members(c)) BY <1>2, <1>6 DEF Classes
  <2>2. \A i \in Instruments : v[i] \in Int BY <1>1
  <2>q. QED BY <2>1, <2>2, ByClass
<1>13. g[Cash] = m BY <1>2, <1>6, Constants
<1>14. Total(b) = m + SumFunctionOnSet(v, Instruments) BY <1>7, <1>10, <1>11, <1>12, <1>13
<1>q. QED BY <1>5, <1>9, <1>14 DEF v, m

LEMMA DesiredClasses ==
  ASSUME NEW b, GoodBasis(b)
  PROVE  \A c \in Securities :
           /\ ClassValue(b, c) \in Nat /\ DesiredClass(b, c) \in Nat
           /\ DesiredClass(b, c) > ClassValue(b, c) =>
                (DesiredClass(b, c) - 1) * Scale < Lower(b.target.weight[c]) * Total(b)
           /\ Members(c) = {} /\ b.target.weight[c] = 0 => DesiredClass(b, c) = 0
<1> TAKE c \in Securities
<1>1. /\ b.target.weight[c] \in 0..Scale /\ b.target.managed \in Nat
      /\ b.value \in [Instruments -> Nat]
  BY TargetParts DEF GoodBasis, Classes
<1>2. ClassValue(b, c) \in Nat /\ Total(b) \in Nat BY <1>1, TotalCounts DEF Classes
<1>3. Members(c) = {} => ClassValue(b, c) = 0 BY SumEmpty, Constants DEF ClassValue
<1>q. QED BY <1>1, <1>2, <1>3, EdgeValue DEF DesiredClass

\* A plan is made only where the points add up and the values follow from prices.
LEMMA WithoutFault ==
  ASSUME NEW b, NEW sellable, validateAndNormalizeInput(b, sellable) = "NONE"
  PROVE  /\ \A c \in Securities :
              IF Members(c) = {} THEN b.target.weight[c] = 0
              ELSE SumFunctionOnSet(b.target.within, Members(c)) = Scale
         /\ \A i \in Instruments : b.price[i] # Null /\ b.value[i] = b.qty[i] * b.price[i]
<1> DEFINE faulty == {c \in Securities : ClassFault(b, sellable, c) # "NONE"}
<1>1. faulty = {}
  <2> SUFFICES ASSUME faulty # {} PROVE FALSE OBVIOUS
  <2>1. faulty \in SUBSET Securities OBVIOUS
  <2>2. First(faulty) \in faulty
    <3> HIDE DEF faulty
    <3>q. QED BY <2>1, Constants, SomeIsFirst
  <2>3. validateAndNormalizeInput(b, sellable) = ClassFault(b, sellable, First(faulty))
    BY DEF validateAndNormalizeInput
  <2>q. QED BY <2>2, <2>3
<1>2. ASSUME NEW c \in Securities
      PROVE  /\ IF Members(c) = {} THEN b.target.weight[c] = 0
                ELSE SumFunctionOnSet(b.target.within, Members(c)) = Scale
             /\ \A i \in Members(c) : InstrumentFault(b, sellable, i) = "NONE"
  <2> DEFINE wrong == {i \in Members(c) : InstrumentFault(b, sellable, i) # "NONE"}
  <2>1. ClassFault(b, sellable, c) = "NONE" BY <1>1
  <2>2. wrong = {}
    <3> SUFFICES ASSUME wrong # {} PROVE FALSE OBVIOUS
    <3>1. wrong \in SUBSET Instruments BY MembersOf
    <3>2. First(wrong) \in wrong
      <4> HIDE DEF wrong
      <4>q. QED BY <3>1, Constants, SomeIsFirst
    <3>3. ClassFault(b, sellable, c) = InstrumentFault(b, sellable, First(wrong))
      BY DEF ClassFault
    <3>q. QED BY <2>1, <3>2, <3>3
  <2>3. ~(IF Members(c) = {} THEN b.target.weight[c] # 0
          ELSE SumFunctionOnSet(b.target.within, Members(c)) # Scale)
    BY <2>1, <2>2 DEF ClassFault
  <2>q. QED BY <2>2, <2>3
<1>3. ASSUME NEW i \in Instruments PROVE b.price[i] # Null /\ b.value[i] = b.qty[i] * b.price[i]
  <2>1. ClassOf[i] \in Securities /\ i \in Members(ClassOf[i]) BY Constants DEF Members
  <2>2. InstrumentFault(b, sellable, i) = "NONE" BY <1>2, <2>1
  <2>q. QED BY <2>2 DEF InstrumentFault
<1>q. QED BY <1>2, <1>3

LEMMA DesiredInstruments ==
  ASSUME NEW b, GoodBasis(b), NEW sellable, validateAndNormalizeInput(b, sellable) = "NONE"
  PROVE  /\ allocateDesiredInstrumentValues(b) \in [Instruments -> Nat]
         /\ \A c \in Securities :
              SumFunctionOnSet(allocateDesiredInstrumentValues(b), Members(c)) = DesiredClass(b, c)
<1> DEFINE desired == allocateDesiredInstrumentValues(b)
           share(c) == Shares(DesiredClass(b, c), b.target.within, Scale, Members(c))
<1>1. \A c \in Securities : \A i \in Members(c) : desired[i] = share(c)[i]
  BY MembersOf DEF allocateDesiredInstrumentValues
<1>2. \A c \in Securities : DesiredClass(b, c) \in Nat
                             /\ (Members(c) = {} => DesiredClass(b, c) = 0)
  BY DesiredClasses, WithoutFault
<1>3. ASSUME NEW c \in Securities, Members(c) # {}
      PROVE  SumFunctionOnSet(share(c), Members(c)) = DesiredClass(b, c)
             /\ \A i \in Members(c) : share(c)[i] \in Nat
  <2> DEFINE w == b.target.within  S == Members(c)  d == DesiredClass(b, c)
  <2>1. \A i \in S : w[i] \in Nat BY TargetParts, MembersOf DEF GoodBasis
  <2>2. SumFunctionOnSet(w, S) = Scale BY <1>3, WithoutFault
  <2>3. IsFiniteSet(S) /\ Ranked(S) /\ d \in Nat /\ Scale \in Nat \ {0}
    BY <1>2, MembersOf, Constants
  <2> HIDE DEF w, S, d
  <2>4. /\ SumFunctionOnSet(Shares(d, w, Scale, S), S) = d
        /\ \A i \in S : Shares(d, w, Scale, S)[i] \in Nat
    BY <2>1, <2>2, <2>3, SharesAddUp
  <2>q. QED BY <2>4 DEF w, S, d
<1>4. desired = [i \in Instruments |-> desired[i]] BY DEF allocateDesiredInstrumentValues
<1> HIDE DEF desired, share
<1>5. \A i \in Instruments : desired[i] \in Nat
  <2> TAKE i \in Instruments
  <2>1. ClassOf[i] \in Securities /\ i \in Members(ClassOf[i]) BY Constants DEF Members
  <2>q. QED BY <1>1, <1>3, <2>1
<1>6. ASSUME NEW c \in Securities
      PROVE  SumFunctionOnSet(desired, Members(c)) = DesiredClass(b, c)
  <2>1. CASE Members(c) = {} BY <1>2, <2>1, SumEmpty
  <2>2. CASE Members(c) # {}
    <3>1. SumFunctionOnSet(desired, Members(c)) = SumFunctionOnSet(share(c), Members(c))
      BY <1>1, MembersOf, SumSame
    <3>q. QED BY <1>3, <2>2, <3>1
  <2>q. QED BY <2>1, <2>2
<1>q. QED BY <1>4, <1>5, <1>6 DEF desired

-----------------------------------------------------------------------------
(* What is calculated.                                                     *)

\* The result where nothing blocks it: it does not depend on what may be sold.
Made(b) ==
  LET desired == allocateDesiredInstrumentValues(b)
      delta == Difference(desired, b.value)
      sells == {i \in Instruments : delta[i] < 0}
      buys == {i \in Instruments : delta[i] > 0}
  IN  OrdersPlan(b, desired, delta,
                 PhaseOrders(b, delta, sells, buys, Funding(b, delta, buys)), sells, buys)

Obstacles ==
  {"SELLABLE_QUANTITY_MISSING", "SELLABLE_QUANTITY_INSUFFICIENT", "COMMISSION_UNVERIFIED"}

PlanOf(b, r) ==
  \/ \E reason \in Obstacles : r = Blocked(reason)
  \/ \E sellable : /\ validateAndNormalizeInput(b, sellable) # "NONE"
                   /\ r = Blocked(validateAndNormalizeInput(b, sellable))
  \/ r = Made(b) /\ \E sellable : validateAndNormalizeInput(b, sellable) = "NONE"

LEMMA ShadowPlans ==
  ASSUME NEW b, NEW sellable PROVE PlanOf(b, createShadowRebalancePlan(b, sellable))
<1> DEFINE fault == validateAndNormalizeInput(b, sellable)
           r == createShadowRebalancePlan(b, sellable)
<1>1. CASE fault # "NONE"
  <2>1. r = Blocked(fault) BY <1>1 DEF createShadowRebalancePlan
  <2>q. QED BY <1>1, <2>1 DEF PlanOf
<1>2. CASE fault = "NONE"
  <2>1. r = ValidPlan(b, sellable, allocateDesiredInstrumentValues(b))
    BY <1>2, Zenon DEF createShadowRebalancePlan
  <2>2. \/ r = Blocked("SELLABLE_QUANTITY_MISSING") \/ r = Blocked("SELLABLE_QUANTITY_INSUFFICIENT")
        \/ r = Made(b)
    BY <2>1, Zenon DEF ValidPlan, PhasePlan, Made
  <2>q. QED BY <1>2, <2>2, Zenon DEF PlanOf, Obstacles
<1>q. QED BY <1>1, <1>2

LEMMA Calculated ==
  ASSUME NEW b, NEW answer
  PROVE  LET r == calculatePlanWithPreflight(b, answer)
         IN  PlanOf(b, r) /\ (r.status = "PLANNED" => ~(Fees(b, r.order) > FeeBuffer))
<1> DEFINE first == createShadowRebalancePlan(b, b.qty)
           asked == {i \in DOMAIN answer : first.side = "SELL" /\ first.order[i] > 0}
           second == createShadowRebalancePlan(b, withSellableQuantities(answer, asked))
           r == calculatePlanWithPreflight(b, answer)
<1>1. r = IF first.status # "PLANNED" THEN first ELSE FeesCovered(b, second)
  BY DEF calculatePlanWithPreflight, AfterPreflight
<1>2. PlanOf(b, first) /\ PlanOf(b, second) BY ShadowPlans
<1> HIDE DEF first, second, r
<1>3. CASE first.status # "PLANNED" BY <1>1, <1>2, <1>3 DEF r
<1>4. CASE first.status = "PLANNED"
  <2>1. r = IF second.status = "PLANNED" /\ Fees(b, second.order) > FeeBuffer
            THEN Blocked("COMMISSION_UNVERIFIED") ELSE second
    BY <1>1, <1>4 DEF FeesCovered
  <2>2. Blocked("COMMISSION_UNVERIFIED").status # "PLANNED" BY DEF Blocked, createResult
  <2>3. PlanOf(b, Blocked("COMMISSION_UNVERIFIED")) BY Zenon DEF PlanOf, Obstacles
  <2>q. QED BY <1>2, <2>1, <2>2, <2>3 DEF r
<1>q. QED BY <1>3, <1>4

\* Where points add up and values follow from prices, a plan is refused for other
\* reasons, and for a price only where there is none.
LEMMA Faults ==
  ASSUME NEW b, NEW sellable,
         \A c \in Securities :
           IF Members(c) = {} THEN b.target.weight[c] = 0
           ELSE SumFunctionOnSet(b.target.within, Members(c)) = Scale,
         \A i \in Instruments : b.price[i] # Null => b.value[i] = b.qty[i] * b.price[i]
  PROVE  LET fault == validateAndNormalizeInput(b, sellable)
         IN  /\ fault \notin {"INSTRUMENT_VALUE_MISMATCH", "WITHIN_ASSET_ALLOCATION_INVALID"}
             /\ fault = "PRICE_MISSING_OR_INVALID" => \E i \in Instruments : b.price[i] = Null
<1> DEFINE Fine(fault) ==
             /\ fault \notin {"INSTRUMENT_VALUE_MISMATCH", "WITHIN_ASSET_ALLOCATION_INVALID"}
             /\ fault = "PRICE_MISSING_OR_INVALID" => \E i \in Instruments : b.price[i] = Null
<1>1. ASSUME NEW i \in Instruments PROVE Fine(InstrumentFault(b, sellable, i))
  BY DEF InstrumentFault
<1>2. ASSUME NEW c \in Securities PROVE Fine(ClassFault(b, sellable, c))
  <2> DEFINE wrong == {i \in Members(c) : InstrumentFault(b, sellable, i) # "NONE"}
  <2>1. CASE wrong # {}
    <3>1. wrong \in SUBSET Instruments BY MembersOf
    <3>2. First(wrong) \in wrong
      <4> HIDE DEF wrong
      <4>q. QED BY <2>1, <3>1, Constants, SomeIsFirst
    <3>3. ClassFault(b, sellable, c) = InstrumentFault(b, sellable, First(wrong))
      BY <2>1 DEF ClassFault
    <3>4. First(wrong) \in Instruments BY <3>1, <3>2
    <3> HIDE DEF wrong, Fine
    <3>q. QED BY <1>1, <3>3, <3>4
  <2>2. CASE wrong = {}
    <3>1. ~(IF Members(c) = {} THEN b.target.weight[c] # 0
            ELSE SumFunctionOnSet(b.target.within, Members(c)) # Scale)
      OBVIOUS
    <3>2. ClassFault(b, sellable, c) = "NONE" BY <2>2, <3>1 DEF ClassFault
    <3>q. QED BY <3>2
  <2>q. QED BY <2>1, <2>2
<1> DEFINE faulty == {c \in Securities : ClassFault(b, sellable, c) # "NONE"}
<1>3. CASE faulty # {}
  <2>1. faulty \in SUBSET Securities OBVIOUS
  <2>2. First(faulty) \in faulty
    <3> HIDE DEF faulty
    <3>q. QED BY <1>3, <2>1, Constants, SomeIsFirst
  <2>3. validateAndNormalizeInput(b, sellable) = ClassFault(b, sellable, First(faulty))
    BY <1>3 DEF validateAndNormalizeInput
  <2>4. First(faulty) \in Securities BY <2>1, <2>2
  <2>5. Fine(validateAndNormalizeInput(b, sellable))
    <3> HIDE DEF faulty, Fine
    <3>q. QED BY <1>2, <2>3, <2>4
  <2>q. QED BY <2>5
<1>4. CASE faulty = {}
  <2>1. validateAndNormalizeInput(b, sellable) \in {"NONE", "PORTFOLIO_TOTAL_INVALID"}
    BY <1>4 DEF validateAndNormalizeInput
  <2>q. QED BY <2>1
<1>q. QED BY <1>3, <1>4

LEMMA SpendableIs ==
  ASSUME NEW b, GoodBasis(b)
  PROVE  /\ Spendable(b) \in Nat /\ b.target.managed \in Nat
         /\ Spendable(b) > 0 =>
              (b.target.managed - Spendable(b) - FeeBuffer) * Scale
                >= Total(b) * b.target.weight[Cash]
<1> DEFINE m == b.target.managed  w == Total(b) * b.target.weight[Cash]  s == Spendable(b)
           k == CeilDiv(w, Scale)
<1>1. m \in Nat /\ b.target.weight[Cash] \in Nat /\ b.value \in [Instruments -> Nat]
  BY TargetParts, Constants DEF GoodBasis
<1>2. w \in Nat
  <2>1. Total(b) \in Nat BY <1>1, TotalCounts
  <2>q. QED BY <1>1, <2>1
<1>3. s = Max({0, m - k - FeeBuffer}) BY DEF GoodBasis, Spendable
<1> HIDE DEF m, w, s
<1>4. k \in Nat /\ k * Scale >= w BY <1>2, Constants, Ceiling
<1> HIDE DEF k
<1>5. m \in Int /\ FeeBuffer \in Nat /\ 0 \in Int /\ m - k - FeeBuffer \in Int
  BY <1>1, <1>4, Constants DEF m
<1>6. s = IF 0 >= m - k - FeeBuffer THEN 0 ELSE m - k - FeeBuffer BY <1>3, <1>5, OfTwo
<1>7. s \in Nat /\ (s > 0 => m - s - FeeBuffer = k) BY <1>4, <1>5, <1>6
<1>q. QED BY <1>1, <1>4, <1>7 DEF m, w, s

LEMMA Funded ==
  ASSUME NEW b, GoodBasis(b), NEW delta \in [Instruments -> Int], NEW buys \in SUBSET Instruments,
         \A i \in buys : delta[i] > 0
  PROVE  LET funds == Funding(b, delta, buys)
             all == [i \in Instruments |-> IF i \in buys THEN funds[i] ELSE 0]
         IN  /\ \A i \in buys : funds[i] \in Nat /\ funds[i] <= delta[i]
             /\ SumFunctionOnSet(all, Instruments) <= Spendable(b)
<1> DEFINE funds == Funding(b, delta, buys)
           need == [i \in Instruments |-> Max({0, delta[i]})]
           classNeed == [c \in Securities |-> SumFunctionOnSet(need, Members(c))]
           classCash == allocateSpendableCash(classNeed, Securities, Spendable(b))
           given(c) == allocateSpendableCash(need, buys \cap Members(c), classCash[c])
           all == [i \in Instruments |-> IF i \in buys THEN funds[i] ELSE 0]
           byClass == [c \in Securities |-> SumFunctionOnSet(all, Members(c))]
<1>1. \A i \in buys : funds[i] = given(ClassOf[i])[i]
  BY Constants DEF Funding
<1>2. \A i \in Instruments : need[i] \in Nat /\ (i \in buys => need[i] = delta[i])
  <2> TAKE i \in Instruments
  <2>1. 0 \in Int /\ delta[i] \in Int OBVIOUS
  <2>2. Max({0, delta[i]}) = IF 0 >= delta[i] THEN 0 ELSE delta[i] BY <2>1, OfTwo
  <2>q. QED BY <2>1, <2>2
<1> HIDE DEF need, funds
<1>3. \A c \in Securities : classNeed[c] \in Nat BY <1>2, MemberSums
<1> HIDE DEF classNeed
<1>4. /\ \A c \in Securities : classCash[c] \in Nat
      /\ SumFunctionOnSet(classCash, Securities) <= Spendable(b)
  BY <1>3, Constants, SpendableIs, Allocated
<1> HIDE DEF classCash
<1>5. ASSUME NEW c \in Securities
      PROVE  /\ \A i \in buys \cap Members(c) : given(c)[i] \in Nat /\ given(c)[i] <= need[i]
             /\ SumFunctionOnSet(given(c), buys \cap Members(c)) <= classCash[c]
  <2> DEFINE S == buys \cap Members(c)
  <2>1. S \in SUBSET Instruments /\ \A i \in S : need[i] \in Nat BY <1>2
  <2>2. classCash[c] \in Nat BY <1>4
  <2> HIDE DEF S
  <2>3. IsFiniteSet(S) /\ Ranked(S) BY <2>1, Constants
  <2>4. /\ \A i \in S : /\ allocateSpendableCash(need, S, classCash[c])[i] \in Nat
                        /\ allocateSpendableCash(need, S, classCash[c])[i] <= need[i]
        /\ SumFunctionOnSet(allocateSpendableCash(need, S, classCash[c]), S) <= classCash[c]
    BY <2>1, <2>2, <2>3, Allocated
  <2>q. QED BY <2>4 DEF S
<1> HIDE DEF given
<1>6. \A i \in buys : funds[i] \in Nat /\ funds[i] <= delta[i]
  <2> TAKE i \in buys
  <2>1. ClassOf[i] \in Securities /\ i \in buys \cap Members(ClassOf[i]) BY Constants DEF Members
  <2>2. given(ClassOf[i])[i] \in Nat /\ given(ClassOf[i])[i] <= need[i] BY <1>5, <2>1
  <2>q. QED BY <1>1, <1>2, <2>2
<1>7. \A i \in Instruments : all[i] \in Nat /\ all[i] \in Int BY <1>6
<1>8. ASSUME NEW c \in Securities
      PROVE  SumFunctionOnSet(all, Members(c)) \in Nat
             /\ SumFunctionOnSet(all, Members(c)) <= classCash[c]
  <2> DEFINE S == buys \cap Members(c)
  <2>1. \A i \in S : all[i] = given(c)[i] BY <1>1, MembersOf
  <2>2. \A i \in Members(c) \ S : all[i] = 0 BY MembersOf
  <2>3. S \subseteq Members(c) /\ \A i \in Members(c) : all[i] \in Int BY <1>7, MembersOf
  <2>4. SumFunctionOnSet(given(c), S) <= classCash[c] BY <1>5
  <2> HIDE DEF S, all
  <2>5. SumFunctionOnSet(all, Members(c)) = SumFunctionOnSet(all, S)
    BY <2>2, <2>3, MembersOf, SumOfSupport
  <2>6. SumFunctionOnSet(all, S) = SumFunctionOnSet(given(c), S)
    <3>1. IsFiniteSet(S) BY <2>3, MembersOf, FS_Subset
    <3>q. QED BY <2>1, <3>1, SumSame
  <2>7. SumFunctionOnSet(all, Members(c)) \in Nat BY <1>7, MemberSums
  <2>q. QED BY <2>4, <2>5, <2>6, <2>7
<1> HIDE DEF all
<1>9. \A c \in Securities : byClass[c] = SumFunctionOnSet(all, Members(c)) OBVIOUS
<1> HIDE DEF byClass
<1>10. SumFunctionOnSet(byClass, Securities) = SumFunctionOnSet(all, Instruments)
  <2>1. \A i \in Instruments : all[i] \in Int BY <1>7
  <2>q. QED BY <1>9, <2>1, ByClass
<1>11. SumFunctionOnSet(byClass, Securities) <= SumFunctionOnSet(classCash, Securities)
  <2>1. \A c \in Securities : byClass[c] \in Int /\ classCash[c] \in Int /\ byClass[c] <= classCash[c]
    BY <1>4, <1>8, <1>9
  <2>q. QED BY <2>1, Constants, SumAtMost
<1>12. /\ SumFunctionOnSet(all, Instruments) \in Int
       /\ SumFunctionOnSet(classCash, Securities) \in Int /\ Spendable(b) \in Int
  <2>1. \A i \in Instruments : all[i] \in Int BY <1>7
  <2>2. \A c \in Securities : classCash[c] \in Int BY <1>4
  <2>q. QED BY <2>1, <2>2, Constants, SumType, SpendableIs
<1>13. SumFunctionOnSet(all, Instruments) <= Spendable(b) BY <1>4, <1>10, <1>11, <1>12
<1>q. QED BY <1>6, <1>13 DEF funds, all

\* The orders of a plan are whole shares; in a buying phase each is within what its
\* instrument was funded with, and so within what it needs.
LEMMA MadeOrders ==
  ASSUME NEW b, GoodBasis(b), NEW sellable, validateAndNormalizeInput(b, sellable) = "NONE"
  PROVE  LET r == Made(b)
             desired == allocateDesiredInstrumentValues(b)
             notional == Notional(b, r.order)
         IN  /\ r.status \in {"PLANNED", "NO_ACTION"} /\ r.desired = desired
             /\ r.reasons \cap {"INSTRUMENT_VALUE_MISMATCH", "WITHIN_ASSET_ALLOCATION_INVALID",
                                "PRICE_MISSING_OR_INVALID"} = {}
             /\ r.order \in [Instruments -> Nat]
             /\ r.status = "PLANNED" => \E i \in Instruments : notional[i] > 0 /\ r.order[i] > 0
             /\ r.status = "PLANNED" /\ r.side = "BUY" =>
                  /\ \A i \in Instruments : desired[i] >= b.value[i]
                  /\ \A i \in Instruments : notional[i] \in Nat /\ notional[i] <= desired[i] - b.value[i]
                  /\ SumFunctionOnSet(notional, Instruments) <= Spendable(b)
<1> DEFINE r == Made(b)
           desired == allocateDesiredInstrumentValues(b)
           delta == Difference(desired, b.value)
           sells == {i \in Instruments : delta[i] < 0}
           buys == {i \in Instruments : delta[i] > 0}
           funds == Funding(b, delta, buys)
           order == PhaseOrders(b, delta, sells, buys, funds)
           notional == Notional(b, order)
           all == [i \in Instruments |-> IF i \in buys THEN funds[i] ELSE 0]
<1>1. r = OrdersPlan(b, desired, delta, order, sells, buys) BY Zenon DEF Made
<1>2. desired \in [Instruments -> Nat] /\ b.value \in [Instruments -> Nat]
  BY DesiredInstruments DEF GoodBasis
<1> HIDE DEF desired
<1>3. /\ delta \in [Instruments -> Int]
      /\ \A i \in Instruments : delta[i] = desired[i] - b.value[i]
  BY <1>2 DEF Difference
<1> HIDE DEF delta
<1>4. \A i \in Instruments : b.price[i] \in Nat \ {0} BY WithoutFault DEF GoodBasis, Null
<1>5. buys \in SUBSET Instruments /\ sells \in SUBSET Instruments /\ \A i \in buys : delta[i] > 0
  OBVIOUS
<1>6. \A i \in sells : -delta[i] \in Nat /\ delta[i] < 0 BY <1>3
<1>7. \A i \in Instruments : i \notin buys => delta[i] <= 0 BY <1>3
<1> HIDE DEF sells, buys
<1>8. /\ \A i \in buys : funds[i] \in Nat /\ funds[i] <= delta[i]
      /\ SumFunctionOnSet(all, Instruments) <= Spendable(b)
  BY <1>3, <1>5, Funded
<1> HIDE DEF funds
<1>9. \A i \in Instruments :
        order[i] = IF i \in sells THEN roundKrOrder(-delta[i], b.price[i])
                   ELSE IF sells = {} /\ i \in buys THEN roundKrOrder(funds[i], b.price[i]) ELSE 0
  BY DEF PhaseOrders
<1>10. order = [i \in Instruments |-> order[i]] BY DEF PhaseOrders
<1>11. \A i \in Instruments : notional[i] = order[i] * b.price[i] BY DEF Notional
<1>12. \A i \in Instruments : all[i] = IF i \in buys THEN funds[i] ELSE 0 OBVIOUS
<1> HIDE DEF order, notional, all
<1>13. \A i \in Instruments : order[i] \in Nat
  <2> TAKE i \in Instruments
  <2>1. CASE i \in sells BY <1>4, <1>6, <1>9, <2>1, WholeShares
  <2>2. CASE i \notin sells /\ sells = {} /\ i \in buys BY <1>4, <1>8, <1>9, <2>2, WholeShares
  <2>3. CASE i \notin sells /\ ~(sells = {} /\ i \in buys) BY <1>9, <2>3
  <2>q. QED BY <2>1, <2>2, <2>3
<1>14. \A i \in Instruments : /\ notional[i] \in Nat
                              /\ order[i] > 0 => notional[i] > 0
  <2> TAKE i \in Instruments
  <2> DEFINE n == order[i]  p == b.price[i]
  <2>1. n \in Nat /\ p \in Nat \ {0} BY <1>4, <1>13
  <2> HIDE DEF n, p
  <2>2. n * p \in Nat /\ (n > 0 => n * p > 0) BY <2>1
  <2>q. QED BY <1>11, <2>2 DEF n, p
<1>15. ASSUME sells = {}
       PROVE  /\ \A i \in Instruments : notional[i] <= all[i] /\ all[i] \in Nat
              /\ \A i \in Instruments : delta[i] >= 0 /\ notional[i] <= delta[i]
  <2>1. ASSUME NEW i \in Instruments
        PROVE  notional[i] <= all[i] /\ all[i] \in Nat /\ delta[i] >= 0 /\ all[i] <= delta[i]
    <3>1. delta[i] >= 0 BY <1>3, <1>15 DEF sells
    <3>2. CASE i \in buys
      <4>1. order[i] = roundKrOrder(funds[i], b.price[i]) /\ all[i] = funds[i]
        BY <1>9, <1>12, <1>15, <3>2
      <4>2. order[i] * b.price[i] <= funds[i] BY <1>4, <1>8, <3>2, <4>1, WholeShares
      <4>q. QED BY <1>8, <1>11, <3>1, <3>2, <4>1, <4>2
    <3>3. CASE i \notin buys
      <4>1. order[i] = 0 /\ all[i] = 0 BY <1>9, <1>12, <1>15, <3>3
      <4>2. 0 * b.price[i] = 0 BY <1>4
      <4>q. QED BY <1>11, <3>1, <4>1, <4>2
    <3>q. QED BY <3>2, <3>3
  <2>2. \A i \in Instruments : notional[i] \in Int /\ delta[i] \in Int BY <1>3, <1>14
  <2>q. QED BY <2>1, <2>2
<1>16. /\ r.status = IF \E i \in Instruments : order[i] > 0 THEN "PLANNED" ELSE "NO_ACTION"
       /\ r.status = "PLANNED" => r.side = IF sells # {} THEN "SELL" ELSE "BUY"
       /\ r.desired = desired /\ r.order = order
  BY <1>1 DEF OrdersPlan, createResult
<1>17. r.reasons \cap {"INSTRUMENT_VALUE_MISMATCH", "WITHIN_ASSET_ALLOCATION_INVALID",
                       "PRICE_MISSING_OR_INVALID"} = {}
  <2>1. \E p, n, s, y, z \in BOOLEAN : r.reasons = planReasonCodes(p, n, s, y, z)
    <3> DEFINE deferred == createDeferredBuyNeed(b, delta, order)
               p == \E i \in Instruments : order[i] > 0
               n == \E c \in Classes : DesiredClass(b, c) # ClassValue(b, c)
               z == \E i \in buys : deferred[i] > 0
    <3>1. r.reasons = planReasonCodes(p, n, sells # {}, buys # {}, z)
      BY <1>1 DEF OrdersPlan, createResult
    <3>2. p \in BOOLEAN /\ n \in BOOLEAN /\ z \in BOOLEAN OBVIOUS
    <3> HIDE DEF p, n, z
    <3>q. QED BY <3>1, <3>2
  <2>q. QED BY <2>1 DEF planReasonCodes
<1>18. ASSUME sells = {} PROVE SumFunctionOnSet(notional, Instruments) <= Spendable(b)
  <2>1. \A i \in Instruments : notional[i] \in Int /\ all[i] \in Int /\ notional[i] <= all[i]
    BY <1>14, <1>15, <1>18
  <2>2. IsFiniteSet(Instruments) BY Constants
  <2>3. SumFunctionOnSet(notional, Instruments) <= SumFunctionOnSet(all, Instruments)
    BY <2>1, <2>2, SumAtMost
  <2>4. /\ SumFunctionOnSet(notional, Instruments) \in Int
        /\ SumFunctionOnSet(all, Instruments) \in Int
    BY <2>1, <2>2, SumType
  <2>5. Spendable(b) \in Int BY SpendableIs
  <2>q. QED BY <1>8, <2>3, <2>4, <2>5
<1>19. r.status = "PLANNED" /\ r.side = "BUY" => sells = {} BY <1>16
<1>20. \A i \in Instruments : delta[i] >= 0 => desired[i] >= b.value[i] BY <1>2, <1>3
<1>21. order \in [Instruments -> Nat] BY <1>10, <1>13
<1>22. Notional(b, r.order) = notional BY <1>16 DEF notional
<1> HIDE DEF r
<1>q. QED BY <1>3, <1>13, <1>14, <1>15, <1>16, <1>17, <1>18, <1>19, <1>20, <1>21, <1>22
      DEF r, desired

LEMMA AfterBuying ==
  ASSUME NEW b, NEW order
  PROVE  /\ \A c \in Securities :
              projectAfterOrders(b, "BUY", order)[c]
                = ClassValue(b, c) + SumFunctionOnSet(Notional(b, order), Members(c))
         /\ projectAfterOrders(b, "BUY", order)[Cash]
              = b.target.managed + (-SumFunctionOnSet(Notional(b, order), Instruments))
<1> DEFINE n == Notional(b, order)
<1>1. DOMAIN n = Instruments BY DEF Notional
<1>2. SumFunction(n) = SumFunctionOnSet(n, Instruments) BY <1>1 DEF SumFunction
<1> HIDE DEF n
<1>3. \A a : Signed("BUY", a) = a BY DEF Signed
<1>4. ClassValue(b, Cash) = b.target.managed BY DEF ClassValue
<1>5. projectAfterOrders(b, "BUY", order)
        = [c \in Classes |-> ClassValue(b, c) +
             [d \in Classes |-> IF d = Cash THEN -SumFunctionOnSet(n, Instruments)
                                ELSE SumFunctionOnSet(n, Members(d))][c]]
  BY <1>2, <1>3 DEF projectAfterOrders, projectAllocationAfterRoundedTrades, n
<1>q. QED BY <1>4, <1>5, Constants DEF n, Classes

-----------------------------------------------------------------------------
(* What every plan keeps to.                                               *)

KeepsCash(b, r) ==
  r.status = "PLANNED" /\ r.side = "BUY" =>
    (projectAfterOrders(b, r.side, r.order)[Cash] - Fees(b, r.order)) * Scale
      >= Total(b) * b.target.weight[Cash]

StopsAtTheEdge(b, r) ==
  r.status = "PLANNED" /\ r.side = "BUY" =>
    \A c \in Securities :
      projectAfterOrders(b, r.side, r.order)[c] > ClassValue(b, c) =>
        (projectAfterOrders(b, r.side, r.order)[c] - 1) * Scale
          < Lower(b.target.weight[c]) * Total(b)

DesiredAddsUp(b, r) ==
  r.status \in {"PLANNED", "NO_ACTION"} =>
    \A c \in Securities : SumFunctionOnSet(r.desired, Members(c)) = DesiredClass(b, c)

\* What all orders of a class spend is at most what the class is short of.
LEMMA MadeStopsAtTheEdge ==
  ASSUME NEW b, GoodBasis(b), NEW sellable, validateAndNormalizeInput(b, sellable) = "NONE"
  PROVE  StopsAtTheEdge(b, Made(b))
<1> DEFINE r == Made(b)
           desired == allocateDesiredInstrumentValues(b)
           notional == Notional(b, r.order)
<1> SUFFICES ASSUME r.status = "PLANNED", r.side = "BUY", NEW c \in Securities
             PROVE  LET after == projectAfterOrders(b, "BUY", r.order)[c]
                    IN  after > ClassValue(b, c) =>
                          (after - 1) * Scale < Lower(b.target.weight[c]) * Total(b)
  BY DEF StopsAtTheEdge
<1>1. \A i \in Instruments : notional[i] \in Nat /\ notional[i] <= desired[i] - b.value[i]
  BY MadeOrders
<1>2. /\ desired \in [Instruments -> Nat]
      /\ SumFunctionOnSet(desired, Members(c)) = DesiredClass(b, c)
  BY DesiredInstruments
<1>3. b.value \in [Instruments -> Nat] BY DEF GoodBasis
<1> DEFINE after == projectAfterOrders(b, "BUY", r.order)[c]
           value == b.value
           both == [i \in Instruments |-> value[i] + notional[i]]
           S == Members(c)  N == SumFunctionOnSet(notional, S)  d == DesiredClass(b, c)
<1>4. after = ClassValue(b, c) + N BY AfterBuying
<1>5. ClassValue(b, c) = SumFunctionOnSet(value, S) BY Constants DEF ClassValue
<1> HIDE DEF after, value, notional, desired, r
<1>6. \A i \in S : /\ value[i] \in Int /\ notional[i] \in Int /\ desired[i] \in Int
                   /\ both[i] = value[i] + notional[i] /\ both[i] \in Int /\ both[i] <= desired[i]
  <2> TAKE i \in S
  <2>1. i \in Instruments BY MembersOf
  <2>2. value[i] \in Nat /\ notional[i] \in Nat /\ desired[i] \in Nat
        /\ notional[i] <= desired[i] - value[i]
    BY <1>1, <1>2, <1>3, <2>1 DEF value
  <2>q. QED BY <2>1, <2>2
<1> HIDE DEF both, S
<1>7. IsFiniteSet(S) BY MembersOf DEF S
<1>8. SumFunctionOnSet(both, S) = SumFunctionOnSet(value, S) + N BY <1>6, <1>7, SumPlus
<1>9. SumFunctionOnSet(both, S) <= SumFunctionOnSet(desired, S) BY <1>6, <1>7, SumAtMost
<1>10. after <= d
  <2>1. SumFunctionOnSet(desired, S) = d BY <1>2 DEF S
  <2>q. QED BY <1>4, <1>5, <1>8, <1>9, <2>1
<1>11. /\ ClassValue(b, c) \in Nat /\ d \in Nat
       /\ d > ClassValue(b, c) => (d - 1) * Scale < Lower(b.target.weight[c]) * Total(b)
  BY DesiredClasses
<1>12. N \in Int BY <1>6, <1>7, SumType
<1> HIDE DEF d, N
<1> SUFFICES ASSUME after > ClassValue(b, c)
             PROVE  (after - 1) * Scale < Lower(b.target.weight[c]) * Total(b)
  BY DEF after
<1>13. after \in Int /\ d > ClassValue(b, c) BY <1>4, <1>10, <1>11, <1>12
<1>14. (after - 1) * Scale <= (d - 1) * Scale
  <2>1. after - 1 \in Int /\ d - 1 \in Int /\ after - 1 <= d - 1 /\ Scale \in Nat
    BY <1>10, <1>11, <1>13, Constants
  <2> DEFINE x == after - 1  y == d - 1
  <2> HIDE DEF x, y
  <2>2. x * Scale <= y * Scale BY <2>1, Products DEF x, y
  <2>q. QED BY <2>2 DEF x, y
<1>15. (after - 1) * Scale \in Int /\ (d - 1) * Scale \in Int
  BY <1>11, <1>13, Constants
<1>16. Lower(b.target.weight[c]) * Total(b) \in Int
  <2>1. b.target.weight[c] \in 0..Scale /\ b.target.managed \in Nat
    BY TargetParts DEF GoodBasis, Classes
  <2>2. Total(b) \in Int BY <1>3, <2>1, TotalCounts
  <2>3. Lower(b.target.weight[c]) \in Int BY <2>1, BandOf, Constants
  <2>q. QED BY <2>2, <2>3
<1>q. QED BY <1>11, <1>13, <1>14, <1>15, <1>16

LEMMA FeesType ==
  ASSUME NEW b, NEW order, \A i \in Instruments : Notional(b, order)[i] \in Nat
  PROVE  Fees(b, order) \in Nat
<1> DEFINE fee == [i \in Instruments |-> estimateCommission(Notional(b, order)[i])]
<1>1. \A i \in Instruments : fee[i] \in Nat
  <2> TAKE i \in Instruments
  <2> DEFINE n == Notional(b, order)[i]
  <2>1. n * FeePercent \in Nat BY Constants
  <2> HIDE DEF n
  <2>2. CeilDiv(n * FeePercent, 100) \in Nat BY <2>1, Ceiling
  <2>q. QED BY <2>2 DEF estimateCommission, n
<1>2. DOMAIN fee = Instruments OBVIOUS
<1>3. Fees(b, order) = SumFunctionOnSet(fee, Instruments) BY <1>2 DEF Fees, SumFunction
<1> HIDE DEF fee
<1>q. QED BY <1>1, <1>3, Constants, SumBounds

LEMMA MadeKeepsCash ==
  ASSUME NEW b, GoodBasis(b), NEW sellable, validateAndNormalizeInput(b, sellable) = "NONE",
         Made(b).status = "PLANNED" => ~(Fees(b, Made(b).order) > FeeBuffer)
  PROVE  KeepsCash(b, Made(b))
<1> DEFINE r == Made(b)
           notional == Notional(b, r.order)
           N == SumFunctionOnSet(notional, Instruments)
           f == Fees(b, r.order)  s == Spendable(b)  m == b.target.managed
           w == Total(b) * b.target.weight[Cash]
           after == projectAfterOrders(b, "BUY", r.order)[Cash]
<1> SUFFICES ASSUME r.status = "PLANNED", r.side = "BUY" PROVE (after - f) * Scale >= w
  BY DEF KeepsCash
<1>1. /\ \A i \in Instruments : notional[i] \in Nat
      /\ N <= s
      /\ \E i \in Instruments : notional[i] > 0
  BY MadeOrders
<1>2. after = m + (-N) BY AfterBuying
<1>3. f \in Nat BY <1>1, FeesType
<1>4. f <= FeeBuffer BY <1>3, Constants
<1>5. s \in Nat /\ m \in Nat /\ (s > 0 => (m - s - FeeBuffer) * Scale >= w) BY SpendableIs
<1> HIDE DEF notional
<1>6. N \in Nat /\ N > 0
  <2>1. IsFiniteSet(Instruments) BY Constants
  <2>2. N \in Nat /\ \A i \in Instruments : notional[i] <= N BY <1>1, <2>1, SumBounds
  <2>q. QED BY <1>1, <2>2
<1>7. w \in Int
  <2>1. b.target.weight[Cash] \in Int BY TargetParts, Constants DEF GoodBasis
  <2>2. Total(b) \in Int BY <1>5, TotalCounts DEF GoodBasis
  <2>q. QED BY <2>1, <2>2
<1> HIDE DEF N, f, s, m, w, after
<1> DEFINE x == m - s - FeeBuffer  y == after - f
<1>8. x \in Int /\ y \in Int /\ x <= y /\ Scale \in Nat
  BY <1>1, <1>2, <1>3, <1>4, <1>5, <1>6, Constants
<1>9. x * Scale >= w BY <1>1, <1>5, <1>6
<1> HIDE DEF x, y
<1>10. x * Scale <= y * Scale BY <1>8, Products
<1>11. x * Scale \in Int /\ y * Scale \in Int BY <1>8
<1>12. y * Scale >= w BY <1>7, <1>9, <1>10, <1>11
<1>q. QED BY <1>12 DEF y

LEMMA BlockedKeeps ==
  ASSUME NEW b, NEW reason
  PROVE  LET r == Blocked(reason)
         IN  /\ KeepsCash(b, r) /\ StopsAtTheEdge(b, r) /\ DesiredAddsUp(b, r)
             /\ r.status # "PLANNED" /\ r.reasons = {reason} /\ r.order \in [Instruments -> Nat]
BY DEF Blocked, createResult, KeepsCash, StopsAtTheEdge, DesiredAddsUp

LEMMA EveryPlan ==
  ASSUME NEW b, GoodBasis(b), NEW answer
  PROVE  LET r == calculatePlanWithPreflight(b, answer)
         IN  /\ KeepsCash(b, r) /\ StopsAtTheEdge(b, r) /\ DesiredAddsUp(b, r)
             /\ r.order \in [Instruments -> Nat]
             /\ r.status = "PLANNED" => \E i \in Instruments : r.order[i] > 0
<1> DEFINE r == calculatePlanWithPreflight(b, answer)
<1>1. PlanOf(b, r) /\ (r.status = "PLANNED" => ~(Fees(b, r.order) > FeeBuffer)) BY Calculated
<1> HIDE DEF r
<1>2. ASSUME NEW reason, r = Blocked(reason)
      PROVE  /\ KeepsCash(b, r) /\ StopsAtTheEdge(b, r) /\ DesiredAddsUp(b, r)
             /\ r.order \in [Instruments -> Nat] /\ r.status # "PLANNED"
  BY <1>2, BlockedKeeps
<1>3. ASSUME r = Made(b), NEW sellable, validateAndNormalizeInput(b, sellable) = "NONE"
      PROVE  /\ KeepsCash(b, r) /\ StopsAtTheEdge(b, r) /\ DesiredAddsUp(b, r)
             /\ r.order \in [Instruments -> Nat]
             /\ r.status = "PLANNED" => \E i \in Instruments : r.order[i] > 0
  <2>1. KeepsCash(b, r) BY <1>1, <1>3, MadeKeepsCash
  <2>2. StopsAtTheEdge(b, r) BY <1>3, MadeStopsAtTheEdge
  <2>3. /\ r.desired = allocateDesiredInstrumentValues(b) /\ r.order \in [Instruments -> Nat]
        /\ r.status = "PLANNED" => \E i \in Instruments : r.order[i] > 0
    BY <1>3, MadeOrders
  <2>4. DesiredAddsUp(b, r) BY <1>3, <2>3, DesiredInstruments DEF DesiredAddsUp
  <2>q. QED BY <2>1, <2>2, <2>3, <2>4
<1>4. CASE \E reason : r = Blocked(reason) BY <1>2, <1>4 DEF r
<1>5. CASE ~\E reason : r = Blocked(reason)
  <2>1. r = Made(b) /\ \E sellable : validateAndNormalizeInput(b, sellable) = "NONE"
    BY <1>1, <1>5 DEF PlanOf
  <2>q. QED BY <1>3, <2>1 DEF r
<1>q. QED BY <1>4, <1>5

-----------------------------------------------------------------------------
(* The points of a new target.                                             *)

Resolved(equal) ==
  LET value == [i \in Instruments |-> qty[i] * price[i]]
      points == [c \in Securities |->
                   IF c \in equal THEN resolveEqualWithinAssetPoints(Members(c))
                   ELSE resolvePreserveCurrentWithinAssetPoints(value, Members(c))]
  IN  [i \in Instruments |-> points[ClassOf[i]][i]]

LEMMA NewPoints ==
  ASSUME qty \in [Instruments -> Nat], price \in [Instruments -> Prices],
         NEW equal, \A c \in Securities \ equal : \A i \in Members(c) : qty[i] > 0
  PROVE  /\ Resolved(equal) \in [Instruments -> 0..Scale]
         /\ \A c \in Securities :
              Members(c) # {} => SumFunctionOnSet(Resolved(equal), Members(c)) = Scale
<1> DEFINE within == Resolved(equal)
<1> DEFINE value == [i \in Instruments |-> qty[i] * price[i]]
           points(c) == IF c \in equal THEN resolveEqualWithinAssetPoints(Members(c))
                        ELSE resolvePreserveCurrentWithinAssetPoints(value, Members(c))
<1>1. \A i \in Instruments : value[i] \in Nat /\ (qty[i] > 0 => value[i] > 0)
  <2> TAKE i \in Instruments
  <2> DEFINE n == qty[i]  p == price[i]
  <2>1. n \in Nat /\ p \in Nat \ {0} BY RebalancingAssumption
  <2>2. value[i] = n * p OBVIOUS
  <2> HIDE DEF n, p, value
  <2>3. n * p \in Nat /\ (n > 0 => n * p > 0) BY <2>1
  <2>q. QED BY <2>2, <2>3 DEF n
<1>2. \A c \in Securities : \A i \in Members(c) : within[i] = points(c)[i]
  BY MembersOf DEF Resolved
<1>3. within = [i \in Instruments |-> within[i]] BY DEF Resolved
<1> HIDE DEF value, within
<1>4. ASSUME NEW c \in Securities, Members(c) # {}
      PROVE  SumFunctionOnSet(points(c), Members(c)) = Scale /\ \A i \in Members(c) : points(c)[i] \in Nat
  <2> DEFINE S == Members(c)  whole == SumFunctionOnSet(value, S)
  <2>1. IsFiniteSet(S) /\ Ranked(S) /\ S # {} /\ Scale \in Nat BY <1>4, MembersOf, Constants
  <2>2. CASE c \in equal
    <3>1. points(c) = resolveEqualWithinAssetPoints(S) BY <2>2
    <3> HIDE DEF S, points
    <3>q. QED BY <2>1, <3>1, EqualPointsAddUp DEF S
  <2>3. CASE c \notin equal
    <3>1. points(c) = Shares(Scale, value, whole, S)
      BY <2>3 DEF resolvePreserveCurrentWithinAssetPoints
    <3>2. \A i \in S : value[i] \in Nat /\ value[i] > 0 BY <1>1, <2>3, MembersOf
    <3> HIDE DEF S, points
    <3>3. whole \in Nat /\ \A i \in S : value[i] <= whole BY <2>1, <3>2, SumBounds
    <3>4. whole \in Nat \ {0} BY <2>1, <3>2, <3>3
    <3>q. QED BY <2>1, <3>1, <3>2, <3>4, SharesAddUp DEF S
  <2>q. QED BY <2>2, <2>3
<1> HIDE DEF points
<1>5. ASSUME NEW c \in Securities, Members(c) # {}
      PROVE  /\ SumFunctionOnSet(within, Members(c)) = Scale
             /\ \A i \in Members(c) : within[i] \in 0..Scale
  <2> DEFINE S == Members(c)
           h == points(c)
  <2>1. IsFiniteSet(S) /\ \A i \in S : within[i] = h[i] BY <1>2, MembersOf
  <2>2. \A i \in S : within[i] \in Nat BY <1>2, <1>4, <1>5
  <2>3. SumFunctionOnSet(h, S) = Scale BY <1>4, <1>5
  <2> HIDE DEF S, h
  <2>4. SumFunctionOnSet(within, S) = Scale
    <3>1. SumFunctionOnSet(within, S) = SumFunctionOnSet(h, S) BY <2>1, SumSame
    <3>q. QED BY <2>3, <3>1
  <2>5. \A i \in S : within[i] <= SumFunctionOnSet(within, S) BY <2>1, <2>2, SumBounds
  <2>q. QED BY <2>2, <2>4, <2>5, Constants DEF S
<1>6. \A i \in Instruments : within[i] \in 0..Scale
  <2> TAKE i \in Instruments
  <2>1. ClassOf[i] \in Securities /\ i \in Members(ClassOf[i]) BY Constants DEF Members
  <2>q. QED BY <1>5, <2>1
<1>q. QED BY <1>3, <1>5, <1>6 DEF within

-----------------------------------------------------------------------------
(* From the broker's answers to the basis of a plan.                       *)

LEMMA Units ==
  ASSUME NEW k \in Nat
  PROVE  (k * Unit) \div Unit = k /\ (k * Unit + 1) % Unit # 0
<1>1. Unit \in Nat \ {0, 1} BY EvidenceAssumption
<1> DEFINE n == k * Unit
<1>2. n \in Int /\ n + 1 \in Int /\ n = Unit * k BY <1>1
<1>3. /\ n = Unit * (n \div Unit) + (n % Unit) /\ n \div Unit \in Int /\ n % Unit \in 0..(Unit - 1)
      /\ n + 1 = Unit * ((n + 1) \div Unit) + ((n + 1) % Unit) /\ (n + 1) \div Unit \in Int
  BY <1>1, <1>2, Division
<1> DEFINE q == n \div Unit  r == n % Unit  p == (n + 1) \div Unit
<1> HIDE DEF n, q, r, p
<1>4. q = k
  <2>1. Unit * k = Unit * q + r /\ r \in 0..(Unit - 1) /\ q \in Int BY <1>2, <1>3 DEF q, r
  <2>2. Unit * (q + 1) = Unit * q + Unit /\ Unit * k \in Int /\ Unit * q \in Int BY <1>1, <2>1
  <2>3. Unit * q <= Unit * k /\ Unit * (k + 1) = Unit * k + Unit BY <1>1, <2>1, <2>2
  <2>4. Unit * (k + 1) <= Unit * (q + 1) + (Unit - 1) BY <1>1, <2>1, <2>2, <2>3
  <2>5. q <= k BY <1>1, <2>1, <2>3, Cancel
  <2>6. k <= q
    <3> SUFFICES ASSUME q + 1 <= k PROVE FALSE BY <2>1
    <3>1. Unit * (q + 1) <= Unit * k BY <1>1, <2>1, Products
    <3>q. QED BY <1>1, <2>1, <2>2, <3>1
  <2>q. QED BY <2>1, <2>5, <2>6
<1>5. (n + 1) % Unit # 0
  <2> SUFFICES ASSUME (n + 1) % Unit = 0 PROVE FALSE OBVIOUS
  <2>1. Unit * k + 1 = Unit * p /\ p \in Int BY <1>1, <1>2, <1>3 DEF p
  <2>2. Unit * k \in Int /\ Unit * p \in Int /\ Unit * (k + 1) = Unit * k + Unit BY <1>1, <2>1
  <2>3. k + 1 <= p \/ p <= k BY <2>1
  <2>4. k + 1 <= p => Unit * (k + 1) <= Unit * p BY <1>1, <2>1, Products
  <2>5. p <= k => Unit * p <= Unit * k BY <1>1, <2>1, Products
  <2>q. QED BY <1>1, <2>1, <2>2, <2>3, <2>4, <2>5
<1>q. QED BY <1>4, <1>5 DEF n, q

LEMMA OrderedOnce ==
  ASSUME NEW S \in SUBSET Instruments
  PROVE  /\ Cardinality(S) \in Nat /\ Ordered(S) \in Bijection(1..Cardinality(S), S)
<1> DEFINE before == [x \in S |-> {y \in S : Rank[y] < Rank[x]}]
           pos == Place(before, S)
           k == Cardinality(S)
           f == Ordered(S)
<1>1. IsFiniteSet(S) /\ Ranked(S) BY Constants
<1>2. Strict(before, S) BY <1>1, RankIsStrict
<1>3. \A i \in S : pos[i] = Cardinality({j \in S : Rank[j] < Rank[i]}) BY DEF Place
<1>4. pos \in Bijection(S, 0..(k - 1)) /\ k \in Nat
  <2> HIDE DEF before
  <2>q. QED BY <1>1, <1>2, Places
<1> HIDE DEF pos, k
<1>5. /\ \A i \in S : pos[i] \in 0..(k - 1)
      /\ \A i, j \in S : pos[i] = pos[j] => i = j
      /\ \A n \in 0..(k - 1) : \E i \in S : pos[i] = n
  <2> DEFINE T == 0..(k - 1)
  <2> HIDE DEF T
  <2>1. pos \in Bijection(S, T) BY <1>4 DEF T
  <2>2. /\ \A i \in S : pos[i] \in T /\ \A j \in S : pos[i] = pos[j] => i = j
        /\ \A n \in T : \E i \in S : pos[i] = n
    BY <2>1 DEF Bijection, Injection, Surjection, IsInjective
  <2>q. QED BY <2>2 DEF T
<1>6. \A n \in 1..k :
        f[n] = CHOOSE i \in S : Cardinality({j \in S : Rank[j] < Rank[i]}) = n - 1
  BY DEF Ordered, k
<1>7. \A n \in 1..k : f[n] \in S /\ pos[f[n]] = n - 1
  <2> TAKE n \in 1..k
  <2>1. n - 1 \in 0..(k - 1) BY <1>4
  <2>2. \E i \in S : Cardinality({j \in S : Rank[j] < Rank[i]}) = n - 1 BY <1>3, <1>5, <2>1
  <2>3. f[n] \in S /\ Cardinality({j \in S : Rank[j] < Rank[f[n]]}) = n - 1
    <3> DEFINE P(i) == Cardinality({j \in S : Rank[j] < Rank[i]}) = n - 1
    <3>1. f[n] = CHOOSE i \in S : P(i) BY <1>6
    <3>2. \E i \in S : P(i) BY <2>2
    <3> HIDE DEF P, f
    <3>3. f[n] \in S /\ P(f[n]) BY <3>1, <3>2, Zenon
    <3>q. QED BY <3>3 DEF P
  <2> HIDE DEF f
  <2>q. QED BY <1>3, <2>3
<1>8. f = [n \in 1..k |-> f[n]]
  <2> DEFINE g(n) == CHOOSE i \in S : Cardinality({j \in S : Rank[j] < Rank[i]}) = n - 1
  <2>1. f = [n \in 1..k |-> g(n)] BY Zenon DEF Ordered, k
  <2> HIDE DEF f, g
  <2>q. QED BY <2>1
<1> HIDE DEF f
<1>9. f \in [1..k -> S] BY <1>7, <1>8
<1>10. \A n, m \in 1..k : f[n] = f[m] => n = m
  <2> TAKE n, m \in 1..k
  <2> SUFFICES ASSUME f[n] = f[m] PROVE n = m OBVIOUS
  <2>1. n - 1 = m - 1 BY <1>7
  <2>q. QED BY <1>4, <2>1
<1>11. \A i \in S : \E n \in 1..k : f[n] = i
  <2> TAKE i \in S
  <2>1. pos[i] + 1 \in 1..k /\ (pos[i] + 1) - 1 = pos[i] BY <1>4, <1>5
  <2>2. f[pos[i] + 1] = i BY <1>5, <1>7, <2>1
  <2>q. QED BY <2>1, <2>2
<1> DEFINE D == 1..k
<1>12. f \in [D -> S] /\ (\A n, m \in D : f[n] = f[m] => n = m) /\ \A i \in S : \E n \in D : f[n] = i
  BY <1>9, <1>10, <1>11
<1> HIDE DEF D
<1>13. f \in Bijection(D, S) BY <1>12 DEF Bijection, Injection, Surjection, IsInjective
<1>q. QED BY <1>4, <1>13 DEF f, D, k

\* What a stored snapshot s is made of, and what it has been tested for.
Told(e, targeted, managed, s, prices, rate) ==
  LET holdings == [n \in DOMAIN e.items |-> normalizeHolding(e.items[n], prices, rate)]
  IN  /\ s.holdings = Range(holdings) /\ s.prices = prices
      /\ s.total = SumFunction([n \in DOMAIN e.items |-> holdings[n].value]) + managed
      /\ \A n \in DOMAIN e.items : Valuable(e.items[n], prices, rate)
      /\ \A i, j \in DOMAIN holdings : Key(holdings[i]) = Key(holdings[j]) => i = j
      /\ \A p \in prices : p.price \in Nat \ {0}
      /\ \A t \in targeted : \E p \in prices : Key(p) = Key(t)

LEMMA Evidence ==
  ASSUME NEW e, NEW targeted, NEW managed, NEW s, s \in collectPortfolio(e, targeted, managed)
  PROVE  \E prices, rate : Told(e, targeted, managed, s, prices, rate)
<1> DEFINE named == Range(e.items) \cup targeted
           wanted == collectValuationInstruments(named)
           markets == collectMarkets(wanted)
           rate == IF "US" \in markets THEN RateOf(e.exchange) ELSE Null
           prices == toStoredPriceSnapshots(e.quotes, wanted)
           calendars == Restrict(e.calendars, DOMAIN e.calendars \cap markets)
           holdings == [n \in DOMAIN e.items |-> normalizeHolding(e.items[n], prices, rate)]
           values == [n \in DOMAIN e.items |-> holdings[n].value]
<1>1. /\ \A n \in DOMAIN e.items : Valuable(e.items[n], prices, rate)
      /\ canonicalHoldingSnapshots(holdings) /\ canonicalPriceSnapshots(prices)
      /\ assertCompleteMarketEvidence(holdings, targeted, prices, calendars)
      /\ s.holdings = Range(holdings) /\ s.prices = prices
      /\ s.total = SumFunction(values) + managed
  <2> DEFINE stored == [status |-> IF \A p \in prices : p.observed # "NONE" THEN "VERIFIED" ELSE "BLOCKED",
                        holdings |-> Range(holdings), prices |-> prices, managed |-> managed,
                        power |-> BuyingPower(e.power, Currencies(markets), rate),
                        total |-> SumFunction(values) + managed]
             tested == /\ \A n \in DOMAIN e.items : Valuable(e.items[n], prices, rate)
                       /\ canonicalHoldingSnapshots(holdings) /\ canonicalPriceSnapshots(prices)
                       /\ assertCompleteMarketEvidence(holdings, targeted, prices, calendars)
  <2>1. s = stored /\ tested BY DEF collectPortfolio
  <2>2. /\ stored.holdings = Range(holdings) /\ stored.prices = prices
        /\ stored.total = SumFunction(values) + managed
    OBVIOUS
  <2>3. tested BY <2>1
  <2> HIDE DEF stored
  <2>q. QED BY <2>1, <2>2, <2>3
<1>2. \A t \in targeted : \E p \in prices : Key(p) = Key(t)
  <2> HIDE DEF prices, holdings, calendars
  <2> TAKE t \in targeted
  <2> DEFINE tell(x) == [market |-> x.market, symbol |-> x.symbol, currency |-> x.currency]
  <2>1. {tell(x) : x \in prices} = {tell(x) : x \in Range(holdings) \cup targeted}
    BY <1>1 DEF assertCompleteMarketEvidence
  <2>2. PICK p \in prices : tell(p) = tell(t) BY <2>1
  <2>3. tell(p).market = tell(t).market /\ tell(p).symbol = tell(t).symbol BY <2>2
  <2>4. p.market = t.market /\ p.symbol = t.symbol BY <2>3
  <2>q. QED BY <2>4 DEF Key
<1>3. \A p \in prices : p.price \in Nat \ {0} BY <1>1, Zenon DEF canonicalPriceSnapshots
<1>4. \A i, j \in DOMAIN holdings : Key(holdings[i]) = Key(holdings[j]) => i = j
  BY <1>1, Zenon DEF canonicalHoldingSnapshots
<1> HIDE DEF prices, rate
<1>5. Told(e, targeted, managed, s, prices, rate) BY <1>1, <1>2, <1>3, <1>4, Zenon DEF Told
<1>q. QED BY <1>5

LEMMA OneHolding ==
  ASSUME NEW h PROVE parseWholeUnits({h}) = h.quantity \div Unit /\ ValueIn({h}) = h.value
<1>1. (CHOOSE x \in {h} : TRUE) = h OBVIOUS
<1>q. QED BY <1>1 DEF parseWholeUnits, ValueIn

Held == {i \in Instruments : qty[i] > 0}

Items ==
  [n \in 1..Cardinality(Held) |->
     [market |-> "KR", symbol |-> Ordered(Held)[n], currency |-> "KRW",
      quantity |-> qty[Ordered(Held)[n]] * Unit,
      worth |-> qty[Ordered(Held)[n]] * StartPrice[Ordered(Held)[n]]]]

KR(i) == [market |-> "KR", symbol |-> i]

\* The planner reads from a snapshot of what is held every share, the price that
\* was quoted, and the value that follows.
LEMMA ReadBack ==
  ASSUME qty \in [Instruments -> Nat], NEW e, e.items = Items,
         target \in Target, NEW s \in collectPortfolio(e, Targeted, target.managed)
  PROVE  LET b == buildPlanInput(s)
         IN  /\ GoodBasis(b) /\ b.qty = qty /\ b.target = target
             /\ \A i \in Instruments : /\ b.value[i] = b.qty[i] * b.price[i]
                                       /\ b.price[i] = Null => qty[i] = 0
<1> DEFINE b == buildPlanInput(s)
           k == Cardinality(Held)
           name == Ordered(Held)
<1>a. \E prices, rate : Told(e, Targeted, target.managed, s, prices, rate)
  <2> DEFINE m == target.managed
  <2>1. s \in collectPortfolio(e, Targeted, m) OBVIOUS
  <2> HIDE DEF m
  <2>2. \E prices, rate : Told(e, Targeted, m, s, prices, rate) BY <2>1, Evidence, Zenon
  <2>q. QED BY <2>2 DEF m
<1>b. PICK prices, rate : Told(e, Targeted, target.managed, s, prices, rate) BY <1>a
<1> DEFINE holdings == [n \in DOMAIN e.items |-> normalizeHolding(e.items[n], prices, rate)]
           quote(i) == PriceOf(prices, KR(i))
           values == [n \in DOMAIN e.items |-> holdings[n].value]
<1>1. /\ s.holdings = Range(holdings) /\ s.prices = prices
      /\ s.total = SumFunction(values) + target.managed
      /\ \A n \in DOMAIN e.items : Valuable(e.items[n], prices, rate)
      /\ \A p \in prices : p.price \in Nat \ {0}
      /\ \A t \in Targeted : \E p \in prices : Key(p) = Key(t)
  BY <1>b, Zenon DEF Told
<1>2. Held \in SUBSET Instruments BY DEF Held
<1>3. k \in Nat /\ name \in Bijection(1..k, Held) BY <1>2, OrderedOnce
<1>4. DOMAIN e.items = 1..k BY DEF Items
<1> HIDE DEF k, name
<1>5. /\ \A n \in 1..k : name[n] \in Held
      /\ \A n, m \in 1..k : name[n] = name[m] => n = m
      /\ \A i \in Held : \E n \in 1..k : name[n] = i
  <2> DEFINE D == 1..k
  <2> HIDE DEF D
  <2>1. name \in Bijection(D, Held) BY <1>3 DEF D
  <2>2. /\ \A n \in D : name[n] \in Held
        /\ \A n, m \in D : name[n] = name[m] => n = m
        /\ \A i \in Held : \E n \in D : name[n] = i
    BY <2>1 DEF Bijection, Injection, Surjection, IsInjective
  <2>q. QED BY <2>2 DEF D
<1>6. \A n \in 1..k : /\ e.items[n].market = "KR" /\ e.items[n].symbol = name[n]
                      /\ e.items[n].quantity = qty[name[n]] * Unit
                      /\ Key(e.items[n]) = KR(name[n])
  BY DEF Items, name, k, Key, KR
<1>7. \A i \in Instruments : quote(i) \in Nat
  <2> TAKE i \in Instruments
  <2>1. \E p \in prices : Key(p) = KR(i)
    <3> DEFINE t == [market |-> "KR", symbol |-> i, currency |-> "KRW"]
    <3>1. t \in Targeted /\ Key(t) = KR(i) BY DEF Targeted, Key, KR
    <3> HIDE DEF t
    <3>2. \A u \in Targeted : \E p \in prices : Key(p) = Key(u) BY <1>1
    <3>q. QED BY <3>1, <3>2
  <2> DEFINE p == CHOOSE q \in prices : Key(q) = KR(i)
  <2>2. p \in prices BY <2>1
  <2>3. quote(i) = p.price BY DEF PriceOf
  <2> HIDE DEF p, quote
  <2>4. \A q \in prices : q.price \in Nat \ {0} BY <1>1
  <2>q. QED BY <2>2, <2>3, <2>4
<1>8. \A n \in 1..k : Whole(quote(name[n])) /\ quote(name[n]) \in Nat \ {0}
  <2> TAKE n \in 1..k
  <2>1. Valuable(e.items[n], prices, rate) BY <1>1, <1>4
  <2>2. Whole(PriceOf(prices, Key(e.items[n]))) BY <1>6, <2>1 DEF Valuable
  <2>3. PICK p \in prices : Key(p) = Key(e.items[n]) BY <2>1 DEF Valuable
  <2> DEFINE c == CHOOSE q \in prices : Key(q) = KR(name[n])
  <2>4. c \in prices BY <1>6, <2>3
  <2>5. quote(name[n]) = c.price BY DEF PriceOf
  <2>6. \A q \in prices : q.price \in Nat \ {0} BY <1>1
  <2> HIDE DEF c, quote
  <2>7. quote(name[n]) \in Nat \ {0} BY <2>4, <2>5, <2>6
  <2>8. PriceOf(prices, Key(e.items[n])) = quote(name[n]) BY <1>6 DEF quote
  <2>q. QED BY <2>2, <2>7, <2>8
<1>9. \A n \in 1..k : /\ Key(holdings[n]) = KR(name[n])
                      /\ holdings[n].quantity = qty[name[n]] * Unit
                      /\ holdings[n].value = qty[name[n]] * (quote(name[n]) \div Unit)
  <2> TAKE n \in 1..k
  <2> DEFINE item == e.items[n]
  <2>1. holdings[n] = normalizeHolding(item, prices, rate) BY <1>4
  <2>2. /\ item.market = "KR" /\ item.symbol = name[n] /\ item.quantity = qty[name[n]] * Unit
        /\ Key(item) = KR(name[n])
    BY <1>6
  <2> HIDE DEF holdings, item
  <2>3. /\ holdings[n].market = "KR" /\ holdings[n].symbol = name[n]
        /\ holdings[n].quantity = qty[name[n]] * Unit
        /\ holdings[n].value = instrumentValueKrwMinor("KR", qty[name[n]] * Unit, quote(name[n]), rate)
    BY <2>1, <2>2 DEF normalizeHolding
  <2>4. qty[name[n]] \in Nat BY <1>5 DEF Held
  <2>5. (qty[name[n]] * Unit) \div Unit = qty[name[n]] BY <2>4, Units
  <2>q. QED BY <2>3, <2>5 DEF Key, KR, instrumentValueKrwMinor
<1> HIDE DEF quote
<1>10. /\ s.holdings = Range(holdings) /\ s.prices = prices
       /\ s.total = SumFunction(values) + target.managed
  BY <1>1
<1>11. DOMAIN holdings = 1..k /\ DOMAIN values = 1..k /\ \A n \in 1..k : values[n] = holdings[n].value
  BY <1>4
<1> HIDE DEF holdings, values
<1>12. \A n \in 1..k : Holding(s, KR(name[n])) = {holdings[n]}
  <2> TAKE n \in 1..k
  <2>1. \A m \in 1..k : KR(name[m]) = KR(name[n]) => m = n
    <3>1. \A i, j : KR(i) = KR(j) => i = j
      <4> TAKE i, j
      <4>1. KR(i).symbol = i /\ KR(j).symbol = j BY DEF KR
      <4>q. QED BY <4>1
    <3>q. QED BY <1>5, <3>1
  <2>2. Key(KR(name[n])) = KR(name[n]) BY DEF Key, KR
  <2>q. QED BY <1>9, <1>10, <1>11, <2>1, <2>2 DEF Holding, Range
<1>13. \A i \in Instruments \ Held : Holding(s, KR(i)) = {}
  <2> TAKE i \in Instruments \ Held
  <2>1. \A m \in 1..k : KR(name[m]) # KR(i)
    <3> TAKE m \in 1..k
    <3>1. KR(name[m]).symbol = name[m] /\ KR(i).symbol = i BY DEF KR
    <3>q. QED BY <1>5, <3>1
  <2>2. Key(KR(i)) = KR(i) BY DEF Key, KR
  <2>q. QED BY <1>9, <1>10, <1>11, <2>1, <2>2 DEF Holding, Range
<1>14. /\ b.target = target /\ b.total = s.total
       /\ b.qty = [i \in Instruments |-> parseWholeUnits(Holding(s, KR(i)))]
       /\ b.price = [i \in Instruments |-> parseKrwMinor(quote(i))]
       /\ b.value = [i \in Instruments |-> ValueIn(Holding(s, KR(i)))]
  BY <1>10 DEF buildPlanInput, KR, quote
<1> HIDE DEF b
<1>15. \A i \in Instruments :
         /\ b.qty[i] = qty[i] /\ b.price[i] \in Nat /\ b.value[i] \in Nat
         /\ b.value[i] = qty[i] * b.price[i]
         /\ b.price[i] = Null => qty[i] = 0
  <2> TAKE i \in Instruments
  <2>0. Unit \in Nat \ {0, 1} BY EvidenceAssumption
  <2>1. b.price[i] \in Nat
    <3>1. quote(i) \div Unit \in Nat BY <1>7, <2>0
    <3>2. b.price[i] = IF Whole(quote(i)) THEN quote(i) \div Unit ELSE Null BY <1>14 DEF parseKrwMinor
    <3>q. QED BY <3>1, <3>2 DEF Null
  <2>2. CASE i \in Held
    <3>1. PICK n \in 1..k : name[n] = i BY <1>5, <2>2
    <3>2. Holding(s, KR(i)) = {holdings[n]} BY <1>12, <3>1
    <3> DEFINE h == holdings[n]
    <3>3. h = holdings[n] OBVIOUS
    <3>4. b.qty[i] = h.quantity \div Unit /\ b.value[i] = h.value BY <1>14, <3>2, OneHolding
    <3> HIDE DEF h
    <3>5. qty[i] \in Nat BY DEF Held
    <3>6. b.qty[i] = qty[i]
      <4>1. h.quantity = qty[i] * Unit BY <1>9, <3>1, <3>3
      <4>2. (qty[i] * Unit) \div Unit = qty[i] BY <3>5, Units
      <4>q. QED BY <3>4, <4>1, <4>2
    <3>7. b.price[i] = quote(i) \div Unit BY <1>8, <1>14, <3>1 DEF parseKrwMinor
    <3>8. b.value[i] = qty[i] * b.price[i] BY <1>9, <3>1, <3>3, <3>4, <3>7
    <3>9. b.price[i] # Null
      <4> DEFINE q == quote(i)
      <4>1. q \in Nat \ {0} /\ q % Unit = 0 BY <1>8, <3>1 DEF Whole
      <4> HIDE DEF q
      <4>2. q = Unit * (q \div Unit) + (q % Unit) BY <2>0, <4>1, Division
      <4>3. q \div Unit # 0 BY <2>0, <4>1, <4>2
      <4>q. QED BY <3>7, <4>3 DEF q, Null
    <3>10. qty[i] * b.price[i] \in Nat BY <2>1, <3>5
    <3>q. QED BY <2>1, <3>6, <3>8, <3>9, <3>10
  <2>3. CASE i \notin Held
    <3>1. Holding(s, KR(i)) = {} BY <1>13, <2>3
    <3>2. qty[i] = 0 BY <2>3 DEF Held
    <3>3. b.qty[i] = 0 /\ b.value[i] = 0 BY <1>14, <3>1 DEF parseWholeUnits, ValueIn
    <3>4. 0 * b.price[i] = 0 BY <2>1
    <3>q. QED BY <2>1, <3>2, <3>3, <3>4
  <2>q. QED BY <2>2, <2>3
<1>16. b.qty = qty
  <2>1. b.qty = [i \in Instruments |-> b.qty[i]] BY <1>14
  <2>2. qty = [i \in Instruments |-> qty[i]] OBVIOUS
  <2>q. QED BY <1>15, <2>1, <2>2
<1>17. b.price \in [Instruments -> Nat] /\ b.value \in [Instruments -> Nat]
  <2>1. b.price = [i \in Instruments |-> b.price[i]] /\ b.value = [i \in Instruments |-> b.value[i]]
    BY <1>14
  <2>q. QED BY <1>15, <2>1
<1>18. SumFunction(values) = SumFunctionOnSet(b.value, Instruments)
  <2> DEFINE D == 1..k  v == b.value
  <2>1. SumFunction(values) = SumFunctionOnSet(values, D) BY <1>11 DEF SumFunction
  <2>2. IsFiniteSet(D) /\ IsFiniteSet(Held) /\ IsFiniteSet(Instruments)
    <3>1. 1 \in Int /\ k \in Int BY <1>3
    <3>q. QED BY <1>2, <3>1, FS_Interval, Constants
  <2>3. \A n \in D : values[n] \in Int /\ values[n] = v[name[n]]
    <3> TAKE n \in D
    <3>1. name[n] \in Held /\ name[n] \in Instruments BY <1>2, <1>5
    <3>2. values[n] = qty[name[n]] * (quote(name[n]) \div Unit) BY <1>9, <1>11
    <3>3. b.price[name[n]] = quote(name[n]) \div Unit BY <1>8, <1>14, <3>1 DEF parseKrwMinor
    <3>4. v[name[n]] = qty[name[n]] * b.price[name[n]] /\ v[name[n]] \in Nat BY <1>15, <3>1
    <3>q. QED BY <3>2, <3>3, <3>4
  <2>4. \A i \in Instruments \ Held : v[i] = 0
    <3> TAKE i \in Instruments \ Held
    <3>1. qty[i] = 0 BY DEF Held
    <3>2. v[i] = 0 * b.price[i] /\ b.price[i] \in Nat BY <1>15, <3>1
    <3>q. QED BY <3>2
  <2>5. \A i \in Instruments : v[i] \in Int BY <1>15
  <2>6. name \in Bijection(D, Held) BY <1>3
  <2> HIDE DEF D, v
  <2>7. SumFunctionOnSet(values, D) = SumFunctionOnSet(v, Held) BY <2>2, <2>3, <2>6, SumRenamed
  <2>8. SumFunctionOnSet(v, Instruments) = SumFunctionOnSet(v, Held)
    BY <1>2, <2>2, <2>4, <2>5, SumOfSupport
  <2>q. QED BY <2>1, <2>7, <2>8 DEF v
<1>19. b.total = Total(b)
  <2>1. b.target.managed \in Nat BY <1>14, TargetParts
  <2>2. Total(b) = b.target.managed + SumFunctionOnSet(b.value, Instruments)
    BY <1>17, <2>1, TotalCounts
  <2>3. SumFunctionOnSet(b.value, Instruments) \in Int
    <3>1. \A i \in Instruments : b.value[i] \in Int BY <1>15
    <3>q. QED BY <3>1, Constants, SumType
  <2>q. QED BY <1>10, <1>14, <1>18, <2>1, <2>2, <2>3
<1>20. GoodBasis(b) BY <1>14, <1>16, <1>17, <1>19 DEF GoodBasis
<1>q. QED BY <1>14, <1>15, <1>16, <1>20 DEF b

LEMMA ItemsAre ==
  ASSUME qty \in [Instruments -> Nat]
  PROVE  /\ Items \in Seq({Items[n] : n \in DOMAIN Items}) /\ Len(Items) \in Nat
         /\ DOMAIN Items = 1..Len(Items)
         /\ \A n \in DOMAIN Items : /\ Items[n].market = "KR"
                                    /\ {"market", "symbol", "quantity"} \subseteq DOMAIN Items[n]
                                    /\ \E k \in Nat : Items[n].quantity = k * Unit
         /\ Account(<<>>).items = Items
         /\ Account(Foreign).items = Items \o Foreign
<1> DEFINE k == Cardinality(Held)  name == Ordered(Held)
<1>1. Held \in SUBSET Instruments BY DEF Held
<1>2. k \in Nat /\ name \in Bijection(1..k, Held) BY <1>1, OrderedOnce
<1>3. DOMAIN name = 1..k BY DEF Ordered
<1>4. \A n \in 1..k : name[n] \in Held BY <1>2 DEF Bijection, Injection
<1>5. \A extra : Account(extra).items = Items \o extra
  <2> TAKE extra
  <2> DEFINE held == Ordered({i \in Instruments : qty[i] > 0})
             told == [n \in DOMAIN held |->
                        [market |-> "KR", symbol |-> held[n], currency |-> "KRW",
                         quantity |-> qty[held[n]] * Unit,
                         worth |-> qty[held[n]] * StartPrice[held[n]]]]
  <2>1. told = Items BY <1>3, Zenon DEF Items, Held
  <2> HIDE DEF told
  <2>2. Account(extra).items = told \o extra BY DEF Account, told
  <2>q. QED BY <2>1, <2>2
<1>6. Items = [n \in 1..k |-> Items[n]] /\ DOMAIN Items = 1..k BY DEF Items
<1>7. \A n \in 1..k : /\ Items[n].market = "KR" /\ Items[n].quantity = qty[name[n]] * Unit
                      /\ {"market", "symbol", "quantity"} \subseteq DOMAIN Items[n]
  BY DEF Items
<1>8. \A n \in 1..k : qty[name[n]] \in Nat BY <1>4 DEF Held
<1> HIDE DEF k, name
<1> DEFINE T == {Items[n] : n \in DOMAIN Items}
<1>9. Items \in Seq(T)
  <2>1. \A n \in 1..k : Items[n] \in T BY <1>6
  <2> HIDE DEF T
  <2>q. QED BY <1>2, <1>6, <2>1
<1>10. Len(Items) = k BY <1>2, <1>6, <1>9
<1>11. Items \o <<>> = Items
  <2> HIDE DEF T
  <2>q. QED BY <1>9
<1>q. QED BY <1>2, <1>5, <1>6, <1>7, <1>8, <1>9, <1>10, <1>11

\* What is held in another market is not in the target.
LEMMA ForeignIsUnmanaged ==
  ASSUME NEW e, NEW n \in DOMAIN e.items, e.items[n].market # "KR", NEW m,
         NEW s, s \in collectPortfolio(e, Targeted, m), Managed(s, Targeted)
  PROVE  FALSE
<1>1. PICK prices, rate : Told(e, Targeted, m, s, prices, rate) BY Evidence, Zenon
<1> DEFINE holdings == [i \in DOMAIN e.items |-> normalizeHolding(e.items[i], prices, rate)]
<1>2. s.holdings = Range(holdings) BY <1>1, Zenon DEF Told
<1>3. holdings[n] = normalizeHolding(e.items[n], prices, rate) /\ DOMAIN holdings = DOMAIN e.items
  OBVIOUS
<1> HIDE DEF holdings
<1>4. holdings[n].market = e.items[n].market BY <1>3 DEF normalizeHolding
<1>5. holdings[n] \in s.holdings BY <1>2, <1>3 DEF Range
<1>6. PICK t \in Targeted : Key(t) = Key(holdings[n]) BY <1>5 DEF Managed
<1>7. t.market = "KR" BY DEF Targeted
<1>8. Key(t).market = t.market /\ Key(holdings[n]).market = holdings[n].market BY DEF Key
<1>q. QED BY <1>4, <1>6, <1>7, <1>8

\* Neither an instrument that is listed twice nor parts of a share are stored.
LEMMA NotStored ==
  ASSUME NEW e, NEW m, NEW s, s \in collectPortfolio(e, Targeted, m)
  PROVE  /\ \A i, j \in DOMAIN e.items : Key(e.items[i]) = Key(e.items[j]) => i = j
         /\ \A n \in DOMAIN e.items : e.items[n].market = "KR" => Whole(e.items[n].quantity)
<1>1. PICK prices, rate : Told(e, Targeted, m, s, prices, rate) BY Evidence, Zenon
<1> DEFINE holdings == [i \in DOMAIN e.items |-> normalizeHolding(e.items[i], prices, rate)]
<1>2. /\ \A i, j \in DOMAIN holdings : Key(holdings[i]) = Key(holdings[j]) => i = j
      /\ \A n \in DOMAIN e.items : Valuable(e.items[n], prices, rate)
  BY <1>1, Zenon DEF Told
<1>3. DOMAIN holdings = DOMAIN e.items
      /\ \A i \in DOMAIN e.items : holdings[i] = normalizeHolding(e.items[i], prices, rate)
  OBVIOUS
<1> HIDE DEF holdings
<1>4. \A i \in DOMAIN e.items : Key(holdings[i]) = Key(e.items[i])
  <2> TAKE i \in DOMAIN e.items
  <2> DEFINE item == e.items[i]
  <2>1. holdings[i] = normalizeHolding(item, prices, rate) BY <1>3
  <2> HIDE DEF item
  <2>2. holdings[i].market = item.market /\ holdings[i].symbol = item.symbol
    BY <2>1 DEF normalizeHolding
  <2>q. QED BY <2>2 DEF Key, item
<1>5. \A n \in DOMAIN e.items : e.items[n].market = "KR" => Whole(e.items[n].quantity)
  BY <1>2 DEF Valuable
<1>q. QED BY <1>2, <1>3, <1>4, <1>5

Extends(u, r, t) ==
  /\ DOMAIN u = 1 .. Len(r) + 1
  /\ u[Len(r) + 1] = t[1]

LEMMA Appended ==
  ASSUME NEW U, NEW r \in Seq(U), NEW t \in Seq(U), Len(t) = 1
  PROVE  Extends(r \o t, r, t)
<1>1. Len(r) \in Nat OBVIOUS
<1>2. r \o t \in Seq(U) /\ Len(r \o t) = Len(r) + Len(t) BY ConcatProperties, Zenon
<1>3. \A i \in 1 .. Len(r) + Len(t) : (r \o t)[i] = IF i <= Len(r) THEN r[i] ELSE t[i - Len(r)]
  BY ConcatProperties, Zenon
<1> DEFINE u == r \o t  k == Len(r) + 1
<1>4. u \in Seq(U) /\ Len(u) = k BY <1>2
<1>5. \A i \in 1..k : u[i] = IF i <= Len(r) THEN r[i] ELSE t[i - Len(r)] BY <1>3
<1> HIDE DEF u
<1>6. k \in 1..k /\ ~(k <= Len(r)) /\ k - Len(r) = 1 BY <1>1
<1>7. u[k] = t[1] BY <1>5, <1>6
<1>q. QED BY <1>4, <1>7 DEF Extends, u

LEMMA StoredIsHeld ==
  ASSUME qty \in [Instruments -> Nat], NEW s, s \in Stored, Managed(s, Targeted)
  PROVE  \E e : e.items = Items /\ s \in collectPortfolio(e, Targeted, target.managed)
<1> DEFINE A == Account(<<>>)  F == Account(Foreign)  m == target.managed
           F2 == [F EXCEPT !.exchange.base = "KRW"]
<1>1. PICK e \in {A, F} \cup Distorted(A) \cup {F2} : s \in collectPortfolio(e, Targeted, m)
  BY DEF Stored
<1>2. A.items = Items /\ F.items = Items \o Foreign BY ItemsAre
<1>3. "items" \in DOMAIN A /\ "items" \in DOMAIN F BY DEF Account
<1> HIDE DEF A, F, m
<1>4. CASE e = A BY <1>1, <1>2, <1>4 DEF m
<1>5. CASE e \in {F, F2}
  <2>1. e.items = Items \o Foreign BY <1>2, <1>3, <1>5
  <2> DEFINE n == Len(Items) + 1  T == {Items[i] : i \in DOMAIN Items}
  <2>2. Items \in Seq(T) /\ Len(Items) \in Nat BY ItemsAre
  <2>3. Foreign \in Seq({Foreign[1]}) /\ Len(Foreign) = 1 /\ Foreign[1].market = "US" BY DEF Foreign
  <2> DEFINE U == T \cup {Foreign[1]}
  <2>a. Items \in Seq(U) /\ Foreign \in Seq(U)
    <3> HIDE DEF T
    <3>q. QED BY <2>2, <2>3
  <2> HIDE DEF T, U
  <2>4. n \in DOMAIN e.items /\ e.items[n] = Foreign[1]
    <3>1. Extends(Items \o Foreign, Items, Foreign) BY <2>a, <2>3, Appended, Zenon
    <3>q. QED BY <2>1, <2>2, <3>1 DEF Extends
  <2>q. QED BY <1>1, <2>3, <2>4, ForeignIsUnmanaged
<1>6. CASE e \in Distorted(A)
  <2>1. CASE e.items = Items BY <1>1, <2>1 DEF m
  <2>2. CASE e.items # Items
    <3>1. /\ A.items # <<>>
          /\ \/ e = [A EXCEPT !.items = Append(@, [Head(@) EXCEPT !.quantity = Unit])]
             \/ e = [A EXCEPT !.items[1].quantity = @ + 1]
      BY <1>2, <1>3, <1>6, <2>2 DEF Distorted
    <3> DEFINE T == {Items[i] : i \in DOMAIN Items}
    <3>2. /\ Items \in Seq(T) /\ Len(Items) \in Nat /\ Items # <<>> /\ DOMAIN Items = 1..Len(Items)
          /\ \A n \in DOMAIN Items : /\ Items[n].market = "KR"
                                     /\ {"market", "symbol", "quantity"} \subseteq DOMAIN Items[n]
                                     /\ \E k \in Nat : Items[n].quantity = k * Unit
      BY <1>2, <3>1, ItemsAre
    <3>3. Len(Items) >= 1
      <4> HIDE DEF T
      <4>q. QED BY <3>2
    <3>4. CASE e = [A EXCEPT !.items = Append(@, [Head(@) EXCEPT !.quantity = Unit])]
      <4> DEFINE last == [Items[1] EXCEPT !.quantity = Unit]
      <4>1. e.items = Append(Items, last)
        <5>1. Head(Items) = Items[1]
          <6> HIDE DEF T
          <6>q. QED BY <3>2, <3>3
        <5>q. QED BY <1>2, <1>3, <3>4, <5>1
      <4>2. Key(last) = Key(Items[1])
        <5> DEFINE h == Items[1]
        <5>1. "market" \in DOMAIN h /\ "symbol" \in DOMAIN h BY <3>2, <3>3
        <5>2. last = [h EXCEPT !.quantity = Unit] OBVIOUS
        <5> HIDE DEF h, last
        <5>3. last.market = h.market /\ last.symbol = h.symbol BY <5>1, <5>2
        <5>q. QED BY <5>3 DEF Key, h
      <4> HIDE DEF last
      <4>3. /\ 1 \in DOMAIN e.items /\ Len(Items) + 1 \in DOMAIN e.items
            /\ e.items[1] = Items[1] /\ e.items[Len(Items) + 1] = last
        <5> HIDE DEF T
        <5>q. QED BY <3>2, <3>3, <4>1
      <4>4. 1 = Len(Items) + 1 BY <1>1, <4>2, <4>3, NotStored
      <4>q. QED BY <3>2, <3>3, <4>4
    <3>5. CASE e = [A EXCEPT !.items[1].quantity = @ + 1]
      <4>1. e.items = [Items EXCEPT ![1].quantity = @ + 1] BY <1>2, <1>3, <3>5
      <4>2. 1 \in DOMAIN Items BY <3>2, <3>3
      <4>3. "quantity" \in DOMAIN Items[1] /\ "market" \in DOMAIN Items[1] BY <3>2, <4>2
      <4>4. /\ 1 \in DOMAIN e.items /\ e.items[1].market = "KR"
            /\ e.items[1].quantity = Items[1].quantity + 1
        BY <3>2, <4>1, <4>2, <4>3
      <4>5. PICK k \in Nat : Items[1].quantity = k * Unit BY <3>2, <4>2
      <4>6. (k * Unit + 1) % Unit # 0 BY Units
      <4>7. Whole(e.items[1].quantity) BY <1>1, <4>4, NotStored
      <4>q. QED BY <4>4, <4>5, <4>6, <4>7 DEF Whole
    <3>q. QED BY <3>1, <3>4, <3>5
  <2>q. QED BY <2>1, <2>2
<1>q. QED BY <1>1, <1>4, <1>5, <1>6
-----------------------------------------------------------------------------
(* The state machine.                                                      *)

\* A class without instruments has no weight.
WeightsAreFounded ==
  target # NoTarget => \A c \in Securities : Members(c) = {} => target.weight[c] = 0

\* A plan keeps a basis that was collected, and is PLANNED only with an order.
PlanIsMade ==
  plan # NoPlan =>
    /\ GoodBasis(plan.basis)
    /\ plan.status = "PLANNED" => \E i \in Instruments : plan.order[i] > 0

PointsOfTarget ==
  target # NoTarget =>
    \A c \in Securities : Members(c) # {} => SumFunctionOnSet(target.within, Members(c)) = Scale

PlanKeeps(p) ==
  KeepsCash(p.basis, p) /\ StopsAtTheEdge(p.basis, p) /\ DesiredAddsUp(p.basis, p)

PlanInv ==
  plan # NoPlan => /\ PlanKeeps(plan)
                   /\ plan.basis.qty = qty /\ plan.basis.total = Total(plan.basis)

Inv ==
  /\ TypeOK /\ WeightsAreFounded /\ PointsOfTarget
  /\ PlanIsMade /\ PlanInv /\ VerifiedIsPlannable

LEMMA InvHolds ==
  Inv => /\ CashIsRetained /\ BuysStopAtTheEdge /\ PointsAddUp
         /\ VerifiedIsPlannable /\ PlansCountEveryShare
<1> SUFFICES ASSUME Inv PROVE /\ CashIsRetained /\ BuysStopAtTheEdge /\ PointsAddUp
                              /\ PlansCountEveryShare
  BY DEF Inv
<1>1. CASE plan = NoPlan
  BY <1>1 DEF Inv, NoPlan, CashIsRetained, BuysStopAtTheEdge, PointsAddUp, PointsOfTarget,
              PlansCountEveryShare
<1>2. CASE plan # NoPlan
  <2>1. PlanKeeps(plan) /\ PlansCountEveryShare
    BY <1>2 DEF Inv, PlanInv, PlansCountEveryShare
  <2>2. CashIsRetained BY <2>1 DEF PlanKeeps, KeepsCash, CashIsRetained, After
  <2>3. BuysStopAtTheEdge BY <2>1 DEF PlanKeeps, StopsAtTheEdge, BuysStopAtTheEdge, After
  <2>4. PointsAddUp BY <2>1 DEF PlanKeeps, DesiredAddsUp, PointsAddUp, Inv, PointsOfTarget
  <2>q. QED BY <2>1, <2>2, <2>3, <2>4
<1>q. QED BY <1>1, <1>2

LEMMA InvInit == Init => Inv
<1> SUFFICES ASSUME Init PROVE Inv OBVIOUS
<1>1. TypeOK BY RebalancingAssumption DEF Init, TypeOK
<1>q. QED
  BY <1>1 DEF Init, Inv, WeightsAreFounded, PointsOfTarget, PlanIsMade, PlanInv,
              VerifiedIsPlannable

\* Without a plan nothing is said of plans.
LEMMA WithoutPlan ==
  ASSUME plan' = NoPlan, (target \in Target \cup {NoTarget})', (WeightsAreFounded /\ PointsOfTarget)',
         (qty \in [Instruments -> Nat] /\ price \in [Instruments -> Prices] /\ money \in Nat)',
         (events \in 0..MaxEvents)'
  PROVE  Inv'
BY DEF Inv, TypeOK, PlanIsMade, PlanInv, VerifiedIsPlannable

LEMMA ApplyTargetKeepsInv ==
  ASSUME Inv, NEW weight \in Weights, NEW equal \in SUBSET Securities, NEW managed \in {0, money},
         ApplyTarget(weight, equal, managed)
  PROVE  Inv'
<1> DEFINE within == Resolved(equal)
<1>0. /\ qty \in [Instruments -> Nat] /\ price \in [Instruments -> Prices] /\ money \in Nat
      /\ events \in 0..MaxEvents /\ MaxEvents \in Nat
  BY RebalancingAssumption DEF Inv, TypeOK
<1>1. /\ within \in [Instruments -> 0..Scale]
      /\ \A c \in Securities : Members(c) # {} => SumFunctionOnSet(within, Members(c)) = Scale
  BY <1>0, NewPoints DEF ApplyTarget
<1>2. target' = [weight |-> weight, managed |-> managed, within |-> within]
  BY DEF ApplyTarget, Resolved
<1>3. \A c \in Securities : weight[c] > 0 => Members(c) # {}
  BY DEF ApplyTarget, TargetSettingsDraftInputSchema
<1>4. events > 0 /\ events' = events - 1 BY DEF ApplyTarget, Event
<1>5. plan' = NoPlan /\ UNCHANGED <<qty, price, money>> BY DEF ApplyTarget
<1> HIDE DEF within
<1>6. target' \in Target BY <1>0, <1>1, <1>2 DEF Target
<1>7. \A c \in Securities : Members(c) = {} => weight[c] = 0
  <2>1. \A c \in Securities : weight[c] \in 0..Scale /\ Scale \in Nat
    BY RebalancingAssumption DEF Classes
  <2>q. QED BY <2>1, <1>3
<1>8. WeightsAreFounded' BY <1>2, <1>7 DEF WeightsAreFounded, Members
<1>9. PointsOfTarget' BY <1>1, <1>2 DEF PointsOfTarget, Members
<1>10. events' \in 0..MaxEvents BY <1>0, <1>4
<1>q. QED BY <1>0, <1>5, <1>6, <1>8, <1>9, <1>10, WithoutPlan
LEMMA TradeKeepsInv ==
  ASSUME Inv, NEW n \in 1..(StartMoney + 1), Trade(n)
  PROVE  Inv'
<1> DEFINE S == {j \in Instruments : plan.order[j] > 0}  i == First(S)
<1>0. /\ qty \in [Instruments -> Nat] /\ price \in [Instruments -> Prices] /\ money \in Nat
      /\ events \in 0..MaxEvents /\ target \in Target \cup {NoTarget}
      /\ WeightsAreFounded /\ PointsOfTarget
  BY DEF Inv, TypeOK
<1>1. plan.status = "PLANNED" /\ plan # NoPlan BY DEF Trade, NoPlan
<1>2. plan.order \in [Instruments -> Nat] /\ plan.basis.price \in [Instruments -> Nat]
      /\ \E j \in Instruments : plan.order[j] > 0
  BY <1>1 DEF Inv, TypeOK, PlanIsMade, GoodBasis
<1>3. i \in S
  <2>1. S \in SUBSET Instruments /\ S # {} BY <1>2
  <2> HIDE DEF S
  <2>q. QED BY <2>1, Constants, SomeIsFirst
<1>4. i \in Instruments BY <1>3
<1> DEFINE p == plan.basis.price[i]  amount == n * p  m == plan.order[i]
<1>5. p \in Nat /\ m \in Nat BY <1>2, <1>4
<1>6. n \in Nat /\ n <= m
  <2>1. n \in Nat BY RebalancingAssumption
  <2>q. QED BY <2>1 DEF Trade
<1>7. amount \in Nat /\ amount <= m * p /\ m * p \in Nat
  <2> HIDE DEF p, m
  <2>q. QED BY <1>5, <1>6, Products
<1>8. \/ n <= qty[i] /\ qty' = [qty EXCEPT ![i] = @ - n] /\ money' = money + amount
      \/ /\ m * p + FeeBuffer <= money
         /\ qty' = [qty EXCEPT ![i] = @ + n] /\ money' = money - amount
  BY DEF Trade
<1>9. plan' = NoPlan /\ UNCHANGED <<price, target, events>> BY DEF Trade
<1> HIDE DEF S, i, p, m, amount
<1>10. money' \in Nat
  <2> DEFINE whole == m * p
  <2>1. amount \in Nat /\ amount <= whole /\ whole \in Nat BY <1>7
  <2>2. money' = money + amount \/ (whole + FeeBuffer <= money /\ money' = money - amount)
    <3> HIDE DEF whole
    <3>q. QED BY <1>8 DEF whole
  <2>3. FeeBuffer \in Nat BY RebalancingAssumption
  <2> HIDE DEF whole
  <2>q. QED BY <1>0, <2>1, <2>2, <2>3
<1>11. qty' \in [Instruments -> Nat]
  <2>1. qty[i] \in Nat BY <1>0, <1>4
  <2>2. CASE n <= qty[i] /\ qty' = [qty EXCEPT ![i] = @ - n]
    <3>1. qty[i] - n \in Nat BY <1>6, <2>1, <2>2
    <3>q. QED BY <1>0, <2>2, <3>1
  <2>3. CASE qty' = [qty EXCEPT ![i] = @ + n]
    <3>1. qty[i] + n \in Nat BY <1>6, <2>1
    <3>q. QED BY <1>0, <2>3, <3>1
  <2>q. QED BY <1>8, <2>2, <2>3
<1>12. WeightsAreFounded' /\ PointsOfTarget'
  BY <1>0, <1>9 DEF WeightsAreFounded, PointsOfTarget, Members
<1>q. QED BY <1>0, <1>9, <1>10, <1>11, <1>12, WithoutPlan

\* Only what the invariant does not read, or price within its type, may change.
LEMMA OthersKeepInv ==
  ASSUME Inv, UNCHANGED <<qty, money, target, plan>>,
         price' \in [Instruments -> Prices], events' \in 0..MaxEvents
  PROVE  Inv'
<1>1. TypeOK' BY DEF Inv, TypeOK, Target
<1>2. WeightsAreFounded' /\ PointsOfTarget' BY DEF Inv, WeightsAreFounded, PointsOfTarget, Members
<1>3. PlanIsMade' BY DEF Inv, PlanIsMade
<1>4. PlanInv' BY DEF Inv, PlanInv
<1>5. VerifiedIsPlannable' BY DEF Inv, VerifiedIsPlannable
<1>q. QED BY <1>1, <1>2, <1>3, <1>4, <1>5 DEF Inv

LEMMA PriceMovesKeepsInv ==
  ASSUME Inv, NEW i \in Instruments, NEW p \in Prices, PriceMoves(i, p)
  PROVE  Inv'
<1>1. price \in [Instruments -> Prices] /\ events \in 0..MaxEvents /\ MaxEvents \in Nat
  BY RebalancingAssumption DEF Inv, TypeOK
<1>2. price' \in [Instruments -> Prices] BY <1>1 DEF PriceMoves
<1>3. events' \in 0..MaxEvents BY <1>1 DEF PriceMoves, Event
<1>q. QED BY <1>2, <1>3, OthersKeepInv DEF PriceMoves
\* What the planner makes of a snapshot that the engine has verified.
LEMMA EveryPlanIsFounded ==
  ASSUME NEW b, NEW answer, GoodBasis(b),
         \A c \in Securities :
           IF Members(c) = {} THEN b.target.weight[c] = 0
           ELSE SumFunctionOnSet(b.target.within, Members(c)) = Scale,
         \A i \in Instruments : b.price[i] # Null => b.value[i] = b.qty[i] * b.price[i]
  PROVE  LET r == calculatePlanWithPreflight(b, answer)
         IN  /\ r.reasons \cap {"INSTRUMENT_VALUE_MISMATCH", "WITHIN_ASSET_ALLOCATION_INVALID"} = {}
             /\ "PRICE_MISSING_OR_INVALID" \in r.reasons => \E i \in Instruments : b.price[i] = Null
<1> DEFINE r == calculatePlanWithPreflight(b, answer)
           Founded(x) ==
             /\ x \cap {"INSTRUMENT_VALUE_MISMATCH", "WITHIN_ASSET_ALLOCATION_INVALID"} = {}
             /\ "PRICE_MISSING_OR_INVALID" \in x => \E i \in Instruments : b.price[i] = Null
<1>1. PlanOf(b, r) BY Calculated
<1> HIDE DEF r
<1>2. ASSUME NEW reason \in Obstacles, r = Blocked(reason) PROVE Founded(r.reasons)
  <2>1. r.reasons = {reason} BY <1>2, BlockedKeeps
  <2>q. QED BY <2>1 DEF Obstacles
<1>3. ASSUME NEW sellable, r = Blocked(validateAndNormalizeInput(b, sellable)) PROVE Founded(r.reasons)
  <2> DEFINE fault == validateAndNormalizeInput(b, sellable)
  <2>1. r.reasons = {fault} BY <1>3, BlockedKeeps
  <2>2. /\ fault \notin {"INSTRUMENT_VALUE_MISMATCH", "WITHIN_ASSET_ALLOCATION_INVALID"}
        /\ fault = "PRICE_MISSING_OR_INVALID" => \E i \in Instruments : b.price[i] = Null
    BY Faults
  <2> HIDE DEF fault
  <2>q. QED BY <2>1, <2>2
<1>4. ASSUME r = Made(b), NEW sellable, validateAndNormalizeInput(b, sellable) = "NONE"
      PROVE  Founded(r.reasons)
  <2>1. r.reasons \cap {"INSTRUMENT_VALUE_MISMATCH", "WITHIN_ASSET_ALLOCATION_INVALID",
                        "PRICE_MISSING_OR_INVALID"} = {}
    BY <1>4, MadeOrders
  <2>q. QED BY <2>1
<1> HIDE DEF Founded
<1>5. Founded(r.reasons) BY <1>1, <1>2, <1>3, <1>4 DEF PlanOf
<1>q. QED BY <1>5 DEF Founded, r

LEMMA CalculateKeepsInv ==
  ASSUME Inv, NEW s \in Stored, NEW answer, Calculate(s, answer)
  PROVE  Inv'
<1> DEFINE b == buildPlanInput(s)  r == calculatePlanWithPreflight(b, answer)
<1>0. /\ qty \in [Instruments -> Nat] /\ price \in [Instruments -> Prices] /\ money \in Nat
      /\ events \in 0..MaxEvents /\ target \in Target \cup {NoTarget}
      /\ WeightsAreFounded /\ PointsOfTarget
  BY DEF Inv, TypeOK
<1>1. target # NoTarget /\ target \in Target /\ Managed(s, Targeted) BY <1>0 DEF Calculate
<1>2. plan' = [status |-> r.status, side |-> r.side, reasons |-> r.reasons,
               desired |-> r.desired, order |-> r.order, basis |-> b,
               answered |-> DOMAIN answer # {}]
  BY DEF Calculate
<1>3. UNCHANGED <<qty, price, money, target, events>> BY DEF Calculate
<1>4. PICK e : e.items = Items /\ s \in collectPortfolio(e, Targeted, target.managed)
  BY <1>0, <1>1, StoredIsHeld
<1>5. /\ GoodBasis(b) /\ b.qty = qty /\ b.target = target
      /\ \A i \in Instruments : /\ b.value[i] = b.qty[i] * b.price[i]
                                /\ b.price[i] = Null => qty[i] = 0
  BY <1>0, <1>1, <1>4, ReadBack
<1> HIDE DEF b
<1>6. \A c \in Securities :
        IF Members(c) = {} THEN b.target.weight[c] = 0
        ELSE SumFunctionOnSet(b.target.within, Members(c)) = Scale
  BY <1>0, <1>1, <1>5 DEF WeightsAreFounded, PointsOfTarget
<1>7. /\ r.reasons \cap {"INSTRUMENT_VALUE_MISMATCH", "WITHIN_ASSET_ALLOCATION_INVALID"} = {}
      /\ "PRICE_MISSING_OR_INVALID" \in r.reasons => \E i \in Instruments : b.price[i] = Null
  BY <1>5, <1>6, EveryPlanIsFounded
<1>8. /\ KeepsCash(b, r) /\ StopsAtTheEdge(b, r) /\ DesiredAddsUp(b, r)
      /\ r.order \in [Instruments -> Nat]
      /\ r.status = "PLANNED" => \E i \in Instruments : r.order[i] > 0
  BY <1>5, EveryPlan
<1> HIDE DEF r
<1>9. /\ plan'.status = r.status /\ plan'.side = r.side /\ plan'.reasons = r.reasons
      /\ plan'.desired = r.desired /\ plan'.order = r.order /\ plan'.basis = b
  BY <1>2
<1>10. TypeOK'
  <2>1. b.target \in Target BY <1>1, <1>5
  <2>q. QED BY <1>0, <1>3, <1>8, <1>9, <2>1 DEF TypeOK
<1>11. WeightsAreFounded' /\ PointsOfTarget'
  BY <1>0, <1>3 DEF WeightsAreFounded, PointsOfTarget, Members
<1>12. PlanIsMade' BY <1>5, <1>8, <1>9 DEF PlanIsMade
<1>13. PlanInv'
  <2>1. PlanKeeps(plan') BY <1>8, <1>9 DEF PlanKeeps, KeepsCash, StopsAtTheEdge, DesiredAddsUp
  <2>2. plan'.basis.qty = qty' BY <1>3, <1>5, <1>9
  <2>3. b.total = Total(b) BY <1>5 DEF GoodBasis
  <2>q. QED BY <1>9, <2>1, <2>2, <2>3 DEF PlanInv
<1>14. VerifiedIsPlannable' BY <1>3, <1>5, <1>7, <1>9 DEF VerifiedIsPlannable
<1>q. QED BY <1>10, <1>11, <1>12, <1>13, <1>14 DEF Inv
LEMMA InvStep == Inv /\ [Next]_vars => Inv'
<1> SUFFICES ASSUME Inv, [Next]_vars PROVE Inv' OBVIOUS
<1>1. CASE \E weight \in Weights, equal \in SUBSET Securities, managed \in {0, money} :
             ApplyTarget(weight, equal, managed)
  BY <1>1, ApplyTargetKeepsInv
<1>2. CASE Calculates BY <1>2, CalculateKeepsInv DEF Calculates
<1>3. CASE Trades BY <1>3, TradeKeepsInv DEF Trades
<1>4. CASE \E i \in Instruments, p \in Prices : PriceMoves(i, p) BY <1>4, PriceMovesKeepsInv
<1>5. CASE UNCHANGED vars BY <1>5, OthersKeepInv DEF vars, Inv, TypeOK
<1>q. QED BY <1>1, <1>2, <1>3, <1>4, <1>5 DEF Next

LEMMA InvAlways == Spec => []Inv
BY InvInit, InvStep, PTL DEF Spec

\* Holdings, prices, buying power and target stay what they are meant to be, and
\* neither a trade nor rounding makes a holding or the buying power negative.
\* (rebalance.ts, shadow-plan.ts, the cycle of shadow-plan.use-case.ts)
THEOREM TypeCorrect == Spec => []TypeOK
<1>1. Inv => TypeOK BY DEF Inv
<1>q. QED BY <1>1, InvAlways, PTL

\* A buying phase leaves the cash target in place, commissions included, however the
\* cash is split over classes and instruments.
\* (shadow-plan.use-case.ts: spendableCashMinor; shadow-plan.ts: fundings)
THEOREM CashIsAlwaysRetained == Spec => []CashIsRetained
<1>1. Inv => CashIsRetained BY InvHolds
<1>q. QED BY <1>1, InvAlways, PTL

\* Buying stops at the edge of the band: the orders of a class are together worth no
\* more than the class lacks to the first amount in its range.
\* (rebalance.ts: desiredBandEdgeValue, roundKrOrder; shadow-plan.ts: the phases)
THEOREM BuysAlwaysStopAtTheEdge == Spec => []BuysStopAtTheEdge
<1>1. Inv => BuysStopAtTheEdge BY InvHolds
<1>q. QED BY <1>1, InvAlways, PTL

\* The points of a class add up to the whole and the desired values of its
\* instruments to what is desired of the class: largest remainders lose nothing.
\* (within-asset-allocation.ts; shadow-plan.ts: allocateDesiredInstrumentValues)
THEOREM PointsAlwaysAddUp == Spec => []PointsAddUp
<1>1. Inv => PointsAddUp BY InvHolds
<1>q. QED BY <1>1, InvAlways, PTL

\* What was collected as VERIFIED never meets the planner's own faults.
\* (normalizeHolding, canonicalPriceSnapshots; validateAndNormalizeInput)
THEOREM VerifiedIsAlwaysPlannable == Spec => []VerifiedIsPlannable
<1>1. Inv => VerifiedIsPlannable BY InvHolds
<1>q. QED BY <1>1, InvAlways, PTL

\* A plan counts every share of the account and no other, whatever else the broker
\* tells and in whatever order.
\* (canonicalHoldingSnapshots; buildPlanInput)
THEOREM PlansAlwaysCountEveryShare == Spec => []PlansCountEveryShare
<1>1. Inv => PlansCountEveryShare BY InvHolds
<1>q. QED BY <1>1, InvAlways, PTL
=============================================================================
