----------------------------- MODULE PaperProofs -----------------------------
(***************************************************************************)
(* Proofs about the daily limit and the execution of PAPER plans, for any  *)
(* number of requests, orders, plans, days and looks at a book: executions *)
(* never overrun the limit together, reservations agree with the ledger,   *)
(* no two requests work on one order, a replay fills as much as the book   *)
(* allows for the best price there is, and what a buy filled is stored.    *)
(***************************************************************************)
EXTENDS PaperExecution, Sums

Known ==
  /\ IsFiniteSet(Orders) /\ Amounts \subseteq Nat /\ Absent \notin Amounts \cup Days \cup Rows
  /\ Days \subseteq Nat /\ Plans \subseteq SUBSET Orders /\ {} \notin Plans
  /\ Reserve \in [Orders -> Nat \ {0}] /\ Qty \in Nat \ {0}

LEMMA KnownHolds == Known
<1>1. Days \subseteq Nat BY BudgetAssumption DEF Days
<1>q. QED BY <1>1, BudgetAssumption, PaperAssumption DEF Known

-----------------------------------------------------------------------------
(* What a day has used.                                                    *)

Unreleased(rows) == [o \in Orders |-> Reserve[o] - rows[o].released]

LEMMA RowTypes ==
  ASSUME NEW rows \in Reservations, NEW o \in Orders, rows[o] # Absent
  PROVE  rows[o].day \in Days /\ rows[o].filled \in Nat /\ rows[o].released \in Nat
BY DEF Reservations, Rows

LEMMA OrdersOfFacts ==
  ASSUME NEW rows, NEW d
  PROVE  IsFiniteSet(OrdersOf(rows, d)) /\ OrdersOf(rows, d) \subseteq Orders
BY KnownHolds, FS_Subset DEF Known, OrdersOf

LEMMA UsageIsSum ==
  ASSUME NEW rows, NEW d
  PROVE  Usage(rows, d) = SumFunctionOnSet(Unreleased(rows), OrdersOf(rows, d))
<1> DEFINE f == [o \in OrdersOf(rows, d) |-> Reserve[o] - rows[o].released]
<1>1. Usage(rows, d) = SumFunctionOnSet(f, OrdersOf(rows, d))
  BY Zenon DEF Usage, SumFunction
<1>2. \A o \in OrdersOf(rows, d) : f[o] = Unreleased(rows)[o]
  BY OrdersOfFacts DEF Unreleased
<1> HIDE DEF f
<1>q. QED BY <1>1, <1>2, OrdersOfFacts, SumSame

LEMMA UnreleasedType ==
  ASSUME NEW rows \in Reservations, NEW d, NEW o \in OrdersOf(rows, d)
  PROVE  Unreleased(rows)[o] = Reserve[o] - rows[o].released /\ Unreleased(rows)[o] \in Int
<1>1. o \in Orders /\ rows[o] # Absent BY DEF OrdersOf
<1>2. rows[o].released \in Nat /\ Reserve[o] \in Nat BY <1>1, RowTypes, KnownHolds DEF Known
<1>q. QED BY <1>1, <1>2 DEF Unreleased

LEMMA UsageType ==
  ASSUME NEW rows \in Reservations, NEW d PROVE Usage(rows, d) \in Int
BY UsageIsSum, UnreleasedType, OrdersOfFacts, SumType

LEMMA NothingUsed ==
  ASSUME NEW rows, NEW d, OrdersOf(rows, d) = {} PROVE Usage(rows, d) = 0
BY UsageIsSum, SumEmpty

\* Who releases more uses less.
LEMMA UsageShrinks ==
  ASSUME NEW old \in Reservations, NEW new \in Reservations, NEW d,
         OrdersOf(new, d) = OrdersOf(old, d),
         \A o \in OrdersOf(old, d) : old[o].released <= new[o].released
  PROVE  Usage(new, d) <= Usage(old, d)
<1> DEFINE S == OrdersOf(old, d)
<1>1. \A o \in S :
        /\ Unreleased(old)[o] \in Int /\ Unreleased(new)[o] \in Int
        /\ Unreleased(new)[o] <= Unreleased(old)[o]
  <2> TAKE o \in S
  <2>1. o \in Orders /\ old[o] # Absent /\ new[o] # Absent BY DEF OrdersOf
  <2>2. old[o].released \in Nat /\ new[o].released \in Nat /\ Reserve[o] \in Nat
    BY <2>1, RowTypes, KnownHolds DEF Known
  <2>q. QED BY <2>1, <2>2 DEF Unreleased
<1>2. IsFiniteSet(S) BY OrdersOfFacts
<1> HIDE DEF S
<1>3. SumFunctionOnSet(Unreleased(new), S) <= SumFunctionOnSet(Unreleased(old), S)
  BY <1>1, <1>2, SumAtMost
<1>q. QED BY <1>3, UsageIsSum DEF S

\* New orders of a day use what they reserve.
LEMMA UsageGrows ==
  ASSUME NEW old \in Reservations, NEW new \in Reservations, NEW d, NEW plan \in SUBSET Orders,
         OrdersOf(new, d) = OrdersOf(old, d) \cup plan, OrdersOf(old, d) \cap plan = {},
         \A o \in OrdersOf(old, d) : new[o] = old[o],
         \A o \in plan : new[o].released = 0
  PROVE  Usage(new, d) = Usage(old, d) + SumFunctionOnSet(Reserve, plan)
<1> DEFINE S == OrdersOf(old, d)
           f == Unreleased(new)
<1>1. IsFiniteSet(S) /\ IsFiniteSet(plan) BY OrdersOfFacts, KnownHolds, FS_Subset DEF Known
<1>2. \A o \in S \cup plan : f[o] \in Int BY UnreleasedType
<1>3. SumFunctionOnSet(f, S) = SumFunctionOnSet(Unreleased(old), S)
  <2>1. \A o \in S : f[o] = Unreleased(old)[o] BY OrdersOfFacts DEF Unreleased
  <2> HIDE DEF S, f
  <2>q. QED BY <1>1, <2>1, SumSame
<1>4. SumFunctionOnSet(f, plan) = SumFunctionOnSet(Reserve, plan)
  <2>1. \A o \in plan : f[o] = Reserve[o]
    <3> TAKE o \in plan
    <3>1. Reserve[o] \in Int BY KnownHolds DEF Known
    <3>q. QED BY <3>1 DEF Unreleased
  <2> HIDE DEF f
  <2>q. QED BY <1>1, <2>1, SumSame
<1>5. SumFunctionOnSet(f, S \cup plan) = SumFunctionOnSet(f, S) + SumFunctionOnSet(f, plan)
  <2>1. S \cap plan = {} OBVIOUS
  <2> HIDE DEF S, f
  <2>q. QED BY <1>1, <1>2, <2>1, SumOfParts
<1> HIDE DEF f
<1>q. QED BY <1>3, <1>4, <1>5, UsageIsSum DEF f

-----------------------------------------------------------------------------
(* What a replay fills.                                                    *)

\* An order and one side of a book, as the replay takes them.
Replayable(order, levels) ==
  /\ order.qty \in Nat /\ order.limit \in Nat
  /\ levels \in Seq([price : Int, qty : Int])
  /\ \A i \in DOMAIN levels : levels[i].price > 0 /\ levels[i].qty > 0

Qualifying(order, levels) == {i \in DOMAIN levels : Crosses(order, levels[i].price)}
Usable(order, levels) == [i \in Qualifying(order, levels) |-> Available(levels[i])]
Before(order, levels) ==
  [i \in Qualifying(order, levels) |->
     {j \in Qualifying(order, levels) : Better(order, levels, j, i)}]

LEMMA LevelFacts ==
  ASSUME NEW order, NEW levels, Replayable(order, levels)
  PROVE  /\ IsFiniteSet(DOMAIN levels) /\ DOMAIN levels \subseteq Int
         /\ \A i \in DOMAIN levels : /\ levels[i].price \in Nat \ {0}
                                     /\ Available(levels[i]) \in Nat
<1>1. DOMAIN levels = 1 .. Len(levels) /\ Len(levels) \in Nat BY DEF Replayable
<1>2. IsFiniteSet(DOMAIN levels) BY <1>1, FS_Interval
<1>3. ASSUME NEW i \in DOMAIN levels
      PROVE  levels[i].price \in Nat \ {0} /\ Available(levels[i]) \in Nat
  <2> DEFINE R == [price : Int, qty : Int]
  <2>0. levels \in Seq(R) BY DEF Replayable
  <2>1. levels[i] \in R
    <3> HIDE DEF R
    <3>q. QED BY <1>1, <2>0
  <2>2. levels[i].price > 0 /\ levels[i].qty > 0 BY DEF Replayable
  <2> DEFINE n == levels[i].qty
  <2>3. levels[i].price \in Nat \ {0} /\ n \in Nat BY <2>1, <2>2
  <2>4. Participation \in Nat /\ Whole \in Nat \ {0} BY ReplayAssumption
  <2> HIDE DEF n
  <2>5. n * Participation \in Nat BY <2>3, <2>4
  <2> DEFINE m == n * Participation
  <2>6. m \in Nat BY <2>5
  <2> HIDE DEF m
  <2>7. m \div Whole \in Nat BY <2>4, <2>6
  <2>q. QED BY <2>3, <2>7 DEF Available, m, n
<1>q. QED BY <1>1, <1>2, <1>3

LEMMA BetterIsStrict ==
  ASSUME NEW order, NEW levels, Replayable(order, levels)
  PROVE  /\ IsFiniteSet(Qualifying(order, levels))
         /\ Strict(Before(order, levels), Qualifying(order, levels))
<1> DEFINE Q == Qualifying(order, levels)  before == Before(order, levels)
<1>1. Q \subseteq DOMAIN levels /\ IsFiniteSet(Q) BY LevelFacts, FS_Subset DEF Qualifying
<1>2. \A i \in Q : i \in Int /\ levels[i].price \in Int BY <1>1, LevelFacts
<1>3. \A i, j \in Q : j \in before[i] <=> Better(order, levels, j, i) BY DEF Before
<1>4. \A i \in Q : before[i] \subseteq Q BY DEF Before
<1> HIDE DEF Q, before
<1>5. \A i \in Q : ~Better(order, levels, i, i) BY <1>2 DEF Better
<1>6. \A i, j \in Q : i # j => Better(order, levels, i, j) \/ Better(order, levels, j, i)
  BY <1>2 DEF Better
<1>7. \A i, j, k \in Q : Better(order, levels, i, j) /\ Better(order, levels, j, k)
                           => Better(order, levels, i, k)
  BY <1>2 DEF Better
<1>8. Strict(before, Q) BY <1>3, <1>4, <1>5, <1>6, <1>7 DEF Strict
<1>q. QED BY <1>1, <1>8 DEF Q, before

LEMMA TakenFacts ==
  ASSUME NEW order, NEW levels, Replayable(order, levels)
  PROVE  LET Q == Qualifying(order, levels)
             taken == Taken(order, levels)
             usable == Usable(order, levels)
             before == Before(order, levels)
         IN  /\ DOMAIN taken = Q /\ \A i \in Q : usable[i] \in Nat
             /\ \A i \in Q : /\ taken[i] \in Nat /\ taken[i] <= usable[i]
                            /\ LET left == order.qty - SumFunctionOnSet(usable, before[i])
                               IN  taken[i] = IF left <= 0 THEN 0
                                              ELSE IF usable[i] <= left THEN usable[i] ELSE left
             /\ SumFunctionOnSet(taken, Q) = IF SumFunctionOnSet(usable, Q) <= order.qty
                                             THEN SumFunctionOnSet(usable, Q) ELSE order.qty
<1> DEFINE Q == Qualifying(order, levels)
           taken == Taken(order, levels)
           usable == Usable(order, levels)
           before == Before(order, levels)
<1>1. IsFiniteSet(Q) /\ Strict(before, Q) BY BetterIsStrict
<1>2. \A i \in Q : usable[i] \in Nat BY LevelFacts DEF Qualifying, Usable
<1>3. order.qty \in Nat BY DEF Replayable
<1>4. DOMAIN taken = Q BY DEF Taken, Qualifying
<1>5. ASSUME NEW i \in Q
      PROVE  LET left == order.qty - SumFunctionOnSet(usable, before[i])
             IN  taken[i] = IF left <= 0 THEN 0
                            ELSE IF usable[i] <= left THEN usable[i] ELSE left
  <2> DEFINE better == {j \in Q : Better(order, levels, j, i)}
             left == order.qty - SumFunctionOnSet(usable, better)
  <2>1. taken[i] = IF left <= 0 THEN 0 ELSE Least(usable[i], left)
    BY Zenon DEF Taken, Qualifying, Usable
  <2>2. before[i] = better BY DEF Before
  <2>3. left \in Int
    <3>1. better \subseteq Q OBVIOUS
    <3> HIDE DEF better, Q, usable
    <3>2. IsFiniteSet(better) /\ \A j \in better : usable[j] \in Int BY <1>1, <1>2, <3>1, FS_Subset
    <3>q. QED BY <1>3, <3>2, SumType
  <2>4. usable[i] \in Nat BY <1>2
  <2>5. left = order.qty - SumFunctionOnSet(usable, before[i]) BY <2>2
  <2> HIDE DEF left, usable, taken, Q, before
  <2>6. taken[i] = IF left <= 0 THEN 0 ELSE IF usable[i] <= left THEN usable[i] ELSE left
    BY <2>1, <2>3, <2>4 DEF Least
  <2>q. QED BY <2>5, <2>6
<1> HIDE DEF Q, taken, usable, before
<1>6. /\ \A i \in Q : taken[i] \in Nat /\ taken[i] <= usable[i]
      /\ SumFunctionOnSet(taken, Q) = IF SumFunctionOnSet(usable, Q) <= order.qty
                                      THEN SumFunctionOnSet(usable, Q) ELSE order.qty
  BY <1>1, <1>2, <1>3, <1>5, TakenInOrder
<1>q. QED BY <1>2, <1>4, <1>5, <1>6 DEF Q, taken, usable, before

\* Shares are sold or bought for at least one each, and bought within the limit.
LEMMA FillFacts ==
  ASSUME NEW order, NEW levels, Replayable(order, levels)
  PROVE  LET shot == simulateBookFill(order, levels)
         IN  /\ shot \in [qty : 0 .. order.qty, gross : Nat]
             /\ shot.qty = 0 <=> shot.gross = 0
             /\ order.side = "BUY" => shot.gross <= order.limit * shot.qty
<1> DEFINE Q == Qualifying(order, levels)
           taken == Taken(order, levels)
           worth == [i \in Q |-> taken[i] * levels[i].price]
           shot == simulateBookFill(order, levels)
           quantity == SumFunctionOnSet(taken, Q)
           gross == SumFunctionOnSet(worth, Q)
<1>1. IsFiniteSet(Q) BY BetterIsStrict
<1>2. /\ DOMAIN taken = Q /\ \A i \in Q : taken[i] \in Nat
      /\ quantity <= order.qty
  <2>1. SumFunctionOnSet(Usable(order, levels), Q) \in Nat
    BY <1>1, TakenFacts, SumBounds
  <2>2. order.qty \in Nat BY DEF Replayable
  <2>q. QED BY <2>1, <2>2, TakenFacts
<1>3. shot = [qty |-> quantity, gross |-> gross]
  BY <1>2, Zenon DEF simulateBookFill, Shares, Gross, SumFunction
<1>4. \A i \in Q : levels[i].price \in Nat \ {0} /\ worth[i] = taken[i] * levels[i].price
  BY LevelFacts DEF Qualifying
<1>5. \A i \in Q : order.side = "BUY" => levels[i].price <= order.limit
  BY DEF Qualifying, Crosses
<1> HIDE DEF Q, taken, worth, shot
<1>6. \A i \in Q : /\ worth[i] \in Nat /\ taken[i] <= worth[i]
                   /\ taken[i] = 0 => worth[i] = 0
                   /\ order.side = "BUY" => worth[i] <= order.limit * taken[i]
  <2> TAKE i \in Q
  <2> DEFINE t == taken[i]  p == levels[i].price
  <2>1. t \in Nat /\ p \in Nat \ {0} /\ worth[i] = t * p BY <1>2, <1>4
  <2>2. order.side = "BUY" => p <= order.limit BY <1>5
  <2>3. order.limit \in Nat BY DEF Replayable
  <2> HIDE DEF t, p
  <2>4. t * p \in Nat /\ t <= t * p /\ (t = 0 => t * p = 0) BY <2>1
  <2>5. ASSUME order.side = "BUY" PROVE t * p <= order.limit * t
    <3> DEFINE cap == order.limit
    <3>1. p <= cap /\ cap \in Nat BY <2>2, <2>3, <2>5
    <3> HIDE DEF cap
    <3>2. t * p <= cap * t BY <2>1, <3>1
    <3>q. QED BY <3>2 DEF cap
  <2>q. QED BY <2>1, <2>4, <2>5 DEF t
<1>7. quantity \in Nat /\ gross \in Nat BY <1>1, <1>2, <1>6, SumBounds
<1>8. quantity <= gross
  <2>1. \A i \in Q : taken[i] \in Int /\ worth[i] \in Int /\ taken[i] <= worth[i]
    BY <1>2, <1>6
  <2>q. QED BY <1>1, <2>1, SumAtMost
<1>9. quantity = 0 => gross = 0
  <2> SUFFICES ASSUME quantity = 0 PROVE gross = 0 OBVIOUS
  <2>1. \A i \in Q : taken[i] <= quantity BY <1>1, <1>2, SumBounds
  <2> HIDE DEF quantity
  <2>2. \A i \in Q : worth[i] = 0 BY <1>2, <1>6, <2>1
  <2>q. QED BY <1>1, <2>2, SumZero
<1>10. ASSUME order.side = "BUY" PROVE gross <= order.limit * quantity
  <2> DEFINE cap == order.limit  dear == [i \in Q |-> cap * taken[i]]
  <2>1. cap \in Int BY DEF Replayable
  <2>2. \A i \in Q : dear[i] = cap * taken[i] /\ taken[i] \in Int /\ worth[i] \in Int
    BY <1>2, <1>6
  <2>3. \A i \in Q : worth[i] <= cap * taken[i] BY <1>6, <1>10
  <2> HIDE DEF dear, cap
  <2>4. \A i \in Q : dear[i] \in Int /\ worth[i] <= dear[i] BY <2>1, <2>2, <2>3
  <2>m. Multiple(dear, cap, taken, Q) BY <2>1, <2>2 DEF Multiple
  <2>5. SumFunctionOnSet(dear, Q) = cap * quantity BY <1>1, <2>m, SumTimes
  <2>6. gross <= SumFunctionOnSet(dear, Q) BY <1>1, <2>2, <2>4, SumAtMost
  <2>q. QED BY <2>5, <2>6 DEF cap
<1> HIDE DEF quantity, gross
<1>11. order.qty \in Nat BY DEF Replayable
<1>q. QED BY <1>2, <1>3, <1>7, <1>8, <1>9, <1>10, <1>11 DEF shot

\* A price that divides the book: what is better is used up, what is worse is left.
Divides(order, levels, p) ==
  \A i \in Qualifying(order, levels) :
    LET q == levels[i].price
        taken == Taken(order, levels)[i]
        usable == Usable(order, levels)[i]
    IN  IF order.side = "BUY"
          THEN (q < p => taken = usable) /\ (q > p => taken = 0)
          ELSE (q > p => taken = usable) /\ (q < p => taken = 0)

LEMMA BookIsDivided ==
  ASSUME NEW order, NEW levels, Replayable(order, levels)
  PROVE  \E p \in Int : Divides(order, levels, p)
<1> DEFINE Q == Qualifying(order, levels)
           taken == Taken(order, levels)
           usable == Usable(order, levels)
           before == Before(order, levels)
           Used(i) == SumFunctionOnSet(usable, before[i])
           X == {i \in Q : Used(i) + usable[i] > order.qty}
<1>1. IsFiniteSet(Q) /\ Strict(before, Q) BY BetterIsStrict
<1>2. /\ \A i \in Q : usable[i] \in Nat /\ taken[i] \in Nat /\ taken[i] <= usable[i]
      /\ \A i \in Q : LET left == order.qty - Used(i)
                      IN  taken[i] = IF left <= 0 THEN 0
                                     ELSE IF usable[i] <= left THEN usable[i] ELSE left
      /\ SumFunctionOnSet(taken, Q) = IF SumFunctionOnSet(usable, Q) <= order.qty
                                      THEN SumFunctionOnSet(usable, Q) ELSE order.qty
  BY TakenFacts
<1>3. order.qty \in Nat /\ order.limit \in Nat BY DEF Replayable
<1>4. \A i \in Q : levels[i].price \in Int BY LevelFacts DEF Qualifying
<1>5. \A i, j \in Q : j \in before[i] <=> Better(order, levels, j, i) BY DEF Before
<1>6. \A i \in Q : before[i] \subseteq Q BY DEF Before
<1>7. \A i \in Q : Crosses(order, levels[i].price) BY DEF Qualifying
<1> HIDE DEF Q, taken, usable, before
<1>8. \A i \in Q : Used(i) \in Nat /\ IsFiniteSet(before[i]) BY <1>1, <1>2, <1>6, SumInside, FS_Subset
<1> HIDE DEF Used
<1>9. \A i \in Q \ X : taken[i] = usable[i] BY <1>2, <1>3, <1>8
<1>10. CASE X = {}
  <2>1. \A i \in Q : taken[i] = usable[i] BY <1>9, <1>10
  <2>2. \A i \in Q : IF order.side = "BUY" THEN ~(levels[i].price > order.limit)
                     ELSE ~(levels[i].price < order.limit)
    BY <1>3, <1>4, <1>7 DEF Crosses
  <2>3. Divides(order, levels, order.limit)
    BY <2>1, <2>2 DEF Divides, Q, taken, usable
  <2>q. QED BY <1>3, <2>3
<1>11. CASE X # {}
  <2>1. X \in SUBSET Q OBVIOUS
  <2>2. PICK x \in X : before[x] \cap X = {}
    <3> HIDE DEF X
    <3>q. QED BY <1>1, <1>11, <2>1, Foremost
  <2>3. x \in Q /\ Used(x) + usable[x] > order.qty OBVIOUS
  <2>4. \A j \in Q : Better(order, levels, j, x) => taken[j] = usable[j]
    BY <1>5, <1>9, <2>2, <2>3
  <2>5. ASSUME NEW j \in Q, Better(order, levels, x, j) PROVE taken[j] = 0
    <3>1. x \in before[j] BY <1>5, <2>3, <2>5
    <3>2. before[x] \subseteq before[j] /\ x \notin before[x]
      BY <1>1, <2>3, <3>1 DEF Strict
    <3> DEFINE both == before[x] \cup {x}
    <3>3. both \in SUBSET before[j] BY <3>1, <3>2
    <3>4. SumFunctionOnSet(usable, both) = usable[x] + Used(x)
      <4>1. \A i \in Q : usable[i] \in Int BY <1>2
      <4>2. before[x] \in SUBSET Q /\ x \in Q \ before[x] BY <1>6, <2>3, <3>2
      <4>q. QED BY <1>1, <4>1, <4>2, SumGrows DEF Used
    <3> HIDE DEF both
    <3>5. SumFunctionOnSet(usable, both) <= Used(j)
      <4>1. IsFiniteSet(before[j]) /\ \A i \in before[j] : usable[i] \in Nat BY <1>2, <1>6, <1>8
      <4>q. QED BY <3>3, <4>1, SumInside DEF Used
    <3>6. Used(j) \in Nat /\ Used(x) \in Nat /\ usable[x] \in Nat BY <1>2, <1>8, <2>3
    <3>7. order.qty - Used(j) <= 0 BY <1>3, <2>3, <3>4, <3>5, <3>6
    <3>q. QED BY <1>2, <3>7
  <2> DEFINE p == levels[x].price
  <2>6. p \in Int BY <1>4, <2>3
  <2>7. \A j \in Q : /\ p # levels[j].price =>
                          /\ (IF order.side = "BUY" THEN levels[j].price < p ELSE levels[j].price > p)
                               => Better(order, levels, j, x)
                          /\ (IF order.side = "BUY" THEN levels[j].price > p ELSE levels[j].price < p)
                               => Better(order, levels, x, j)
    BY DEF Better
  <2> HIDE DEF p, X
  <2>8. ASSUME NEW j \in Q
        PROVE  IF order.side = "BUY"
                 THEN (levels[j].price < p => taken[j] = usable[j]) /\ (levels[j].price > p => taken[j] = 0)
                 ELSE (levels[j].price > p => taken[j] = usable[j]) /\ (levels[j].price < p => taken[j] = 0)
    <3>1. levels[j].price \in Int BY <1>4
    <3>q. QED BY <2>4, <2>5, <2>6, <2>7, <3>1
  <2>9. Divides(order, levels, p) BY <2>8, Zenon DEF Divides, Q, taken, usable
  <2>q. QED BY <2>6, <2>9
<1>q. QED BY <1>10, <1>11

\* What is moved to a better price from a worse one does not make it dearer.
LEMMA Exchange ==
  ASSUME NEW t \in Int, NEW a \in Int, NEW q \in Int, NEW p \in Int
  PROVE  /\ (q < p => a <= t) /\ (q > p => t <= a) => t * q + p * a <= a * q + p * t
         /\ (q > p => a <= t) /\ (q < p => t <= a) => t * q + p * a >= a * q + p * t
<1>1. CASE q <= p
  <2> DEFINE c == p - q
  <2>1. c \in Nat /\ p = q + c BY <1>1
  <2> HIDE DEF c
  <2>2. t * q + p * a = (t * q + q * a) + c * a /\ a * q + p * t = (t * q + q * a) + c * t BY <2>1
  <2>3. a <= t => c * a <= c * t BY <2>1
  <2>4. t <= a => c * t <= c * a BY <2>1
  <2>5. c = 0 => c * t = c * a BY <2>1
  <2> DEFINE m == t * q + q * a  x == c * a  y == c * t
  <2>6. m \in Int /\ x \in Int /\ y \in Int BY <2>1
  <2>7. q = p => c = 0 BY <2>1
  <2> HIDE DEF m, x, y
  <2>q. QED BY <1>1, <2>1, <2>2, <2>3, <2>4, <2>5, <2>6, <2>7 DEF m, x, y
<1>2. CASE q > p
  <2> DEFINE c == q - p
  <2>1. c \in Nat /\ q = p + c BY <1>2
  <2> HIDE DEF c
  <2>2. t * q + p * a = (t * p + p * a) + c * t /\ a * q + p * t = (t * p + p * a) + c * a BY <2>1
  <2>3. a <= t => c * a <= c * t BY <2>1
  <2>4. t <= a => c * t <= c * a BY <2>1
  <2> DEFINE m == t * p + p * a  x == c * a  y == c * t
  <2>6. m \in Int /\ x \in Int /\ y \in Int BY <2>1
  <2> HIDE DEF m, x, y
  <2>q. QED BY <1>2, <2>1, <2>2, <2>3, <2>4, <2>6 DEF m, x, y
<1>q. QED BY <1>1, <1>2

Ways(order, levels) == {a \in Divisions(order, levels) : Shares(a) <= order.qty}

\* The gross amount of a division a is the sum of its levels' worth.
LEMMA DivisionFacts ==
  ASSUME NEW order, NEW levels, Replayable(order, levels), NEW a \in Ways(order, levels)
  PROVE  LET Q == Qualifying(order, levels)
             worth == [i \in DOMAIN levels |-> a[i] * levels[i].price]
         IN  /\ \A i \in Q : a[i] \in Nat /\ a[i] <= Usable(order, levels)[i]
             /\ Shares(a) = SumFunctionOnSet(a, Q) /\ Shares(a) <= order.qty
             /\ Gross(a, levels) = SumFunctionOnSet(worth, Q)
<1> DEFINE Q == Qualifying(order, levels)  D == DOMAIN levels
           worth == [i \in D |-> a[i] * levels[i].price]
<1>1. /\ a \in [D -> 0 .. order.qty] /\ Shares(a) <= order.qty
      /\ \A i \in D : a[i] <= Available(levels[i]) /\ (a[i] > 0 => Crosses(order, levels[i].price))
  BY DEF Ways, Divisions
<1>2. order.qty \in Nat BY DEF Replayable
<1>3. \A i \in D : a[i] \in Nat
  <2> HIDE DEF D
  <2>q. QED BY <1>1, <1>2
<1>4. Q \subseteq D /\ \A i \in Q : Usable(order, levels)[i] = Available(levels[i])
  BY DEF Qualifying, Usable
<1>5. \A i \in D \ Q : a[i] = 0
  <2>1. \A i \in D : Crosses(order, levels[i].price) => i \in Q BY DEF Qualifying
  <2> HIDE DEF Q, D
  <2>q. QED BY <1>1, <1>3, <2>1
<1>6. \A i \in D : worth[i] = a[i] * levels[i].price /\ levels[i].price \in Nat BY LevelFacts
<1>7. IsFiniteSet(D) BY LevelFacts
<1>8. DOMAIN a = D BY <1>1
<1>9. Shares(a) = SumFunctionOnSet(a, D) BY <1>8, Zenon DEF Shares, SumFunction
<1>10. Gross(a, levels) = SumFunctionOnSet(worth, D) BY <1>8, Zenon DEF Gross, SumFunction
<1> HIDE DEF Q, D, worth
<1>11. \A i \in D : worth[i] \in Int BY <1>3, <1>6
<1>12. \A i \in D \ Q : worth[i] = 0 BY <1>5, <1>6
<1>13. SumFunctionOnSet(a, D) = SumFunctionOnSet(a, Q)
  BY <1>3, <1>4, <1>5, <1>7, SumOfSupport
<1>14. SumFunctionOnSet(worth, D) = SumFunctionOnSet(worth, Q)
  BY <1>4, <1>7, <1>11, <1>12, SumOfSupport
<1>q. QED BY <1>1, <1>3, <1>4, <1>9, <1>10, <1>13, <1>14 DEF Q, D, worth

\* The fill as a division, with nothing from the levels that do not qualify.
Filling(order, levels) ==
  [i \in DOMAIN levels |-> IF i \in Qualifying(order, levels) THEN Taken(order, levels)[i] ELSE 0]

LEMMA FillingIsAWay ==
  ASSUME NEW order, NEW levels, Replayable(order, levels)
  PROVE  LET a == Filling(order, levels)
             shot == simulateBookFill(order, levels)
         IN  a \in Ways(order, levels) /\ Shares(a) = shot.qty /\ Gross(a, levels) = shot.gross
<1> DEFINE Q == Qualifying(order, levels)  D == DOMAIN levels
           taken == Taken(order, levels)  a == Filling(order, levels)
           worth == [i \in Q |-> taken[i] * levels[i].price]
           all == [i \in D |-> a[i] * levels[i].price]
           shot == simulateBookFill(order, levels)
<1>1. /\ DOMAIN taken = Q
      /\ \A i \in Q : taken[i] \in Nat /\ taken[i] <= Available(levels[i])
  BY TakenFacts DEF Usable
<1>2. \A i \in D : a[i] = IF i \in Q THEN taken[i] ELSE 0 BY DEF Filling
<1>3. DOMAIN a = D /\ a = [i \in D |-> a[i]] BY DEF Filling
<1>4. Q \subseteq D /\ \A i \in Q : Crosses(order, levels[i].price) BY DEF Qualifying
<1>5. IsFiniteSet(D) /\ \A i \in D : levels[i].price \in Nat /\ Available(levels[i]) \in Nat
  BY LevelFacts
<1>6. /\ Shares(a) = SumFunctionOnSet(a, D) /\ Shares(taken) = SumFunctionOnSet(taken, Q)
  BY <1>1, <1>3, Zenon DEF Shares, SumFunction
<1>7. Gross(a, levels) = SumFunctionOnSet(all, D) /\ Gross(taken, levels) = SumFunctionOnSet(worth, Q)
  BY <1>1, <1>3, Zenon DEF Gross, SumFunction
<1>8. shot.qty = Shares(taken) /\ shot.gross = Gross(taken, levels) BY DEF simulateBookFill
<1>9. \A i \in D : all[i] = a[i] * levels[i].price OBVIOUS
<1>10. \A i \in Q : worth[i] = taken[i] * levels[i].price OBVIOUS
<1>a. shot.qty \in 0 .. order.qty /\ order.qty \in Nat BY FillFacts DEF Replayable
<1> HIDE DEF Q, D, taken, a, worth, all, shot
<1>11. IsFiniteSet(Q) BY <1>4, <1>5, FS_Subset
<1>12. \A i \in D : a[i] \in Nat /\ all[i] \in Nat BY <1>1, <1>2, <1>5, <1>9
<1>13. SumFunctionOnSet(a, D) = SumFunctionOnSet(taken, Q)
  <2>1. SumFunctionOnSet(a, D) = SumFunctionOnSet(a, Q)
    BY <1>2, <1>4, <1>5, <1>12, SumOfSupport
  <2>2. SumFunctionOnSet(a, Q) = SumFunctionOnSet(taken, Q) BY <1>2, <1>4, <1>11, SumSame
  <2>q. QED BY <2>1, <2>2
<1>14. SumFunctionOnSet(all, D) = SumFunctionOnSet(worth, Q)
  <2>1. \A i \in D \ Q : all[i] = 0 BY <1>2, <1>5, <1>9
  <2>2. SumFunctionOnSet(all, D) = SumFunctionOnSet(all, Q)
    BY <1>4, <1>5, <1>12, <2>1, SumOfSupport
  <2>3. \A i \in Q : all[i] = worth[i] BY <1>2, <1>4, <1>9, <1>10
  <2>4. SumFunctionOnSet(all, Q) = SumFunctionOnSet(worth, Q) BY <1>11, <2>3, SumSame
  <2>q. QED BY <2>2, <2>4
<1>15. Shares(a) = shot.qty /\ Gross(a, levels) = shot.gross
  BY <1>6, <1>7, <1>8, <1>13, <1>14
<1>16. a \in Ways(order, levels)
  <2>1. \A i \in D : a[i] \in 0 .. order.qty
    <3> TAKE i \in D
    <3>1. a[i] <= SumFunctionOnSet(a, D) BY <1>5, <1>12, SumBounds
    <3>2. a[i] <= shot.qty BY <1>6, <1>15, <3>1
    <3>q. QED BY <1>12, <1>a, <3>2
  <2>2. a \in [D -> 0 .. order.qty] BY <1>3, <2>1
  <2>3. \A i \in D : a[i] <= Available(levels[i]) /\ (a[i] > 0 => Crosses(order, levels[i].price))
    BY <1>1, <1>2, <1>4, <1>5
  <2>4. Shares(a) <= order.qty BY <1>15, <1>a
  <2>q. QED BY <2>2, <2>3, <2>4 DEF Ways, Divisions, D
<1>q. QED BY <1>15, <1>16 DEF a, shot

\* No division of the order over the book fills more, or as much for a better price.
LEMMA ReplayIsOptimal ==
  ASSUME NEW order, NEW levels, Replayable(order, levels)
  PROVE  BestExecution(order, levels, simulateBookFill(order, levels))
<1> DEFINE Q == Qualifying(order, levels)  taken == Taken(order, levels)
           shot == simulateBookFill(order, levels)
           gross == [i \in Q |-> taken[i] * levels[i].price]
           AsGood(a) == IF order.side = "BUY" THEN shot.gross <= Gross(a, levels)
                                              ELSE shot.gross >= Gross(a, levels)
<1>1. \E a \in Ways(order, levels) : Shares(a) = shot.qty /\ Gross(a, levels) = shot.gross
  BY FillingIsAWay, Zenon
<1>2. ASSUME NEW a \in Ways(order, levels)
      PROVE  Shares(a) < shot.qty \/ (Shares(a) = shot.qty /\ AsGood(a))
  <2> DEFINE worth == [i \in DOMAIN levels |-> a[i] * levels[i].price]
             usable == Usable(order, levels)
  <2>1. /\ \A i \in Q : a[i] \in Nat /\ a[i] <= usable[i]
        /\ Shares(a) = SumFunctionOnSet(a, Q) /\ Shares(a) <= order.qty
        /\ Gross(a, levels) = SumFunctionOnSet(worth, Q)
    BY DivisionFacts
  <2>2. /\ DOMAIN taken = Q /\ \A i \in Q : usable[i] \in Nat /\ taken[i] \in Nat
        /\ SumFunctionOnSet(taken, Q) = IF SumFunctionOnSet(usable, Q) <= order.qty
                                        THEN SumFunctionOnSet(usable, Q) ELSE order.qty
    BY TakenFacts
  <2>3. shot.qty = SumFunctionOnSet(taken, Q) /\ shot.gross = SumFunctionOnSet(gross, Q)
    <3>1. shot.qty = Shares(taken) /\ shot.gross = Gross(taken, levels) BY DEF simulateBookFill
    <3>q. QED BY <2>2, <3>1, Zenon DEF Shares, Gross, SumFunction
  <2>4. IsFiniteSet(Q) BY BetterIsStrict
  <2>5. \A i \in Q : /\ levels[i].price \in Nat /\ gross[i] = taken[i] * levels[i].price
                     /\ worth[i] = a[i] * levels[i].price
    BY LevelFacts DEF Qualifying
  <2>6. PICK p \in Int : Divides(order, levels, p) BY BookIsDivided
  <2>7. \A i \in Q :
          IF order.side = "BUY"
            THEN (levels[i].price < p => taken[i] = usable[i]) /\ (levels[i].price > p => taken[i] = 0)
            ELSE (levels[i].price > p => taken[i] = usable[i]) /\ (levels[i].price < p => taken[i] = 0)
    BY <2>6, Zenon DEF Divides
  <2> DEFINE mine == [i \in Q |-> gross[i] + p * a[i]]
             theirs == [i \in Q |-> worth[i] + p * taken[i]]
             pa == [i \in Q |-> p * a[i]]  pt == [i \in Q |-> p * taken[i]]
  <2>8. \A i \in Q : /\ pa[i] = p * a[i] /\ pt[i] = p * taken[i]
                     /\ mine[i] = gross[i] + pa[i] /\ theirs[i] = worth[i] + pt[i]
    OBVIOUS
  <2>a. order.qty \in Nat BY DEF Replayable
  <2> HIDE DEF Q, taken, gross, worth, usable, mine, theirs, pa, pt, shot
  <2>9. \A i \in Q : /\ gross[i] \in Nat /\ worth[i] \in Nat /\ a[i] \in Int /\ taken[i] \in Int
                     /\ pa[i] \in Int /\ pt[i] \in Int /\ mine[i] \in Int /\ theirs[i] \in Int
    <3> TAKE i \in Q
    <3> DEFINE t == taken[i]  x == a[i]  q == levels[i].price
    <3>1. t \in Nat /\ x \in Nat /\ q \in Nat BY <2>1, <2>2, <2>5
    <3>2. /\ gross[i] = t * q /\ worth[i] = x * q /\ pa[i] = p * x /\ pt[i] = p * t
          /\ mine[i] = gross[i] + pa[i] /\ theirs[i] = worth[i] + pt[i]
      BY <2>5, <2>8
    <3> HIDE DEF t, x, q
    <3>3. t * q \in Nat /\ x * q \in Nat /\ p * x \in Int /\ p * t \in Int BY <3>1
    <3>4. gross[i] \in Nat /\ worth[i] \in Nat /\ pa[i] \in Int /\ pt[i] \in Int
      BY <3>2, <3>3, Zenon
    <3>q. QED BY <3>1, <3>2, <3>4 DEF t, x
  <2>10. \A i \in Q : IF order.side = "BUY" THEN mine[i] <= theirs[i] ELSE mine[i] >= theirs[i]
    <3> TAKE i \in Q
    <3> DEFINE t == taken[i]  x == a[i]  q == levels[i].price
    <3>1. t \in Int /\ x \in Int /\ q \in Int BY <2>5, <2>9
    <3>2. mine[i] = t * q + p * x /\ theirs[i] = x * q + p * t BY <2>5, <2>8
    <3>3. IF order.side = "BUY" THEN (q < p => x <= t) /\ (q > p => t <= x)
                                ELSE (q > p => x <= t) /\ (q < p => t <= x)
      BY <2>1, <2>2, <2>7
    <3> HIDE DEF t, x, q
    <3>4. /\ (q < p => x <= t) /\ (q > p => t <= x) => t * q + p * x <= x * q + p * t
          /\ (q > p => x <= t) /\ (q < p => t <= x) => t * q + p * x >= x * q + p * t
      BY <3>1, Exchange
    <3>q. QED BY <3>2, <3>3, <3>4, Zenon
  <2> DEFINE A == SumFunctionOnSet(a, Q)  T == SumFunctionOnSet(taken, Q)
             U == SumFunctionOnSet(usable, Q)
             G == SumFunctionOnSet(gross, Q)  W == SumFunctionOnSet(worth, Q)
             M == SumFunctionOnSet(mine, Q)  H == SumFunctionOnSet(theirs, Q)
  <2>11. A \in Int /\ T \in Int /\ G \in Int /\ W \in Int
    BY <2>4, <2>9, SumType
  <2>12. A <= T
    <3>1. A <= U
      <4>1. \A i \in Q : a[i] \in Int /\ usable[i] \in Int /\ a[i] <= usable[i] BY <2>1, <2>2
      <4>q. QED BY <2>4, <4>1, SumAtMost
    <3>q. QED BY <2>1, <2>2, <3>1
  <2>13. M = G + p * A
    <3>m. Multiple(pa, p, a, Q) BY <2>8, <2>9 DEF Multiple
    <3>1. SumFunctionOnSet(pa, Q) = p * A BY <2>4, <3>m, SumTimes
    <3>2. M = G + SumFunctionOnSet(pa, Q) BY <2>4, <2>8, <2>9, SumPlus
    <3>q. QED BY <3>1, <3>2
  <2>14. H = W + p * T
    <3>m. Multiple(pt, p, taken, Q) BY <2>8, <2>9 DEF Multiple
    <3>1. SumFunctionOnSet(pt, Q) = p * T BY <2>4, <3>m, SumTimes
    <3>2. H = W + SumFunctionOnSet(pt, Q) BY <2>4, <2>8, <2>9, SumPlus
    <3>q. QED BY <3>1, <3>2
  <2>15. IF order.side = "BUY" THEN M <= H ELSE H <= M
    <3>1. CASE order.side = "BUY"
      <4>1. \A i \in Q : mine[i] \in Int /\ theirs[i] \in Int /\ mine[i] <= theirs[i]
        BY <2>9, <2>10, <3>1
      <4>2. M <= H BY <2>4, <4>1, SumAtMost
      <4>q. QED BY <3>1, <4>2
    <3>2. CASE order.side # "BUY"
      <4>1. \A i \in Q : mine[i] \in Int /\ theirs[i] \in Int /\ theirs[i] <= mine[i]
        BY <2>9, <2>10, <3>2
      <4>2. H <= M BY <2>4, <4>1, SumAtMost
      <4>q. QED BY <3>2, <4>2
    <3>q. QED BY <3>1, <3>2
  <2> HIDE DEF A, T, U, G, W, M, H
  <2>16. ASSUME A = T PROVE IF order.side = "BUY" THEN G <= W ELSE W <= G
    <3> DEFINE k == p * A
    <3>1. k \in Int /\ M = G + k /\ H = W + k BY <2>11, <2>13, <2>14, <2>16
    <3> HIDE DEF k
    <3>q. QED BY <2>11, <2>15, <3>1
  <2>17. Shares(a) = A /\ shot.qty = T /\ Gross(a, levels) = W /\ shot.gross = G
    BY <2>1, <2>3 DEF A, T, G, W
  <2>18. ASSUME A = T PROVE AsGood(a) BY <2>11, <2>16, <2>17, <2>18
  <2> HIDE DEF AsGood
  <2>q. QED BY <2>11, <2>12, <2>17, <2>18
<1>q. QED BY <1>1, <1>2 DEF BestExecution, Ways

\* The replays an order may see are fills of it, or nothing.
LEMMA EvidenceFacts ==
  ASSUME NEW o \in Orders, NEW look \in Looks, validateEvidence(Order(o), look)
  PROVE  Replayable(Order(o), Levels(Order(o), look.book))
<1> DEFINE levels == Levels(Order(o), look.book)
<1>1. Order(o).qty = Qty /\ Order(o).limit = Price BY DEF Order
<1>2. Qty \in Nat /\ Price \in Nat BY PaperAssumption
<1>3. levels \in Seq([price : Int, qty : Int])
  BY PaperAssumption DEF validateEvidence, Levels
<1>4. \A i \in DOMAIN levels : levels[i].price > 0 /\ levels[i].qty > 0
  BY Zenon DEF validateEvidence, Range
<1>q. QED BY <1>1, <1>2, <1>3, <1>4 DEF Replayable

LEMMA ReplayFacts ==
  ASSUME NEW o \in Orders, NEW shot \in Replays[o]
  PROVE  /\ shot \in Shots /\ (shot.qty = 0 <=> shot.gross = 0)
         /\ o \notin Sells => shot.gross <= Reserve[o]
<1>0. Qty \in Nat /\ Price \in Nat /\ Reserve[o] = Qty * Price /\ Reserve[o] \in Nat
  BY PaperAssumption, KnownHolds DEF Known
<1>1. CASE shot = NoFill
  <2>1. shot.qty = 0 /\ shot.gross = 0 /\ shot \in Shots BY <1>0, <1>1 DEF NoFill, Shots
  <2>q. QED BY <1>0, <2>1
<1>2. CASE shot # NoFill
  <2>1. PICK look \in Looks : shot = simulatePaperLimitDayOrder(Order(o), look)
    BY <1>2 DEF Replays
  <2> DEFINE order == Order(o)  levels == Levels(order, look.book)
  <2>2. validateEvidence(order, look) /\ shot = simulateBookFill(order, levels)
    BY <1>2, <2>1 DEF simulatePaperLimitDayOrder
  <2>3. Replayable(order, levels) BY <2>2, EvidenceFacts
  <2>4. order.qty = Qty /\ order.limit = Price /\ (o \notin Sells => order.side = "BUY")
    BY DEF Order
  <2> HIDE DEF order, levels
  <2>5. /\ shot \in [qty : 0..Qty, gross : Nat] /\ (shot.qty = 0 <=> shot.gross = 0)
        /\ order.side = "BUY" => shot.gross <= Price * shot.qty
    BY <2>2, <2>3, <2>4, FillFacts
  <2>6. Price * shot.qty <= Qty * Price
    <3> DEFINE n == shot.qty
    <3>1. n \in Nat /\ n <= Qty BY <1>0, <2>5
    <3> HIDE DEF n
    <3>2. Price * n <= Price * Qty /\ Price * Qty = Qty * Price BY <1>0, <3>1
    <3>q. QED BY <1>0, <3>2 DEF n
  <2>7. Price * shot.qty \in Nat /\ shot.gross \in Nat
    <3>1. shot.qty \in Nat BY <1>0, <2>5
    <3>q. QED BY <1>0, <2>5, <3>1
  <2> DEFINE a == Price * shot.qty
  <2>8. a \in Nat /\ a <= Reserve[o] /\ (order.side = "BUY" => shot.gross <= a)
    BY <1>0, <2>5, <2>6, <2>7
  <2> HIDE DEF a
  <2>9. o \notin Sells => shot.gross <= Reserve[o] BY <1>0, <2>4, <2>7, <2>8
  <2>q. QED BY <2>5, <2>9 DEF Shots
<1>q. QED BY <1>1, <1>2

LEMMA NothingIsAReplay == ASSUME NEW o \in Orders PROVE NoFill \in Replays[o]
BY DEF Replays

-----------------------------------------------------------------------------
(* The invariant.                                                          *)

Tasks == [phase : {"IDLE"}] \cup [phase : {"GATED", "CREATING"}, plan : Plans]

\* A request that has created its orders; of the replay ShotInv tells more.
IsWalk(j) ==
  /\ j.phase \in Steps /\ j.queue \in Seq(Orders) /\ j.queue # <<>>
  /\ j = [phase |-> j.phase, queue |-> j.queue, shot |-> j.shot]

TypeInv ==
  /\ BudgetTypeOK
  /\ state \in [Orders -> States \cup {None}]
  /\ fill \in [Orders -> 0..Qty]
  /\ job = [w \in Workers |-> job[w]]
  /\ \A w \in Workers : job[w] \in Tasks \/ IsWalk(job[w])

\* Only a request that creates orders has a transaction open.
CreationInv == \A w \in Workers : tx[w] # Idle => job[w].phase = "CREATING"

\* No row has traded more than it reserved.
RowInv == \A o \in Orders : res[o] # Absent => res[o].filled <= Reserve[o]

LimitInv ==
  \A d \in Days : IF limit[d] = Absent THEN OrdersOf(res, d) = {}
                  ELSE Usage(res, d) <= limit[d]

\* Whoever inserts a limit is alone, and nobody has inserted it before.
InsertInv ==
  \A w \in Workers : tx[w] # Idle /\ tx[w].inserts # Absent =>
    /\ limit[tx[w].inserts] = Absent
    /\ \A v \in Workers \ {w} : tx[v] # Idle => tx[v].inserts # tx[w].inserts

\* What a transaction has seen of the limits is still so.
LimitsSeenInv ==
  \A w \in Workers : tx[w] # Idle =>
    /\ \A d \in Days : tx[w].limits[d] # Absent => limit[d] = tx[w].limits[d]
    /\ tx[w].phase = "LOCKED" =>
         tx[w].inserts = tx[w].day \/ tx[w].limits[tx[w].day] = tx[w].amount

\* The orders it has seen are still there, and have released no less.
RowsSeenInv ==
  \A w \in Workers : tx[w] # Idle => \A o \in Orders : tx[w].seen[o] # Absent =>
    /\ res[o] # Absent /\ res[o].day = tx[w].seen[o].day
    /\ tx[w].seen[o].released <= res[o].released

\* Two requests, or two places of one request, never hold one order.
WalkInv ==
  \A w \in Workers : job[w].phase \in Steps => \A i \in DOMAIN job[w].queue :
    /\ state[job[w].queue[i]] = IF i = 1 THEN Expects[job[w].phase] ELSE "PLANNED"
    /\ \A v \in Workers : job[v].phase \in Steps => \A k \in DOMAIN job[v].queue :
         job[v].queue[k] = job[w].queue[i] => v = w /\ k = i

\* What a request is about to store is a replay of the order it works on.
ShotInv == \A w \in Workers : job[w].phase \in Steps => job[w].shot \in Replays[At(w)]

\* Only the last rows of an order tell of fills.
FillInv == \A o \in Orders : state[o] \notin {"PARTIAL_FILLED", "FILLED"} => fill[o] = 0

Inv ==
  /\ TypeInv /\ CreationInv /\ RowInv /\ ReservationFollowsLedger
  /\ LimitInv /\ InsertInv /\ LimitsSeenInv /\ RowsSeenInv /\ WalkInv
  /\ ShotInv /\ FillInv

-----------------------------------------------------------------------------
(* What the steps do to the budget.                                        *)

\* One row of an order that holds all of its reservation.
Books(o, gross, final) ==
  /\ res[o] # Absent /\ res[o].released = 0
  /\ gross \in res[o].filled..Reserve[o]
  /\ Book(o, gross, final)
  /\ UNCHANGED <<today, setting, limit, tx>>

BooksAny == \E o \in Orders : \E gross \in Nat, final \in BOOLEAN : Books(o, gross, final)

BudgetSame == UNCHANGED <<today, setting, limit, res, tx>>

CreationStep(w) ==
  \/ \E plan \in Plans : OpenCreation(w, plan)
  \/ LockLimit(w) \/ RefuseCreation(w) \/ AbortCreation(w) \/ CommitCreation(w)

BudgetStep ==
  \/ \E w \in Workers : CreationStep(w)
  \/ BooksAny \/ ChangeSetting \/ Midnight \/ BudgetSame

LEMMA TasksAreNoSteps ==
  ASSUME NEW j \in Tasks
  PROVE  /\ j.phase \in {"IDLE", "GATED", "CREATING"} /\ j.phase \notin Steps
         /\ j.phase # "IDLE" => j.plan \in Plans
BY DEF Tasks, Steps

LEMMA WalkFacts ==
  ASSUME TypeInv, NEW w \in Workers, job[w].phase \in Steps
  PROVE  /\ IsWalk(job[w]) /\ 1 \in DOMAIN job[w].queue
         /\ At(w) = job[w].queue[1] /\ At(w) \in Orders
<1>1. IsWalk(job[w]) BY TasksAreNoSteps DEF TypeInv
<1> DEFINE q == job[w].queue
<1>2. q \in Seq(Orders) /\ q # <<>> BY <1>1 DEF IsWalk
<1>3. 1 \in DOMAIN q /\ Head(q) = q[1] /\ q[1] \in Orders
  <2> HIDE DEF q
  <2>q. QED BY <1>2
<1>q. QED BY <1>1, <1>3 DEF At

LEMMA PlanFacts ==
  ASSUME TypeInv, NEW w \in Workers, job[w].phase \in {"GATED", "CREATING"}
  PROVE  job[w] \in Tasks /\ job[w].plan \in Plans
<1>1. job[w].phase \notin Steps BY DEF Steps
<1>2. job[w] \in Tasks BY <1>1 DEF TypeInv, IsWalk
<1>q. QED BY <1>2, TasksAreNoSteps

LEMMA AppendBooks ==
  ASSUME TypeInv, RowInv, ReservationFollowsLedger, NEW o \in Orders, NEW s, NEW shot,
         AppendPaperState(o, s, shot)
  PROVE  /\ Books(o, shot.gross, s \in Terminal) /\ shot.gross \in Nat
         /\ state[o] # None /\ state[o] \notin Terminal
<1>1. MayMove(state[o], s) /\ Fits(o, shot) BY DEF AppendPaperState, MayAppend
<1>2. state[o] # None /\ state[o] \notin Terminal
  BY <1>1 DEF MayMove, None, Terminal
<1>3. res[o] # Absent /\ Reserve[o] - res[o].released = Reserve[o]
  BY <1>2 DEF ReservationFollowsLedger
<1>4. Reserve[o] \in Nat /\ res[o].released \in Nat /\ res[o].filled \in Nat
  BY <1>3, RowTypes, KnownHolds DEF Known, TypeInv, BudgetTypeOK
<1>5. res[o].released = 0 BY <1>3, <1>4
<1>6. shot.gross \in res[o].filled..Reserve[o] BY <1>1 DEF Fits
<1>7. shot.gross \in Nat BY <1>4, <1>6
<1>q. QED BY <1>2, <1>3, <1>5, <1>6, <1>7 DEF Books, AppendPaperState

LEMMA BudgetMoves ==
  ASSUME TypeInv, RowInv, ReservationFollowsLedger, [Next]_vars PROVE BudgetStep
<1>1. CASE UNCHANGED vars BY <1>1 DEF vars, BudgetStep, BudgetSame
<1>2. CASE Operator BY <1>2 DEF Operator, BudgetStep
<1>3. ASSUME NEW w \in Workers, Works(w) PROVE BudgetStep
  <2>0. \A o \in Orders : \A s, shot : AppendPaperState(o, s, shot) => BudgetStep
    <3> SUFFICES ASSUME NEW o \in Orders, NEW s, NEW shot, AppendPaperState(o, s, shot)
                 PROVE BudgetStep
      OBVIOUS
    <3>1. Books(o, shot.gross, s \in Terminal) /\ shot.gross \in Nat BY AppendBooks
    <3>2. (s \in Terminal) \in BOOLEAN OBVIOUS
    <3>q. QED BY <3>1, <3>2, Zenon DEF BudgetStep, BooksAny
  <2>1. CASE Create(w)
    <3>1. job[w].plan \in Plans BY <2>1, PlanFacts DEF Create
    <3>q. QED BY <2>1, <3>1 DEF Create, BudgetStep, CreationStep
  <2>2. CASE LockTheLimit(w) BY <2>2 DEF LockTheLimit, BudgetStep, CreationStep
  <2>3. CASE NotCreated(w) BY <2>3 DEF NotCreated, BudgetStep, CreationStep
  <2>4. CASE Created(w) BY <2>4 DEF Created, BudgetStep, CreationStep
  <2>5. CASE Submit(w)
    <3>1. At(w) \in Orders BY <2>5, WalkFacts DEF Submit, Steps
    <3>q. QED BY <2>0, <2>5, <3>1, Zenon DEF Submit
  <2>6. CASE Replay(w) BY <2>6 DEF Replay, BudgetStep, BudgetSame
  <2>7. CASE Accept(w)
    <3>1. At(w) \in Orders BY <2>7, WalkFacts DEF Accept, Steps
    <3>q. QED BY <2>0, <2>7, <3>1, Zenon DEF Accept
  <2>8. CASE Progress(w)
    <3>1. At(w) \in Orders BY <2>8, WalkFacts DEF Progress, Steps
    <3>2. CASE job[w].shot = NoFill
      BY <2>8, <3>2 DEF Progress, BudgetStep, BudgetSame
    <3>3. CASE job[w].shot # NoFill BY <2>0, <2>8, <3>1, <3>3, Zenon DEF Progress
    <3>q. QED BY <3>2, <3>3
  <2>9. CASE ProgressFails(w) BY <2>9 DEF ProgressFails, BudgetStep, BudgetSame
  <2>q. QED BY <1>3, <2>1, <2>2, <2>3, <2>4, <2>5, <2>6, <2>7, <2>8, <2>9 DEF Works
<1>4. ASSUME NEW w \in Workers, CutOff(w) PROVE BudgetStep
  <2>1. CASE tx[w] = Idle
    <3>1. tx' = tx BY <1>4, <2>1 DEF CutOff, TypeInv, BudgetTypeOK
    <3>q. QED BY <1>4, <3>1 DEF CutOff, BudgetStep, BudgetSame
  <2>2. CASE tx[w] # Idle
    BY <1>4, <2>2 DEF CutOff, BudgetStep, CreationStep, AbortCreation
  <2>q. QED BY <2>1, <2>2
<1>5. ASSUME NEW w \in Workers, NEW plan \in Plans, Gate(w, plan) PROVE BudgetStep
  BY <1>5 DEF Gate, BudgetStep, BudgetSame
<1>q. QED BY <1>1, <1>2, <1>3, <1>4, <1>5 DEF Next

-----------------------------------------------------------------------------
(* The budget's invariants.                                                *)

Budget == BudgetTypeOK /\ RowInv /\ LimitInv /\ InsertInv /\ LimitsSeenInv /\ RowsSeenInv

OpenCreations ==
  [phase : {"OPEN", "LOCKED"}, plan : Plans, amount : Amounts, inserts : Days \cup {Absent},
   day : Days, limits : Limits, seen : Reservations]

LEMMA CreationsAre == Creations = {Idle} \cup OpenCreations
BY DEF Creations, Idle, OpenCreations

LEMMA OpenFacts ==
  ASSUME BudgetTypeOK, NEW w \in Workers, tx[w] # Idle
  PROVE  tx[w] \in OpenCreations /\ tx[w].phase # "IDLE"
<1>1. tx[w] \in OpenCreations BY CreationsAre DEF BudgetTypeOK
<1>q. QED BY <1>1 DEF OpenCreations

LEMMA IdleFacts == ASSUME NEW w, tx[w].phase # "IDLE" PROVE tx[w] # Idle
BY DEF Idle

LEMMA WithInsertedFacts ==
  ASSUME BudgetTypeOK, NEW w \in Workers, tx[w] # Idle
  PROVE  /\ WithInserted(w) \in Limits
         /\ \A d \in Days : WithInserted(w)[d] =
              IF d = tx[w].inserts THEN tx[w].amount ELSE limit[d]
<1>1. tx[w] \in OpenCreations BY OpenFacts
<1>2. limit \in [Days -> Amounts \cup {Absent}] BY DEF BudgetTypeOK, Limits
<1>3. tx[w].amount \in Amounts /\ tx[w].inserts \in Days \cup {Absent}
  BY <1>1 DEF OpenCreations
<1>4. Absent \notin Days BY KnownHolds DEF Known
<1>q. QED BY <1>2, <1>3, <1>4 DEF WithInserted, Limits

LEMMA BudgetTypes ==
  ASSUME BudgetTypeOK, RowInv, BudgetStep PROVE BudgetTypeOK' /\ RowInv'
<1> USE DEF BudgetTypeOK
<1>0. \A w \in Workers : tx' = [tx EXCEPT ![w] = Idle] => tx' \in [Workers -> Creations]
  BY CreationsAre
<1>1. ASSUME NEW w \in Workers, CreationStep(w) PROVE BudgetTypeOK' /\ RowInv'
  <2>1. CASE \E plan \in Plans : OpenCreation(w, plan)
    <3>1. PICK plan \in Plans : OpenCreation(w, plan) BY <2>1
    <3> DEFINE t == [phase |-> "OPEN", plan |-> plan, amount |-> setting,
                     inserts |-> IF limit[today] = Absent THEN today ELSE Absent,
                     day |-> today, limits |-> limit, seen |-> res]
    <3>2. t \in OpenCreations BY DEF OpenCreations
    <3>3. tx' = [tx EXCEPT ![w] = t] BY <3>1 DEF OpenCreation
    <3>4. tx' \in [Workers -> Creations] BY <3>2, <3>3, CreationsAre
    <3>q. QED BY <3>1, <3>4 DEF OpenCreation, RowInv
  <2>2. CASE LockLimit(w)
    <3>1. tx[w] \in OpenCreations BY <2>2, OpenFacts, IdleFacts DEF LockLimit
    <3> DEFINE t == [tx[w] EXCEPT !.phase = "LOCKED", !.day = today]
    <3>2. t \in OpenCreations BY <3>1 DEF OpenCreations
    <3>3. tx' = [tx EXCEPT ![w] = t] BY <2>2 DEF LockLimit
    <3>4. tx' \in [Workers -> Creations] BY <3>2, <3>3, CreationsAre
    <3>q. QED BY <2>2, <3>4 DEF LockLimit, RowInv
  <2>3. CASE RefuseCreation(w)
    BY <1>0, <2>3, IdleFacts, WithInsertedFacts DEF RefuseCreation, RowInv
  <2>4. CASE AbortCreation(w) BY <1>0, <2>4 DEF AbortCreation, RowInv
  <2>5. CASE CommitCreation(w)
    <3>1. tx' \in [Workers -> Creations] /\ limit' \in Limits
      BY <1>0, <2>5, IdleFacts, WithInsertedFacts DEF CommitCreation
    <3> DEFINE new == [day |-> today, filled |-> 0, released |-> 0]
    <3>2. new \in Rows BY DEF Rows
    <3>3. res' = [o \in Orders |-> IF o \in tx[w].plan THEN new ELSE res[o]]
      BY <2>5 DEF CommitCreation
    <3>4. new.filled = 0 OBVIOUS
    <3> HIDE DEF new
    <3>5. res' \in Reservations BY <3>2, <3>3 DEF Reservations
    <3>6. RowInv'
      <4>1. \A o \in Orders : 0 <= Reserve[o] BY KnownHolds DEF Known
      <4>q. QED BY <3>3, <3>4, <4>1 DEF RowInv
    <3>q. QED BY <2>5, <3>1, <3>5, <3>6 DEF CommitCreation
  <2>q. QED BY <1>1, <2>1, <2>2, <2>3, <2>4, <2>5 DEF CreationStep
<1>2. CASE BooksAny
  <2>1. PICK o \in Orders, gross \in Nat, final \in BOOLEAN : Books(o, gross, final)
    BY <1>2 DEF BooksAny
  <2> DEFINE left == IF final THEN Reserve[o] - gross ELSE res[o].released
             row == [res[o] EXCEPT !.filled = gross, !.released = left]
  <2>2. res' = [res EXCEPT ![o] = row] BY <2>1 DEF Books, Book
  <2>3. res[o] \in Rows BY <2>1 DEF Books, Reservations
  <2>4. gross <= Reserve[o] /\ left \in Nat
    <3>1. Reserve[o] \in Nat /\ gross \in res[o].filled..Reserve[o]
      BY <2>1, KnownHolds DEF Known, Books
    <3>q. QED BY <2>3, <3>1 DEF Rows
  <2> HIDE DEF left
  <2>5. row \in Rows /\ row.filled = gross BY <2>3, <2>4 DEF Rows
  <2> HIDE DEF row
  <2>6. res' \in Reservations BY <2>2, <2>5 DEF Reservations
  <2>7. RowInv' BY <2>2, <2>4, <2>5 DEF RowInv, Reservations
  <2>q. QED BY <2>1, <2>6, <2>7 DEF Books
<1>3. CASE ChangeSetting BY <1>3 DEF ChangeSetting, RowInv
<1>4. CASE Midnight
  <2>1. today + 1 \in Days BY <1>4, BudgetAssumption DEF Midnight, Days
  <2>q. QED BY <1>4, <2>1 DEF Midnight, RowInv
<1>5. CASE BudgetSame BY <1>5 DEF BudgetSame, RowInv
<1>q. QED BY <1>1, <1>2, <1>3, <1>4, <1>5 DEF BudgetStep

LEMMA LimitsStay ==
  ASSUME BudgetTypeOK, InsertInv, BudgetStep, NEW d \in Days, limit[d] # Absent
  PROVE  limit'[d] = limit[d]
<1>1. ASSUME NEW w \in Workers, tx[w] # Idle, limit' = WithInserted(w)
      PROVE  limit'[d] = limit[d]
  <2>1. tx[w].inserts # d
    <3> SUFFICES ASSUME tx[w].inserts = d PROVE FALSE OBVIOUS
    <3>1. d # Absent BY KnownHolds DEF Known
    <3>q. QED BY <1>1, <3>1 DEF InsertInv
  <2>q. QED BY <1>1, <2>1, WithInsertedFacts
<1>q. QED
  BY <1>1, IdleFacts
  DEF BudgetStep, CreationStep, BudgetSame, BooksAny, Books, ChangeSetting, Midnight,
      OpenCreation, LockLimit, RefuseCreation, AbortCreation, CommitCreation

\* A row stays what it is, is new, or is the one that is booked.
LEMMA RowsStay ==
  ASSUME BudgetTypeOK, RowInv, BudgetStep, NEW o \in Orders, res[o] # Absent
  PROVE  /\ res'[o] # Absent /\ res'[o].day = res[o].day
         /\ res[o].released <= res'[o].released
<1>1. res[o] \in Rows BY DEF BudgetTypeOK, Reservations
<1>2. CASE res'[o] = res[o] BY <1>1, <1>2 DEF Rows
<1>3. ASSUME NEW w \in Workers, CommitCreation(w) PROVE res'[o] = res[o]
  BY <1>3 DEF CommitCreation, Unused
<1>4. CASE BooksAny
  <2>1. PICK p \in Orders, gross \in Nat, final \in BOOLEAN : Books(p, gross, final)
    BY <1>4 DEF BooksAny
  <2> DEFINE left == IF final THEN Reserve[p] - gross ELSE res[p].released
             row == [res[p] EXCEPT !.filled = gross, !.released = left]
  <2>2. res' = [res EXCEPT ![p] = row] BY <2>1 DEF Books, Book
  <2>3. CASE o # p
    <3>1. res'[o] = res[o] BY <2>2, <2>3 DEF BudgetTypeOK, Reservations
    <3>q. QED BY <1>2, <3>1
  <2>4. CASE o = p
    <3>1. Reserve[o] \in Nat /\ gross \in res[o].filled..Reserve[o] /\ res[o].released = 0
      BY <2>1, <2>4, KnownHolds DEF Known, Books
    <3>2. left \in Nat BY <1>1, <2>4, <3>1 DEF Rows
    <3>3. res'[o] = row BY <2>2, <2>4 DEF BudgetTypeOK, Reservations
    <3> HIDE DEF left
    <3>4. row \in Rows /\ row.day = res[o].day /\ row.released = left
      BY <1>1, <2>4, <3>2 DEF Rows
    <3>5. row # Absent BY <3>4, KnownHolds DEF Known
    <3>q. QED BY <3>1, <3>2, <3>3, <3>4, <3>5
  <2>q. QED BY <2>3, <2>4
<1>q. QED
  BY <1>2, <1>3, <1>4
  DEF BudgetStep, CreationStep, BudgetSame, ChangeSetting, Midnight,
      OpenCreation, LockLimit, RefuseCreation, AbortCreation

Opened(w) ==
  /\ limit' = limit /\ res' = res /\ tx[w] = Idle
  /\ \A v \in Workers : ~Inserting(v, today)
  /\ tx'[w].phase = "OPEN"
  /\ tx'[w].inserts = IF limit[today] = Absent THEN today ELSE Absent
  /\ tx'[w].limits = limit /\ tx'[w].seen = res
  /\ \A v \in Workers \ {w} : tx'[v] = tx[v]

Locked(w) ==
  /\ limit' = limit /\ res' = res /\ tx[w] # Idle
  /\ tx[w].phase = "OPEN" /\ tx'[w].phase = "LOCKED" /\ tx'[w].day = today
  /\ LimitSeen(w) = tx[w].amount
  /\ tx'[w].amount = tx[w].amount /\ tx'[w].inserts = tx[w].inserts
  /\ tx'[w].limits = tx[w].limits /\ tx'[w].seen = tx[w].seen
  /\ \A v \in Workers \ {w} : tx'[v] = tx[v]

\* A transaction stays what it is, is opened, takes its lock, or ends.
LEMMA TransactionsStep ==
  ASSUME BudgetTypeOK, BudgetStep
  PROVE  \/ \E w \in Workers : Opened(w) \/ Locked(w)
         \/ /\ \A w \in Workers : tx'[w] # Idle => tx'[w] = tx[w]
            /\ \/ limit' = limit
               \/ \E w \in Workers : /\ tx[w] # Idle /\ tx'[w] = Idle
                                     /\ limit' = WithInserted(w)
<1> USE DEF BudgetTypeOK
<1>1. ASSUME NEW w \in Workers, NEW plan \in Plans, OpenCreation(w, plan) PROVE Opened(w)
  BY <1>1 DEF OpenCreation, Opened
<1>2. ASSUME NEW w \in Workers, LockLimit(w) PROVE Locked(w)
  <2>1. tx[w] \in OpenCreations /\ tx[w] # Idle
    BY <1>2, OpenFacts, IdleFacts DEF LockLimit
  <2>2. tx'[w] = [tx[w] EXCEPT !.phase = "LOCKED", !.day = today]
        /\ \A v \in Workers \ {w} : tx'[v] = tx[v]
    BY <1>2 DEF LockLimit
  <2>3. /\ tx'[w].phase = "LOCKED" /\ tx'[w].day = today
        /\ tx'[w].amount = tx[w].amount /\ tx'[w].inserts = tx[w].inserts
        /\ tx'[w].limits = tx[w].limits /\ tx'[w].seen = tx[w].seen
    BY <2>1, <2>2 DEF OpenCreations
  <2>q. QED BY <1>2, <2>1, <2>2, <2>3 DEF LockLimit, Locked
<1>q. QED
  BY <1>1, <1>2, IdleFacts
  DEF BudgetStep, CreationStep, BudgetSame, BooksAny, Books, ChangeSetting, Midnight,
      RefuseCreation, AbortCreation, CommitCreation

LEMMA InsertsPreserved ==
  ASSUME BudgetTypeOK, BudgetTypeOK', InsertInv, BudgetStep PROVE InsertInv'
<1>1. \A w \in Workers : tx[w] # Idle => tx[w].inserts \in Days \cup {Absent}
  BY OpenFacts DEF OpenCreations
<1>2. ASSUME NEW w \in Workers, Opened(w) PROVE InsertInv'
  <2>1. \A v \in Workers \ {w} : tx[v] # Idle => tx[v].inserts # today
    BY <1>2, OpenFacts DEF Opened, Inserting
  <2>q. QED BY <1>2, <2>1 DEF Opened, InsertInv
<1>3. ASSUME NEW w \in Workers, Locked(w) PROVE InsertInv'
  BY <1>3 DEF Locked, InsertInv
<1>4. ASSUME \A w \in Workers : tx'[w] # Idle => tx'[w] = tx[w],
             \/ limit' = limit
             \/ \E w \in Workers : tx[w] # Idle /\ tx'[w] = Idle /\ limit' = WithInserted(w)
      PROVE  InsertInv'
  <2> SUFFICES ASSUME NEW v \in Workers, tx'[v] # Idle, tx'[v].inserts # Absent
               PROVE  /\ limit'[tx'[v].inserts] = Absent
                      /\ \A u \in Workers \ {v} : tx'[u] # Idle => tx'[u].inserts # tx'[v].inserts
    BY DEF InsertInv
  <2>1. tx'[v] = tx[v] /\ tx[v] # Idle /\ tx[v].inserts \in Days BY <1>1, <1>4
  <2>2. limit[tx[v].inserts] = Absent BY <2>1 DEF InsertInv
  <2>3. \A u \in Workers \ {v} : tx[u] # Idle => tx[u].inserts # tx[v].inserts
    BY <2>1 DEF InsertInv
  <2>4. limit'[tx[v].inserts] = Absent
    <3>1. CASE limit' = limit BY <2>2, <3>1
    <3>2. ASSUME NEW w \in Workers, tx[w] # Idle, tx'[w] = Idle, limit' = WithInserted(w)
          PROVE  limit'[tx[v].inserts] = Absent
      BY <2>1, <2>2, <2>3, <3>2, WithInsertedFacts
    <3>q. QED BY <1>4, <3>1, <3>2
  <2>q. QED BY <1>4, <2>1, <2>3, <2>4
<1>q. QED BY <1>2, <1>3, <1>4, TransactionsStep

LEMMA LimitsSeenPreserved ==
  ASSUME BudgetTypeOK, BudgetTypeOK', InsertInv, LimitsSeenInv, BudgetStep
  PROVE  LimitsSeenInv'
<1>1. ASSUME NEW w \in Workers, Opened(w) PROVE LimitsSeenInv'
  BY <1>1 DEF Opened, LimitsSeenInv
<1>2. ASSUME NEW w \in Workers, Locked(w) PROVE LimitsSeenInv'
  <2>1. tx[w].inserts = today \/ tx[w].limits[today] = tx[w].amount
    BY <1>2 DEF Locked, LimitSeen
  <2>q. QED BY <1>2, <2>1 DEF Locked, LimitsSeenInv
<1>3. ASSUME \A w \in Workers : tx'[w] # Idle => tx'[w] = tx[w] PROVE LimitsSeenInv'
  <2>1. \A w \in Workers, d \in Days : tx[w] # Idle => tx[w].limits[d] \in Amounts \cup {Absent}
    BY OpenFacts DEF OpenCreations, Limits
  <2>q. QED BY <1>3, <2>1, LimitsStay DEF LimitsSeenInv
<1>q. QED BY <1>1, <1>2, <1>3, TransactionsStep

LEMMA RowsSeenPreserved ==
  ASSUME BudgetTypeOK, BudgetTypeOK', RowInv, RowsSeenInv, BudgetStep PROVE RowsSeenInv'
<1>0. \A o \in Orders : res[o] # Absent => res[o].released \in Nat
  BY RowTypes DEF BudgetTypeOK
<1>1. ASSUME NEW w \in Workers, Opened(w) PROVE RowsSeenInv'
  BY <1>0, <1>1 DEF Opened, RowsSeenInv
<1>2. ASSUME NEW w \in Workers, Locked(w) PROVE RowsSeenInv'
  BY <1>2 DEF Locked, RowsSeenInv
<1>3. ASSUME \A w \in Workers : tx'[w] # Idle => tx'[w] = tx[w] PROVE RowsSeenInv'
  <2> SUFFICES ASSUME NEW w \in Workers, tx'[w] # Idle, NEW o \in Orders,
                      tx'[w].seen[o] # Absent
               PROVE  /\ res'[o] # Absent /\ res'[o].day = tx'[w].seen[o].day
                      /\ tx'[w].seen[o].released <= res'[o].released
    BY DEF RowsSeenInv
  <2>1. tx'[w] = tx[w] /\ tx[w] # Idle BY <1>3
  <2>2. /\ res[o] # Absent /\ res[o].day = tx[w].seen[o].day
        /\ tx[w].seen[o].released <= res[o].released
    BY <2>1 DEF RowsSeenInv
  <2>3. /\ res'[o] # Absent /\ res'[o].day = res[o].day
        /\ res[o].released <= res'[o].released
    BY <2>2, RowsStay
  <2>4. tx[w].seen \in Reservations BY <2>1, OpenFacts DEF OpenCreations
  <2>5. tx[w].seen[o].released \in Nat BY <2>1, <2>4, RowTypes
  <2>6. res'[o].released \in Nat /\ res[o].released \in Nat
    BY <1>0, <2>2, <2>3, RowTypes DEF BudgetTypeOK
  <2>q. QED BY <2>1, <2>2, <2>3, <2>5, <2>6
<1>q. QED BY <1>1, <1>2, <1>3, TransactionsStep

\* Where orders are created: of today, none of them known, and within the limit.
LEMMA CreatedOrders ==
  ASSUME Budget, BudgetTypeOK', NEW w \in Workers, CommitCreation(w)
  PROVE  /\ OrdersOf(res', today) = OrdersOf(res, today) \cup tx[w].plan
         /\ OrdersOf(res, today) \cap tx[w].plan = {}
         /\ \A d \in Days \ {today} : OrdersOf(res', d) = OrdersOf(res, d)
         /\ \A d : \A o \in OrdersOf(res, d) : res'[o] = res[o]
         /\ tx[w].plan \in SUBSET Orders
         /\ \A o \in tx[w].plan : res'[o].released = 0
<1> DEFINE new == [day |-> today, filled |-> 0, released |-> 0]
<1>1. tx[w].plan \in SUBSET Orders
  BY IdleFacts, OpenFacts, KnownHolds DEF Known, OpenCreations, CommitCreation, Budget
<1>2. new \in Rows BY DEF Rows, Budget, BudgetTypeOK
<1>3. new # Absent BY <1>2, KnownHolds DEF Known
<1>4. res' = [o \in Orders |-> IF o \in tx[w].plan THEN new ELSE res[o]]
  BY DEF CommitCreation
<1>5. \A o \in tx[w].plan : res[o] = Absent BY DEF CommitCreation, Unused
<1>6. new.day = today /\ new.released = 0 OBVIOUS
<1> HIDE DEF new
<1>q. QED BY <1>1, <1>3, <1>4, <1>5, <1>6 DEF OrdersOf

\* The limit a commit has found is the one in force then.
LEMMA CommittedLimit ==
  ASSUME Budget, NEW w \in Workers, CommitCreation(w)
  PROVE  limit'[today] = tx[w].amount
<1>1. tx[w] # Idle BY IdleFacts DEF CommitCreation
<1>2. tx[w].amount \in Amounts /\ tx[w].inserts \in Days \cup {Absent}
      /\ tx[w].limits \in Limits
  BY <1>1, OpenFacts DEF Budget, OpenCreations
<1>3. tx[w].inserts = today \/ tx[w].limits[today] = tx[w].amount
  BY <1>1 DEF CommitCreation, Budget, LimitsSeenInv
<1>4. limit'[today] = IF today = tx[w].inserts THEN tx[w].amount ELSE limit[today]
  BY <1>1, WithInsertedFacts DEF CommitCreation, Budget, BudgetTypeOK
<1>5. tx[w].limits[today] = tx[w].amount => limit[today] = tx[w].amount
  BY <1>1, <1>2, KnownHolds DEF Known, Budget, BudgetTypeOK, LimitsSeenInv
<1>q. QED BY <1>3, <1>4, <1>5

\* What is created fits beside all that is used by then.
LEMMA CommittedFits ==
  ASSUME Budget, BudgetTypeOK', NEW w \in Workers, CommitCreation(w)
  PROVE  Usage(res, today) + SumFunctionOnSet(Reserve, tx[w].plan) <= limit'[today]
<1> DEFINE seen == tx[w].seen
           more == SumFunctionOnSet(Reserve, tx[w].plan)
<1>1. tx[w] # Idle /\ tx[w].day = today BY IdleFacts DEF CommitCreation
<1>2. seen \in Reservations /\ res \in Reservations /\ tx[w].amount \in Amounts
  BY <1>1, OpenFacts DEF Budget, BudgetTypeOK, OpenCreations
<1>3. OrdersOf(res, today) = OrdersOf(seen, today)
  BY <1>1 DEF CommitCreation, Serializable
<1>4. \A o \in OrdersOf(seen, today) : seen[o].released <= res[o].released
  BY <1>1 DEF OrdersOf, Budget, RowsSeenInv
<1>5. Usage(seen, today) + more <= tx[w].amount BY <1>1 DEF CommitCreation, FitsLimit
<1> HIDE DEF seen
<1>6. Usage(res, today) <= Usage(seen, today) BY <1>2, <1>3, <1>4, UsageShrinks
<1>7. Usage(res, today) \in Int /\ Usage(seen, today) \in Int BY <1>2, UsageType
<1>8. more \in Int
  <2>1. tx[w].plan \in SUBSET Orders BY CreatedOrders
  <2>2. IsFiniteSet(tx[w].plan) /\ \A o \in tx[w].plan : Reserve[o] \in Int
    BY <2>1, KnownHolds, FS_Subset DEF Known
  <2>q. QED BY <2>2, SumType, Zenon
<1>9. \A a \in Amounts : a \in Int BY KnownHolds DEF Known
<1>10. limit'[today] = tx[w].amount BY CommittedLimit
<1> SUFFICES Usage(res, today) + more <= limit'[today] OBVIOUS
<1> HIDE DEF more
<1>11. tx[w].amount \in Int BY <1>2, <1>9
<1>q. QED BY <1>5, <1>6, <1>7, <1>8, <1>10, <1>11

LEMMA CommittedUsage ==
  ASSUME Budget, BudgetTypeOK', NEW w \in Workers, CommitCreation(w)
  PROVE  Usage(res', today) <= limit'[today]
<1>1. /\ OrdersOf(res', today) = OrdersOf(res, today) \cup tx[w].plan
      /\ OrdersOf(res, today) \cap tx[w].plan = {}
      /\ \A o \in OrdersOf(res, today) : res'[o] = res[o]
      /\ tx[w].plan \in SUBSET Orders /\ \A o \in tx[w].plan : res'[o].released = 0
  BY CreatedOrders
<1>2. res \in Reservations /\ res' \in Reservations BY DEF Budget, BudgetTypeOK
<1>3. Usage(res', today) = Usage(res, today) + SumFunctionOnSet(Reserve, tx[w].plan)
  BY <1>1, <1>2, UsageGrows
<1>q. QED BY <1>3, CommittedFits

LEMMA UnchangedUsage ==
  ASSUME Budget, BudgetTypeOK', BudgetStep, NEW d \in Days,
         OrdersOf(res', d) = OrdersOf(res, d), \A o \in OrdersOf(res, d) : res'[o] # Absent
  PROVE  Usage(res', d) <= Usage(res, d)
<1>1. \A o \in OrdersOf(res, d) : res[o].released <= res'[o].released
  BY RowsStay DEF OrdersOf, Budget
<1>q. QED BY <1>1, UsageShrinks DEF Budget, BudgetTypeOK

LEMMA LimitPreserved ==
  ASSUME Budget, BudgetTypeOK', BudgetStep PROVE LimitInv'
<1> SUFFICES ASSUME NEW d \in Days
             PROVE  IF limit'[d] = Absent THEN OrdersOf(res', d) = {}
                    ELSE Usage(res', d) <= limit'[d]
  BY DEF LimitInv
<1>0. \A a \in Amounts : a # Absent /\ 0 <= a /\ a \in Int BY KnownHolds DEF Known
<1>1. ASSUME NEW w \in Workers, CommitCreation(w), d = today
      PROVE  limit'[d] # Absent /\ Usage(res', d) <= limit'[d]
  <2>1. tx[w].amount \in Amounts
    BY <1>1, IdleFacts, OpenFacts DEF CommitCreation, OpenCreations, Budget
  <2>q. QED BY <1>0, <1>1, <2>1, CommittedLimit, CommittedUsage
\* Any other day, and any other step.
<1>2. ASSUME OrdersOf(res', d) = OrdersOf(res, d)
      PROVE  IF limit'[d] = Absent THEN OrdersOf(res', d) = {}
             ELSE Usage(res', d) <= limit'[d]
  <2>1. CASE limit[d] # Absent
    <3>1. limit'[d] = limit[d] BY <2>1, LimitsStay DEF Budget
    <3>2. Usage(res, d) <= limit[d] BY <2>1 DEF Budget, LimitInv
    <3>3. Usage(res', d) <= Usage(res, d)
      BY <1>2, UnchangedUsage, RowsStay DEF Budget, OrdersOf
    <3>4. limit[d] \in Int BY <1>0, <2>1 DEF Budget, BudgetTypeOK, Limits
    <3>5. Usage(res, d) \in Int /\ Usage(res', d) \in Int
      BY UsageType DEF Budget, BudgetTypeOK
    <3>q. QED BY <2>1, <3>1, <3>2, <3>3, <3>4, <3>5
  <2>2. CASE limit[d] = Absent
    <3>1. OrdersOf(res, d) = {} BY <2>2 DEF Budget, LimitInv
    <3>2. Usage(res', d) = 0 BY <1>2, <3>1, NothingUsed
    <3>3. limit'[d] \in Amounts \cup {Absent} BY DEF BudgetTypeOK, Limits
    <3>q. QED BY <1>0, <1>2, <3>1, <3>2, <3>3
  <2>q. QED BY <2>1, <2>2
<1>3. ASSUME NEW w \in Workers, CommitCreation(w), d # today
      PROVE  OrdersOf(res', d) = OrdersOf(res, d)
  BY <1>3, CreatedOrders
<1>4. ASSUME BooksAny PROVE OrdersOf(res', d) = OrdersOf(res, d)
  <2>1. PICK o \in Orders, gross \in Nat, final \in BOOLEAN : Books(o, gross, final)
    BY <1>4 DEF BooksAny
  <2>2. \A p \in Orders \ {o} : res'[p] = res[p]
    BY <2>1 DEF Books, Book, Budget, BudgetTypeOK, Reservations
  <2>3. res[o] # Absent BY <2>1 DEF Books
  <2>4. \A p \in Orders : res[p] # Absent => res'[p] # Absent /\ res'[p].day = res[p].day
    BY RowsStay DEF Budget
  <2>5. \A p \in Orders : res'[p] # Absent => res[p] # Absent BY <2>2, <2>3
  <2>q. QED BY <2>4, <2>5 DEF OrdersOf
<1>q. QED
  BY <1>1, <1>2, <1>3, <1>4
  DEF BudgetStep, CreationStep, BudgetSame, ChangeSetting, Midnight,
      OpenCreation, LockLimit, RefuseCreation, AbortCreation, OrdersOf

-----------------------------------------------------------------------------
(* What the steps do to the requests.                                      *)

Kept == UNCHANGED <<res, state, fill>>

Others(w) == job' = [v \in Workers |-> IF v = w THEN job'[w] ELSE job[v]]

\* The request waits for its next step with the same order,
Remains(w) ==
  /\ IsWalk(job'[w]) /\ job'[w].queue = job[w].queue
  /\ state'[At(w)] = Expects[job'[w].phase]
  /\ job'[w].shot \in {job[w].shot} \cup Replays[At(w)]

\* begins with the next one,
Advances(w) ==
  /\ IsWalk(job'[w]) /\ job'[w].phase = "SUBMIT"
  /\ job'[w].queue = Tail(job[w].queue) /\ job'[w].shot = NoFill

\* or is no longer at its orders.
Leaves(w) == job'[w] \in Tasks

PaperStates == {"SUBMITTING", "PENDING", "PARTIAL_FILLED", "FILLED"}

\* A row of a paper order: the first two say nothing of fills.
PaperRow(o, s, shot) ==
  /\ AppendPaperState(o, s, shot)
  /\ s \in {"SUBMITTING", "PENDING"} => shot = NoFill

WalkStep(w) ==
  /\ job[w].phase \in Steps
  /\ Kept \/ \E s \in PaperStates : \E shot : PaperRow(At(w), s, shot)
  /\ Remains(w) \/ Advances(w) \/ Leaves(w)

JobStep ==
  \/ Kept /\ job' = job
  \/ \E w \in Workers : Others(w) /\ (WalkStep(w) \/ (Kept /\ Leaves(w)) \/ Created(w))

LEMMA TailFacts ==
  ASSUME NEW q \in Seq(Orders), q # <<>>
  PROVE  /\ Tail(q) \in Seq(Orders) /\ (Len(q) # 1 => Tail(q) # <<>>)
         /\ \A i \in DOMAIN Tail(q) : /\ i + 1 \in DOMAIN q /\ Tail(q)[i] = q[i + 1]
                                      /\ i # 0
<1>1. Len(q) \in Nat /\ Len(q) # 0 OBVIOUS
<1>2. Tail(q) \in Seq(Orders) /\ Len(Tail(q)) = Len(q) - 1 OBVIOUS
<1>3. \A i \in 1..Len(q) - 1 : Tail(q)[i] = q[i + 1] OBVIOUS
<1>4. DOMAIN q = 1..Len(q) /\ DOMAIN Tail(q) = 1..Len(q) - 1 BY <1>2
<1>5. Len(q) # 1 => Tail(q) # <<>>
  <2>1. Len(<<>>) = 0 OBVIOUS
  <2> DEFINE t == Tail(q)
  <2>2. Len(t) = Len(q) - 1 BY <1>2
  <2> HIDE DEF t
  <2>3. Len(q) # 1 => t # <<>> BY <1>1, <2>1, <2>2
  <2>q. QED BY <2>3 DEF t
<1>6. \A i \in 1..Len(q) - 1 : i + 1 \in 1..Len(q) /\ i # 0 BY <1>1
<1>q. QED BY <1>2, <1>3, <1>4, <1>5, <1>6, Zenon

LEMMA Replaced ==
  ASSUME TypeInv, NEW w \in Workers, NEW t, job' = [job EXCEPT ![w] = t]
  PROVE  Others(w) /\ job'[w] = t
BY DEF TypeInv, Others

LEMMA Ended ==
  ASSUME TypeInv, NEW w \in Workers, EndRequest(w) PROVE Others(w) /\ Leaves(w)
<1> DEFINE t == [phase |-> "IDLE"]
<1>1. t \in Tasks BY DEF Tasks
<1>2. job' = [job EXCEPT ![w] = t] BY DEF EndRequest
<1> HIDE DEF t
<1>q. QED BY <1>1, <1>2, Replaced DEF Leaves

\* The next step with an order: only the phase and perhaps the shot change.
LEMMA Stepped ==
  ASSUME TypeInv, NEW w \in Workers, job[w].phase \in Steps, NEW p \in Steps, NEW x,
         job' = [job EXCEPT ![w] = [phase |-> p, queue |-> job[w].queue, shot |-> x]]
  PROVE  /\ Others(w) /\ IsWalk(job'[w]) /\ job'[w].queue = job[w].queue
         /\ job'[w].phase = p /\ job'[w].shot = x
<1> DEFINE t == [phase |-> p, queue |-> job[w].queue, shot |-> x]
<1>1. IsWalk(t) /\ t.queue = job[w].queue /\ t.phase = p /\ t.shot = x BY WalkFacts DEF IsWalk
<1> HIDE DEF t
<1>q. QED BY <1>1, Replaced DEF t

LEMMA PhaseReplaced ==
  ASSUME TypeInv, NEW w \in Workers, job[w].phase \in Steps, NEW p
  PROVE  [job EXCEPT ![w].phase = p]
           = [job EXCEPT ![w] = [phase |-> p, queue |-> job[w].queue, shot |-> job[w].shot]]
<1>1. job[w] = [phase |-> job[w].phase, queue |-> job[w].queue, shot |-> job[w].shot]
  BY WalkFacts DEF IsWalk
<1>2. [job[w] EXCEPT !.phase = p]
        = [phase |-> p, queue |-> job[w].queue, shot |-> job[w].shot]
  BY <1>1
<1>q. QED BY <1>2 DEF TypeInv

LEMMA Replayed ==
  ASSUME TypeInv, NEW w \in Workers, Replay(w)
  PROVE  \E x \in Replays[At(w)] :
           job' = [job EXCEPT ![w] = [phase |-> "ACCEPT", queue |-> job[w].queue, shot |-> x]]
<1> DEFINE r == [phase |-> "ACCEPT", queue |-> job[w].queue, shot |-> job[w].shot]
           first == [job EXCEPT ![w].phase = "ACCEPT"]
<1>1. PICK x \in Replays[At(w)] : job' = [job EXCEPT ![w].phase = "ACCEPT", ![w].shot = x]
  BY DEF Replay
<1>2. [r EXCEPT !.shot = x] = [phase |-> "ACCEPT", queue |-> job[w].queue, shot |-> x]
  OBVIOUS
<1>3. job[w].phase \in Steps BY DEF Replay, Steps
<1>4. first = [job EXCEPT ![w] = r] BY <1>3, PhaseReplaced, Zenon
<1> HIDE DEF r, first
<1>5. job' = [first EXCEPT ![w].shot = x] BY <1>1 DEF first
<1>6. [first EXCEPT ![w].shot = x] = [job EXCEPT ![w] = [r EXCEPT !.shot = x]]
  BY <1>4 DEF TypeInv
<1>q. QED BY <1>2, <1>5, <1>6, Zenon

LEMMA WentOn ==
  ASSUME TypeInv, NEW w \in Workers, job[w].phase \in Steps, GoOn(w)
  PROVE  Others(w) /\ (Advances(w) \/ Leaves(w))
<1>1. CASE Len(job[w].queue) = 1 BY <1>1, Ended DEF GoOn
<1>2. CASE Len(job[w].queue) # 1
  <2> DEFINE t == [phase |-> "SUBMIT", queue |-> Tail(job[w].queue), shot |-> NoFill]
  <2>1. job[w].queue \in Seq(Orders) /\ job[w].queue # <<>> BY WalkFacts DEF IsWalk
  <2>2. Tail(job[w].queue) \in Seq(Orders) /\ Tail(job[w].queue) # <<>>
    BY <1>2, <2>1, TailFacts
  <2>3. IsWalk(t) /\ t.phase = "SUBMIT" /\ t.queue = Tail(job[w].queue) /\ t.shot = NoFill
    BY <2>2 DEF IsWalk, Steps
  <2>4. job' = [job EXCEPT ![w] = t] BY <1>2 DEF GoOn
  <2> HIDE DEF t
  <2>q. QED BY <2>3, <2>4, Replaced DEF Advances
<1>q. QED BY <1>1, <1>2

LEMMA AppendedState ==
  ASSUME TypeInv, NEW o \in Orders, NEW s, NEW shot, AppendPaperState(o, s, shot)
  PROVE  state'[o] = s /\ \A p \in Orders \ {o} : state'[p] = state[p]
BY DEF AppendPaperState, TypeInv

LEMMA JobMoves ==
  ASSUME TypeInv, WalkInv, [Next]_vars PROVE JobStep
<1> USE DEF JobStep
<1>0. \A w \in Workers : job[w].phase \in Steps => state[At(w)] = Expects[job[w].phase]
  BY WalkFacts DEF WalkInv
<1>1. CASE UNCHANGED vars BY <1>1 DEF vars, Kept
<1>2. CASE Operator BY <1>2 DEF Operator, ChangeSetting, Midnight, Kept
<1>3. ASSUME NEW w \in Workers, Works(w) PROVE JobStep
  <2>1. CASE Create(w)
    <3> DEFINE t == [phase |-> "CREATING", plan |-> job[w].plan]
    <3>1. job[w] \in Tasks /\ job[w].phase = "GATED" /\ job[w].plan \in Plans
      BY <2>1, PlanFacts DEF Create
    <3>2. t \in Tasks /\ [job[w] EXCEPT !.phase = "CREATING"] = t BY <3>1 DEF Tasks
    <3>3. job' = [job EXCEPT ![w] = t] BY <2>1, <3>2 DEF Create
    <3> HIDE DEF t
    <3>4. Others(w) /\ Leaves(w) BY <3>2, <3>3, Replaced DEF Leaves
    <3>q. QED BY <2>1, <3>4 DEF Create, OpenCreation, Kept
  <2>2. CASE LockTheLimit(w) BY <2>2 DEF LockTheLimit, LockLimit, Kept
  <2>3. CASE NotCreated(w)
    BY <2>3, Ended DEF NotCreated, RefuseCreation, AbortCreation, Kept
  <2>4. CASE Created(w)
    <3>1. Others(w) BY <2>4, Replaced DEF Created
    <3>q. QED BY <2>4, <3>1
  <2>5. CASE Submit(w)
    <3>1. job[w].phase \in Steps BY <2>5 DEF Submit, Steps
    <3>2. At(w) \in Orders BY <3>1, WalkFacts
    <3>3. "REPLAY" \in Steps /\ Expects["REPLAY"] = "SUBMITTING" /\ "SUBMITTING" \in PaperStates
      BY DEF Steps, Expects, PaperStates
    <3>4. Others(w) /\ IsWalk(job'[w]) /\ job'[w].queue = job[w].queue
          /\ job'[w].phase = "REPLAY" /\ job'[w].shot = job[w].shot
      <4> DEFINE x == job[w].shot
      <4>1. job' = [job EXCEPT ![w] = [phase |-> "REPLAY", queue |-> job[w].queue, shot |-> x]]
        BY <2>5, <3>1, PhaseReplaced, Zenon DEF Submit
      <4> HIDE DEF x
      <4>2. Others(w) /\ IsWalk(job'[w]) /\ job'[w].queue = job[w].queue
            /\ job'[w].phase = "REPLAY" /\ job'[w].shot = x
        BY <3>1, <3>3, <4>1, Stepped
      <4>q. QED BY <4>2 DEF x
    <3>5. state'[At(w)] = "SUBMITTING" BY <2>5, <3>2, AppendedState DEF Submit
    <3>q. QED BY <2>5, <3>1, <3>3, <3>4, <3>5 DEF Submit, WalkStep, Remains, PaperRow
  <2>6. CASE Replay(w)
    <3>1. job[w].phase \in Steps BY <2>6 DEF Replay, Steps
    <3>3. "ACCEPT" \in Steps /\ Expects["ACCEPT"] = Expects["REPLAY"] BY DEF Steps, Expects
    <3>4. Others(w) /\ IsWalk(job'[w]) /\ job'[w].queue = job[w].queue
          /\ job'[w].phase = "ACCEPT" /\ job'[w].shot \in Replays[At(w)]
      <4>1. PICK x \in Replays[At(w)] :
              job' = [job EXCEPT ![w] =
                        [phase |-> "ACCEPT", queue |-> job[w].queue, shot |-> x]]
        BY <2>6, Replayed, Zenon
      <4>q. QED BY <3>1, <3>3, <4>1, Stepped
    <3>5. Kept /\ state[At(w)] = Expects["REPLAY"] BY <1>0, <2>6, <3>1 DEF Replay, Kept
    <3>6. job[w].queue = job'[w].queue /\ state'[At(w)] = state[At(w)]
      BY <3>4, <3>5 DEF Kept
    <3>q. QED BY <3>1, <3>3, <3>4, <3>5, <3>6 DEF WalkStep, Remains
  <2>7. CASE Accept(w)
    <3>1. job[w].phase \in Steps BY <2>7 DEF Accept, Steps
    <3>2. At(w) \in Orders BY <3>1, WalkFacts
    <3>3. "PROGRESS" \in Steps /\ Expects["PROGRESS"] = "PENDING" /\ "PENDING" \in PaperStates
      BY DEF Steps, Expects, PaperStates
    <3>4. Others(w) /\ IsWalk(job'[w]) /\ job'[w].queue = job[w].queue
          /\ job'[w].phase = "PROGRESS" /\ job'[w].shot = job[w].shot
      <4> DEFINE x == job[w].shot
      <4>1. job' = [job EXCEPT ![w] = [phase |-> "PROGRESS", queue |-> job[w].queue, shot |-> x]]
        BY <2>7, <3>1, PhaseReplaced, Zenon DEF Accept
      <4> HIDE DEF x
      <4>2. Others(w) /\ IsWalk(job'[w]) /\ job'[w].queue = job[w].queue
            /\ job'[w].phase = "PROGRESS" /\ job'[w].shot = x
        BY <3>1, <3>3, <4>1, Stepped
      <4>q. QED BY <4>2 DEF x
    <3>5. state'[At(w)] = "PENDING" BY <2>7, <3>2, AppendedState DEF Accept
    <3>q. QED BY <2>7, <3>1, <3>3, <3>4, <3>5 DEF Accept, WalkStep, Remains, PaperRow
  <2>8. CASE Progress(w)
    <3>1. job[w].phase \in Steps BY <2>8 DEF Progress, Steps
    <3>2. Others(w) /\ (Advances(w) \/ Leaves(w)) BY <2>8, <3>1, WentOn DEF Progress
    <3>3. Filled(w) \in PaperStates /\ Filled(w) \notin {"SUBMITTING", "PENDING"}
      BY DEF Filled, PaperStates
    <3>4. Kept \/ AppendPaperState(At(w), Filled(w), job[w].shot)
      BY <2>8 DEF Progress, Kept
    <3>q. QED BY <3>1, <3>2, <3>3, <3>4 DEF WalkStep, PaperRow
  <2>9. CASE ProgressFails(w) BY <2>9, Ended DEF ProgressFails, Kept
  <2>q. QED BY <1>3, <2>1, <2>2, <2>3, <2>4, <2>5, <2>6, <2>7, <2>8, <2>9 DEF Works
<1>4. ASSUME NEW w \in Workers, CutOff(w) PROVE JobStep
  BY <1>4, Ended DEF CutOff, Kept
<1>5. ASSUME NEW w \in Workers, NEW plan \in Plans, Gate(w, plan) PROVE JobStep
  <2> DEFINE t == [phase |-> "GATED", plan |-> plan]
  <2>1. t \in Tasks BY DEF Tasks
  <2>2. job' = [job EXCEPT ![w] = t] BY <1>5 DEF Gate
  <2> HIDE DEF t
  <2>3. Others(w) /\ Leaves(w) BY <2>1, <2>2, Replaced DEF Leaves
  <2>q. QED BY <1>5, <2>3 DEF Gate, Kept
<1>q. QED BY <1>1, <1>2, <1>3, <1>4, <1>5 DEF Next

-----------------------------------------------------------------------------
(* The requests' invariants.                                               *)

LEMMA OthersFacts ==
  ASSUME TypeInv, NEW w \in Workers, Others(w)
  PROVE  /\ job' = [v \in Workers |-> job'[v]]
         /\ \A v \in Workers \ {w} : job'[v] = job[v]
BY DEF Others

\* What creating the orders of a plan does.
LEMMA CreatedFacts ==
  ASSUME TypeInv, NEW w \in Workers, Created(w)
  PROVE  /\ tx[w] # Idle /\ tx[w].plan \in SUBSET Orders
         /\ \A o \in Orders : state'[o] = IF o \in tx[w].plan THEN "PLANNED" ELSE state[o]
         /\ \A o \in tx[w].plan : res[o] = Absent
         /\ Others(w) /\ IsWalk(job'[w]) /\ job'[w].phase = "SUBMIT"
         /\ job'[w].shot = NoFill
         /\ \A i \in DOMAIN job'[w].queue : job'[w].queue[i] \in tx[w].plan
         /\ \A i, k \in DOMAIN job'[w].queue :
              job'[w].queue[i] = job'[w].queue[k] => i = k
<1>1. tx[w] # Idle BY IdleFacts DEF Created, CommitCreation
<1>2. tx[w].plan \in Plans BY <1>1, OpenFacts DEF TypeInv, OpenCreations
<1>3. /\ tx[w].plan \in SUBSET Orders /\ tx[w].plan # {} /\ IsFiniteSet(tx[w].plan)
  BY <1>2, KnownHolds, FS_Subset DEF Known
<1>4. PICK queue \in SetToSeqs(tx[w].plan) :
        job' = [job EXCEPT ![w] = [phase |-> "SUBMIT", queue |-> queue, shot |-> NoFill]]
  BY DEF Created
<1> DEFINE n == Cardinality(tx[w].plan)
           t == [phase |-> "SUBMIT", queue |-> queue, shot |-> NoFill]
<1>5. n \in Nat /\ n # 0 BY <1>3, FS_CardinalityType, FS_EmptySet
<1>6. /\ queue \in [1..n -> tx[w].plan]
      /\ \A i, k \in 1..n : i # k => queue[i] # queue[k]
  BY Zenon DEF SetToSeqs
<1> HIDE DEF n
<1>7. queue \in Seq(Orders) /\ queue # <<>> /\ DOMAIN queue = 1..n
  <2>1. queue \in [1..n -> Orders] BY <1>3, <1>6
  <2>2. queue \in Seq(Orders) /\ Len(queue) = n BY <1>5, <2>1
  <2>3. Len(<<>>) = 0 OBVIOUS
  <2>q. QED BY <1>5, <1>6, <2>2, <2>3
<1>8. IsWalk(t) /\ t.phase = "SUBMIT" /\ t.queue = queue /\ t.shot = NoFill
  BY <1>7 DEF IsWalk, Steps
<1> HIDE DEF t
<1>9. Others(w) /\ job'[w] = t BY <1>4, Replaced DEF t
<1>10. /\ \A o \in Orders : state'[o] = IF o \in tx[w].plan THEN "PLANNED" ELSE state[o]
       /\ \A o \in tx[w].plan : res[o] = Absent
  BY DEF Created, CommitCreation, Unused
<1>q. QED BY <1>1, <1>3, <1>6, <1>7, <1>8, <1>9, <1>10

LEMMA TypesPreserved ==
  ASSUME TypeInv, BudgetTypeOK', JobStep PROVE TypeInv'
<1>1. state' \in [Orders -> States \cup {None}] /\ fill' \in [Orders -> 0..Qty]
  <2>1. CASE Kept BY <2>1 DEF Kept, TypeInv
  <2>2. ASSUME NEW w \in Workers, Created(w)
        PROVE  state' \in [Orders -> States \cup {None}] /\ fill' \in [Orders -> 0..Qty]
    BY <2>2 DEF Created, TypeInv, States, Unresolved
  <2>3. ASSUME NEW w \in Workers, job[w].phase \in Steps, NEW s \in PaperStates, NEW shot,
               AppendPaperState(At(w), s, shot)
        PROVE  state' \in [Orders -> States \cup {None}] /\ fill' \in [Orders -> 0..Qty]
    <3>1. At(w) \in Orders BY <2>3, WalkFacts
    <3>2. s \in States BY DEF PaperStates, States, Unresolved, Exposed, Terminal
    <3>3. shot.qty \in 0..Qty
      <4>1. shot.qty \in fill[At(w)]..Qty
        BY <2>3 DEF AppendPaperState, MayAppend, FillsAgree
      <4>2. fill[At(w)] \in 0..Qty /\ Qty \in Nat BY <3>1, KnownHolds DEF Known, TypeInv
      <4>q. QED BY <4>1, <4>2
    <3>q. QED BY <2>3, <3>1, <3>2, <3>3 DEF AppendPaperState, TypeInv
  <2>q. QED BY <2>1, <2>2, <2>3 DEF JobStep, WalkStep, PaperRow
<1>2. job' = [w \in Workers |-> job'[w]]
      /\ \A w \in Workers : job'[w] \in Tasks \/ IsWalk(job'[w])
  <2>1. CASE job' = job BY <2>1 DEF TypeInv
  <2>2. ASSUME NEW w \in Workers, Others(w), WalkStep(w) \/ Leaves(w) \/ Created(w)
        PROVE  job' = [v \in Workers |-> job'[v]]
               /\ \A v \in Workers : job'[v] \in Tasks \/ IsWalk(job'[v])
    <3>1. job'[w] \in Tasks \/ IsWalk(job'[w])
      BY <2>2, CreatedFacts DEF WalkStep, Remains, Advances, Leaves
    <3>2. \A v \in Workers \ {w} : job'[v] \in Tasks \/ IsWalk(job'[v])
      BY <2>2, OthersFacts DEF TypeInv, IsWalk
    <3>q. QED BY <2>2, <3>1, <3>2, OthersFacts
  <2>q. QED BY <2>1, <2>2 DEF JobStep
<1>q. QED BY <1>1, <1>2 DEF TypeInv, IsWalk

LEMMA CreationPreserved ==
  ASSUME TypeInv, CreationInv, [Next]_vars PROVE CreationInv'
<1> USE DEF CreationInv
<1>0. tx \in [Workers -> Creations] BY DEF TypeInv, BudgetTypeOK
<1>1. ASSUME UNCHANGED <<tx, job>> PROVE CreationInv' BY <1>1
\* A request that has no transaction open goes on.
<1>2. ASSUME NEW w \in Workers, tx' = tx, Others(w), job[w].phase # "CREATING"
      PROVE  CreationInv'
  BY <1>2, OthersFacts
<1>3. ASSUME NEW w \in Workers, tx' = [tx EXCEPT ![w] = Idle], Others(w) PROVE CreationInv'
  BY <1>0, <1>3, OthersFacts
<1>4. ASSUME NEW w \in Workers, EndRequest(w) PROVE Others(w) BY <1>4, Ended
<1>5. ASSUME NEW w \in Workers, Works(w) PROVE CreationInv'
  <2>1. CASE Create(w)
    <3>1. job[w] \in Tasks BY <2>1, PlanFacts DEF Create
    <3>2. [job[w] EXCEPT !.phase = "CREATING"].phase = "CREATING"
      BY <2>1, <3>1 DEF Create, Tasks
    <3>3. job' = [job EXCEPT ![w] = [job[w] EXCEPT !.phase = "CREATING"]]
      BY <2>1 DEF Create
    <3>4. job'[w].phase = "CREATING" /\ \A v \in Workers \ {w} : job'[v] = job[v]
      BY <3>2, <3>3, Replaced, OthersFacts
    <3>5. \A v \in Workers \ {w} : tx'[v] = tx[v]
      BY <1>0, <2>1 DEF Create, OpenCreation
    <3>q. QED BY <3>4, <3>5
  <2>2. CASE LockTheLimit(w)
    <3>1. \A v \in Workers : tx'[v] # Idle => tx[v] # Idle
      BY <1>0, <2>2, IdleFacts DEF LockTheLimit, LockLimit
    <3>q. QED BY <2>2, <3>1 DEF LockTheLimit
  <2>3. CASE NotCreated(w)
    BY <1>3, <1>4, <2>3 DEF NotCreated, RefuseCreation, AbortCreation
  <2>4. CASE Created(w)
    BY <1>3, <2>4, CreatedFacts DEF Created, CommitCreation
  <2>6. CASE Submit(w)
    <3>1. Others(w) BY <2>6, Replaced DEF Submit
    <3>q. QED BY <1>2, <2>6, <3>1 DEF Submit, AppendPaperState
  <2>7. CASE Replay(w)
    <3>1. Others(w) BY <2>7, Replayed, Replaced
    <3>q. QED BY <1>2, <2>7, <3>1 DEF Replay
  <2>8. CASE Accept(w)
    <3>1. Others(w) BY <2>8, Replaced DEF Accept
    <3>q. QED BY <1>2, <2>8, <3>1 DEF Accept, AppendPaperState
  <2>9. CASE Progress(w)
    <3>1. Others(w) BY <2>9, WentOn DEF Progress, Steps
    <3>q. QED BY <1>2, <2>9, <3>1 DEF Progress, AppendPaperState
  <2>10. CASE ProgressFails(w) BY <1>2, <1>4, <2>10 DEF ProgressFails
  <2>q. QED BY <1>5, <2>1, <2>2, <2>3, <2>4, <2>6, <2>7, <2>8, <2>9, <2>10 DEF Works
<1>6. ASSUME NEW w \in Workers, CutOff(w) PROVE CreationInv'
  BY <1>3, <1>4, <1>6 DEF CutOff
<1>7. ASSUME NEW w \in Workers, NEW plan \in Plans, Gate(w, plan) PROVE CreationInv'
  BY <1>2, <1>7, Replaced DEF Gate
<1>8. CASE Operator BY <1>1, <1>8 DEF Operator, ChangeSetting, Midnight
<1>9. CASE UNCHANGED vars BY <1>1, <1>9 DEF vars
<1>q. QED BY <1>5, <1>6, <1>7, <1>8, <1>9 DEF Next

\* What one row makes of the reservation.
LEMMA BookedRow ==
  ASSUME TypeInv, NEW o \in Orders, NEW gross, NEW final, res[o] # Absent,
         Book(o, gross, final)
  PROVE  /\ res'[o].filled = gross
         /\ res'[o].released = IF final THEN Reserve[o] - gross ELSE res[o].released
         /\ \A p \in Orders \ {o} : res'[p] = res[p]
<1> DEFINE left == IF final THEN Reserve[o] - gross ELSE res[o].released
           row == [res[o] EXCEPT !.filled = gross, !.released = left]
<1>1. res \in [Orders -> Rows \cup {Absent}] /\ res[o] \in Rows
  BY DEF TypeInv, BudgetTypeOK, Reservations
<1>2. res' = [res EXCEPT ![o] = row] BY DEF Book
<1> HIDE DEF left
<1>3. row.filled = gross /\ row.released = left BY <1>1 DEF Rows
<1> HIDE DEF row
<1>4. res'[o] = row /\ \A p \in Orders \ {o} : res'[p] = res[p] BY <1>1, <1>2
<1>q. QED BY <1>3, <1>4 DEF left

LEMMA AppendKeepsLedger ==
  ASSUME TypeInv, TypeInv', RowInv, ReservationFollowsLedger, NEW o \in Orders,
         NEW s \in PaperStates, NEW shot, PaperRow(o, s, shot)
  PROVE  ReservationFollowsLedger'
<1>0. AppendPaperState(o, s, shot) BY DEF PaperRow
<1> SUFFICES ASSUME NEW p \in Orders
             PROVE  IF state'[p] = None THEN res'[p] = Absent
                    ELSE /\ res'[p] # Absent
                         /\ Reserve[p] - res'[p].released
                              = IF state'[p] \in Terminal THEN res'[p].filled ELSE Reserve[p]
                         /\ (res'[p].filled > 0) <=> (state'[p] \in {"PARTIAL_FILLED", "FILLED"})
  BY DEF ReservationFollowsLedger
<1>1. res[o] # Absent /\ res[o].released = 0 /\ Book(o, shot.gross, s \in Terminal)
      /\ shot.gross \in Nat
  BY <1>0, AppendBooks DEF Books
<1>2. /\ res'[o].filled = shot.gross
      /\ res'[o].released = IF s \in Terminal THEN Reserve[o] - shot.gross ELSE 0
      /\ \A q \in Orders \ {o} : res'[q] = res[q]
  <2>1. /\ res'[o].filled = shot.gross
        /\ res'[o].released = IF s \in Terminal THEN Reserve[o] - shot.gross
                              ELSE res[o].released
        /\ \A q \in Orders \ {o} : res'[q] = res[q]
    BY <1>1, BookedRow, Zenon
  <2>q. QED BY <1>1, <2>1
<1>3. state'[o] = s /\ \A q \in Orders \ {o} : state'[q] = state[q]
  BY <1>0, AppendedState
<1>4. CASE p # o BY <1>2, <1>3, <1>4 DEF ReservationFollowsLedger
<1>5. CASE p = o
  <2>1. s # None /\ s \in {"SUBMITTING", "PENDING", "PARTIAL_FILLED", "FILLED"}
    BY DEF PaperStates, None
  <2>2. Reserve[o] \in Nat BY KnownHolds DEF Known
  <2>3. res'[o] # Absent
    <3>1. Books(o, shot.gross, s \in Terminal) /\ shot.gross \in Nat
      BY <1>0, AppendBooks
    <3>2. (s \in Terminal) \in BOOLEAN OBVIOUS
    <3>3. BudgetStep BY <3>1, <3>2, Zenon DEF BudgetStep, BooksAny
    <3>q. QED BY <1>1, <3>3, RowsStay DEF TypeInv
  <2>4. s \in Terminal <=> s = "FILLED" BY <2>1 DEF Terminal
  <2>5. (shot.gross > 0) <=> s \in {"PARTIAL_FILLED", "FILLED"}
    <3>1. /\ shot.qty = 0 <=> shot.gross = 0
          /\ FillsAgree(s, fill[o], shot.qty, Qty)
      BY <1>0 DEF AppendPaperState, MayAppend, Fits
    <3>2. CASE s \in {"SUBMITTING", "PENDING"}
      <4>1. shot.gross = 0 BY <3>2 DEF PaperRow, NoFill
      <4>q. QED BY <3>2, <4>1
    <3>3. CASE s \in {"PARTIAL_FILLED", "FILLED"}
      <4>1. Qty > 0 /\ Qty \in Nat BY KnownHolds DEF Known
      <4>2. shot.qty # 0 BY <3>1, <3>3, <4>1 DEF FillsAgree
      <4>q. QED BY <1>1, <3>1, <3>3, <4>2
    <3>q. QED BY <2>1, <3>2, <3>3
  <2>q. QED BY <1>1, <1>2, <1>3, <1>5, <2>1, <2>2, <2>3, <2>4, <2>5
<1>q. QED BY <1>4, <1>5

LEMMA LedgerPreserved ==
  ASSUME TypeInv, TypeInv', RowInv, ReservationFollowsLedger, WalkInv, [Next]_vars
  PROVE  ReservationFollowsLedger'
<1>1. JobStep BY JobMoves
<1>2. CASE Kept BY <1>2 DEF Kept, ReservationFollowsLedger
<1>3. ASSUME NEW w \in Workers, Created(w) PROVE ReservationFollowsLedger'
  <2> DEFINE new == [day |-> today, filled |-> 0, released |-> 0]
  <2>1. \A o \in Orders : res'[o] = IF o \in tx[w].plan THEN new ELSE res[o]
    BY <1>3 DEF Created, CommitCreation
  <2>2. \A o \in Orders : state'[o] = IF o \in tx[w].plan THEN "PLANNED" ELSE state[o]
    BY <1>3, CreatedFacts
  <2>3. new \in Rows BY DEF Rows, TypeInv, BudgetTypeOK
  <2>4. new # Absent BY <2>3, KnownHolds DEF Known
  <2>5. new.filled = 0 /\ new.released = 0 OBVIOUS
  <2> HIDE DEF new
  <2>6. \A o \in Orders : Reserve[o] - 0 = Reserve[o] BY KnownHolds DEF Known
  <2>7. "PLANNED" # None /\ "PLANNED" \notin Terminal BY DEF None, Terminal
  <2>8. ASSUME NEW o \in Orders, o \in tx[w].plan
        PROVE  /\ state'[o] # None /\ res'[o] # Absent
               /\ state'[o] \notin Terminal /\ Reserve[o] - res'[o].released = Reserve[o]
               /\ (res'[o].filled > 0) <=> (state'[o] \in {"PARTIAL_FILLED", "FILLED"})
    BY <2>1, <2>2, <2>4, <2>5, <2>6, <2>7, <2>8
  <2>9. ASSUME NEW o \in Orders, o \notin tx[w].plan
        PROVE  state'[o] = state[o] /\ res'[o] = res[o]
    BY <2>1, <2>2, <2>9
  <2>q. QED BY <2>8, <2>9 DEF ReservationFollowsLedger
<1>4. ASSUME NEW w \in Workers, job[w].phase \in Steps, NEW s \in PaperStates, NEW shot,
             PaperRow(At(w), s, shot)
      PROVE  ReservationFollowsLedger'
  BY <1>4, WalkFacts, AppendKeepsLedger
<1>q. QED BY <1>1, <1>2, <1>3, <1>4 DEF JobStep, WalkStep

\* Whoever is not at an order any more is in nobody's way.
LEMMA WalkLeft ==
  ASSUME TypeInv, WalkInv, NEW w \in Workers, Others(w), job'[w].phase \notin Steps,
         \A v \in Workers \ {w} : job[v].phase \in Steps => \A i \in DOMAIN job[v].queue :
           state'[job[v].queue[i]] = state[job[v].queue[i]]
  PROVE  WalkInv'
BY OthersFacts DEF WalkInv

\* A request goes k orders further.
LEMMA WalkedOn ==
  ASSUME TypeInv, WalkInv, NEW w \in Workers, Others(w), job[w].phase \in Steps,
         \A o \in Orders \ {At(w)} : state'[o] = state[o],
         NEW k \in {0, 1},
         \A i \in DOMAIN job'[w].queue :
           i + k \in DOMAIN job[w].queue /\ job'[w].queue[i] = job[w].queue[i + k],
         job'[w].queue \in Seq(Orders),
         k = 0 => state'[At(w)] = Expects[job'[w].phase],
         k = 1 => job'[w].phase = "SUBMIT"
  PROVE  WalkInv'
<1> DEFINE q == job[w].queue
           r == job'[w].queue
<1>1. /\ IsWalk(job[w]) /\ 1 \in DOMAIN q /\ At(w) = q[1] BY WalkFacts
<1>2. \A i \in DOMAIN r : i \in Nat /\ i # 0 OBVIOUS
<1>3. \A v \in Workers \ {w} : job'[v] = job[v] BY OthersFacts
<1>4. \A v \in Workers : job[v].phase \in Steps => \A i \in DOMAIN job[v].queue :
        /\ job[v].queue[i] \in Orders
        /\ state[job[v].queue[i]] = IF i = 1 THEN Expects[job[v].phase] ELSE "PLANNED"
  <2>1. \A v \in Workers : job[v].phase \in Steps => job[v].queue \in Seq(Orders)
    BY WalkFacts DEF IsWalk
  <2>2. \A s \in Seq(Orders) : \A i \in DOMAIN s : s[i] \in Orders OBVIOUS
  <2>3. \A v \in Workers : job[v].phase \in Steps => \A i \in DOMAIN job[v].queue :
          state[job[v].queue[i]] = IF i = 1 THEN Expects[job[v].phase] ELSE "PLANNED"
    BY DEF WalkInv
  <2>q. QED BY <2>1, <2>2, <2>3
\* Of the orders others are at, none is this one.
<1>5. \A v \in Workers \ {w} : job[v].phase \in Steps => \A i \in DOMAIN job[v].queue :
        /\ state'[job[v].queue[i]] = state[job[v].queue[i]]
        /\ \A n \in DOMAIN q : job[v].queue[i] # q[n]
  <2> SUFFICES ASSUME NEW v \in Workers \ {w}, job[v].phase \in Steps,
                      NEW i \in DOMAIN job[v].queue
               PROVE  /\ state'[job[v].queue[i]] = state[job[v].queue[i]]
                      /\ \A n \in DOMAIN q : job[v].queue[i] # q[n]
    OBVIOUS
  <2>1. \A n \in DOMAIN q : job[v].queue[i] # q[n] BY DEF WalkInv
  <2>2. job[v].queue[i] \in Orders \ {At(w)} BY <1>1, <1>4, <2>1
  <2>q. QED BY <2>1, <2>2
<1>6. \A i \in DOMAIN q : \A n \in DOMAIN q : q[i] = q[n] => i = n BY DEF WalkInv
<1> HIDE DEF q, r
<1>7. \A i \in DOMAIN r : i + k \in DOMAIN q /\ r[i] = q[i + k] BY DEF q, r
<1>8. \A i \in DOMAIN r : state'[r[i]] = IF i = 1 THEN Expects[job'[w].phase] ELSE "PLANNED"
  <2> SUFFICES ASSUME NEW i \in DOMAIN r
               PROVE  state'[r[i]] = IF i = 1 THEN Expects[job'[w].phase] ELSE "PLANNED"
    OBVIOUS
  <2>1. i + k \in DOMAIN q /\ r[i] = q[i + k] /\ i \in Nat /\ i # 0 BY <1>2, <1>7
  <2>2. CASE i + k = 1
    <3>1. i = 1 /\ k = 0 BY <2>1, <2>2
    <3>q. QED BY <1>1, <2>1, <3>1
  <2>3. CASE i + k # 1
    <3>1. q[i + k] \in Orders /\ state[q[i + k]] = "PLANNED" BY <1>4, <2>1, <2>3 DEF q
    <3>2. q[i + k] # At(w) BY <1>1, <1>6, <2>1, <2>3
    <3>3. state'[r[i]] = "PLANNED" BY <2>1, <3>1, <3>2
    <3>4. i = 1 => Expects[job'[w].phase] = "PLANNED"
      BY <2>1, <2>3 DEF Expects
    <3>q. QED BY <3>3, <3>4
  <2>q. QED BY <2>2, <2>3
<1>9. \A i, n \in DOMAIN r : r[i] = r[n] => i = n
  <2> SUFFICES ASSUME NEW i \in DOMAIN r, NEW n \in DOMAIN r, r[i] = r[n] PROVE i = n
    OBVIOUS
  <2>1. i + k = n + k BY <1>6, <1>7
  <2>q. QED BY <1>2, <2>1
<1>10. \A v \in Workers \ {w} : job[v].phase \in Steps => \A i \in DOMAIN job[v].queue :
         \A n \in DOMAIN r : job[v].queue[i] # r[n]
  BY <1>5, <1>7
<1>11. \A u, v \in Workers \ {w} : job[u].phase \in Steps /\ job[v].phase \in Steps =>
         \A i \in DOMAIN job[u].queue : \A n \in DOMAIN job[v].queue :
           job[v].queue[n] = job[u].queue[i] => v = u /\ n = i
  BY DEF WalkInv
<1> SUFFICES ASSUME NEW u \in Workers, job'[u].phase \in Steps, NEW i \in DOMAIN job'[u].queue
             PROVE  /\ state'[job'[u].queue[i]] =
                         IF i = 1 THEN Expects[job'[u].phase] ELSE "PLANNED"
                    /\ \A v \in Workers : job'[v].phase \in Steps =>
                         \A n \in DOMAIN job'[v].queue :
                           job'[v].queue[n] = job'[u].queue[i] => v = u /\ n = i
  BY DEF WalkInv
<1>12. CASE u = w BY <1>3, <1>8, <1>9, <1>10, <1>12 DEF r
<1>13. CASE u # w BY <1>3, <1>4, <1>5, <1>10, <1>11, <1>13 DEF r
<1>q. QED BY <1>12, <1>13

LEMMA WalkPreserved ==
  ASSUME TypeInv, TypeInv', ReservationFollowsLedger, WalkInv, JobStep PROVE WalkInv'
<1>1. CASE Kept /\ job' = job BY <1>1 DEF Kept, WalkInv
<1>2. ASSUME NEW w \in Workers, Others(w), Kept, Leaves(w) PROVE WalkInv'
  BY <1>2, WalkLeft, TasksAreNoSteps DEF Kept, Leaves
<1>3. ASSUME NEW w \in Workers, Others(w), WalkStep(w) PROVE WalkInv'
  <2>0. At(w) \in Orders /\ job[w].queue \in Seq(Orders) /\ job[w].queue # <<>>
    BY <1>3, WalkFacts DEF WalkStep, IsWalk
  <2>1. \A o \in Orders \ {At(w)} : state'[o] = state[o]
    BY <1>3, <2>0, AppendedState DEF WalkStep, PaperRow, Kept
  <2>2. CASE Remains(w)
    <3>1. \A i \in DOMAIN job[w].queue : i + 0 = i BY <2>0
    <3>2. job'[w].queue = job[w].queue /\ state'[At(w)] = Expects[job'[w].phase]
      BY <2>2 DEF Remains
    <3>q. QED BY <1>3, <2>0, <2>1, <3>1, <3>2, WalkedOn DEF WalkStep
  <2>3. CASE Advances(w)
    <3>1. job'[w].queue = Tail(job[w].queue) /\ job'[w].phase = "SUBMIT"
      BY <2>3 DEF Advances
    <3>2. /\ job'[w].queue \in Seq(Orders)
          /\ \A i \in DOMAIN job'[w].queue :
               i + 1 \in DOMAIN job[w].queue /\ job'[w].queue[i] = job[w].queue[i + 1]
      BY <2>0, <3>1, TailFacts
    <3>3. 1 = 0 => state'[At(w)] = Expects[job'[w].phase] OBVIOUS
    <3>4. 1 \in {0, 1} /\ job[w].phase \in Steps BY <1>3 DEF WalkStep
    <3>q. QED BY <1>3, <2>1, <3>1, <3>2, <3>3, <3>4, WalkedOn, Zenon
  <2>4. CASE Leaves(w)
    <3>1. job[w].phase \in Steps BY <1>3 DEF WalkStep
    <3>2. \A v \in Workers \ {w} : job[v].phase \in Steps => \A i \in DOMAIN job[v].queue :
            state'[job[v].queue[i]] = state[job[v].queue[i]]
      <4> SUFFICES ASSUME NEW v \in Workers \ {w}, job[v].phase \in Steps,
                          NEW i \in DOMAIN job[v].queue
                   PROVE  state'[job[v].queue[i]] = state[job[v].queue[i]]
        OBVIOUS
      <4>1. job[v].queue \in Seq(Orders) BY WalkFacts DEF IsWalk
      <4>2. job[v].queue[i] \in Orders BY <4>1
      <4>3. At(w) = job[w].queue[1] /\ 1 \in DOMAIN job[w].queue BY <3>1, WalkFacts
      <4>4. job[v].queue[i] # At(w) BY <3>1, <4>3 DEF WalkInv
      <4>q. QED BY <2>1, <4>2, <4>4
    <3>q. QED BY <1>3, <2>4, <3>2, WalkLeft, TasksAreNoSteps DEF Leaves
  <2>q. QED BY <1>3, <2>2, <2>3, <2>4 DEF WalkStep
<1>4. ASSUME NEW w \in Workers, Created(w) PROVE WalkInv'
  <2> DEFINE r == job'[w].queue
             plan == tx[w].plan
  <2>1. /\ plan \in SUBSET Orders
        /\ \A o \in Orders : state'[o] = IF o \in plan THEN "PLANNED" ELSE state[o]
        /\ \A o \in plan : res[o] = Absent
        /\ Others(w) /\ job'[w].phase = "SUBMIT"
        /\ \A i \in DOMAIN r : r[i] \in plan
        /\ \A i, k \in DOMAIN r : r[i] = r[k] => i = k
    BY <1>4, CreatedFacts
  <2>2. \A o \in plan : state[o] = None BY <2>1 DEF ReservationFollowsLedger
  <2> HIDE DEF r, plan
  <2>3. \A v \in Workers \ {w} : job'[v] = job[v] BY <2>1, OthersFacts
  <2>4. \A v \in Workers \ {w} : job[v].phase \in Steps => \A i \in DOMAIN job[v].queue :
          /\ job[v].queue[i] \notin plan
          /\ state'[job[v].queue[i]] = state[job[v].queue[i]]
    <3> SUFFICES ASSUME NEW v \in Workers \ {w}, job[v].phase \in Steps,
                        NEW i \in DOMAIN job[v].queue
                 PROVE  /\ job[v].queue[i] \notin plan
                        /\ state'[job[v].queue[i]] = state[job[v].queue[i]]
      OBVIOUS
    <3>1. job[v].queue \in Seq(Orders) BY WalkFacts DEF IsWalk
    <3>2. job[v].queue[i] \in Orders BY <3>1
    <3>3. state[job[v].queue[i]] = IF i = 1 THEN Expects[job[v].phase] ELSE "PLANNED"
      BY DEF WalkInv
    <3>4. state[job[v].queue[i]] # None BY <3>3 DEF Expects, Steps, None
    <3>q. QED BY <2>1, <2>2, <3>2, <3>4
  <2>5. \A i \in DOMAIN r : state'[r[i]] = IF i = 1 THEN Expects["SUBMIT"] ELSE "PLANNED"
    BY <2>1 DEF Expects
  <2> SUFFICES ASSUME NEW u \in Workers, job'[u].phase \in Steps,
                      NEW i \in DOMAIN job'[u].queue
               PROVE  /\ state'[job'[u].queue[i]] =
                           IF i = 1 THEN Expects[job'[u].phase] ELSE "PLANNED"
                      /\ \A v \in Workers : job'[v].phase \in Steps =>
                           \A n \in DOMAIN job'[v].queue :
                             job'[v].queue[n] = job'[u].queue[i] => v = u /\ n = i
    BY DEF WalkInv
  <2>6. CASE u = w BY <2>1, <2>3, <2>4, <2>5, <2>6 DEF r
  <2>7. CASE u # w BY <2>1, <2>3, <2>4, <2>7 DEF r, WalkInv
  <2>q. QED BY <2>6, <2>7
<1>q. QED BY <1>1, <1>2, <1>3, <1>4 DEF JobStep

LEMMA FillsPreserved ==
  ASSUME TypeInv, ReservationFollowsLedger, FillInv, JobStep PROVE FillInv'
<1>1. CASE Kept BY <1>1 DEF Kept, FillInv
<1>2. ASSUME NEW w \in Workers, Created(w) PROVE FillInv'
  <2>1. /\ \A o \in Orders : state'[o] = IF o \in tx[w].plan THEN "PLANNED" ELSE state[o]
        /\ \A o \in tx[w].plan : o \in Orders /\ res[o] = Absent
    BY <1>2, CreatedFacts
  <2>2. \A o \in tx[w].plan : state[o] = None BY <2>1 DEF ReservationFollowsLedger
  <2>3. fill' = fill BY <1>2 DEF Created
  <2>q. QED BY <2>1, <2>2, <2>3 DEF FillInv, None
<1>3. ASSUME NEW w \in Workers, job[w].phase \in Steps, NEW s \in PaperStates, NEW shot,
             PaperRow(At(w), s, shot)
      PROVE  FillInv'
  <2>1. At(w) \in Orders BY <1>3, WalkFacts
  <2>2. state'[At(w)] = s /\ \A o \in Orders \ {At(w)} : state'[o] = state[o]
    BY <1>3, <2>1, AppendedState DEF PaperRow
  <2>3. fill'[At(w)] = shot.qty /\ \A o \in Orders \ {At(w)} : fill'[o] = fill[o]
    BY <1>3, <2>1 DEF PaperRow, AppendPaperState, TypeInv
  <2>4. s \notin {"PARTIAL_FILLED", "FILLED"} => shot.qty = 0
    BY <1>3 DEF PaperRow, PaperStates, NoFill
  <2>q. QED BY <2>2, <2>3, <2>4 DEF FillInv
<1>q. QED BY <1>1, <1>2, <1>3 DEF JobStep, WalkStep

LEMMA ShotsPreserved ==
  ASSUME TypeInv, TypeInv', ShotInv, JobStep PROVE ShotInv'
<1>1. CASE job' = job BY <1>1 DEF ShotInv, At
<1>2. ASSUME NEW w \in Workers, Others(w),
             job'[w].phase \in Steps => job'[w].shot \in Replays[Head(job'[w].queue)]
      PROVE  ShotInv'
  BY <1>2, OthersFacts DEF ShotInv, At
<1>3. ASSUME NEW w \in Workers, Others(w), Leaves(w) PROVE ShotInv'
  BY <1>2, <1>3, TasksAreNoSteps DEF Leaves
<1>4. ASSUME NEW w \in Workers, Others(w), IsWalk(job'[w]), job'[w].shot = NoFill
      PROVE  ShotInv'
  <2>1. Head(job'[w].queue) \in Orders BY <1>4 DEF IsWalk
  <2>q. QED BY <1>2, <1>4, <2>1, NothingIsAReplay
<1>5. ASSUME NEW w \in Workers, Others(w), job[w].phase \in Steps, Remains(w) PROVE ShotInv'
  BY <1>2, <1>5 DEF Remains, ShotInv, At
<1>q. QED
  BY <1>1, <1>3, <1>4, <1>5, CreatedFacts DEF JobStep, WalkStep, Advances

-----------------------------------------------------------------------------
(* The theorems.                                                           *)

LEMMA Initially == ASSUME Init PROVE Inv
<1> USE DEF Init, BudgetInit
<1>1. TypeInv
  <2>1. 1 \in Days BY BudgetAssumption DEF Days
  <2>2. limit \in Limits BY DEF Limits
  <2>3. tx \in [Workers -> Creations] BY CreationsAre
  <2>4. \A w \in Workers : job[w] \in Tasks BY DEF Tasks
  <2>5. state \in [Orders -> States \cup {None}] /\ fill \in [Orders -> 0..Qty]
    BY KnownHolds DEF Known
  <2>q. QED BY <2>1, <2>2, <2>3, <2>4, <2>5 DEF TypeInv, BudgetTypeOK, Reservations
<1>2. \A w \in Workers : tx[w] = Idle OBVIOUS
<1>3. \A d : OrdersOf(res, d) = {} BY DEF OrdersOf
<1>4. LimitInv
  <2>1. \A d \in Days : Usage(res, d) = 0 BY <1>3, NothingUsed
  <2>2. \A d \in Days : limit[d] # Absent => 0 <= limit[d]
    BY <1>1, KnownHolds DEF Known, TypeInv, BudgetTypeOK, Limits
  <2>q. QED BY <1>3, <2>1, <2>2 DEF LimitInv
<1>5. RowInv /\ ReservationFollowsLedger BY DEF RowInv, ReservationFollowsLedger
<1>6. CreationInv /\ InsertInv /\ LimitsSeenInv /\ RowsSeenInv
  BY <1>2 DEF CreationInv, InsertInv, LimitsSeenInv, RowsSeenInv
<1>7. WalkInv
  <2>1. \A w \in Workers : job[w].phase \notin Steps BY DEF Steps
  <2>q. QED BY <2>1 DEF WalkInv
<1>8. ShotInv /\ FillInv BY DEF ShotInv, FillInv, Steps
<1>q. QED BY <1>1, <1>4, <1>5, <1>6, <1>7, <1>8 DEF Inv

LEMMA Preserved == ASSUME Inv, [Next]_vars PROVE Inv'
<1> USE DEF Inv
<1>1. BudgetStep BY BudgetMoves
<1>2. JobStep BY JobMoves
<1>3. BudgetTypeOK /\ Budget BY DEF TypeInv, Budget
<1>4. BudgetTypeOK' /\ RowInv' BY <1>1, <1>3, BudgetTypes
<1>5. LimitInv' BY <1>1, <1>3, <1>4, LimitPreserved
<1>6. InsertInv' BY <1>1, <1>3, <1>4, InsertsPreserved
<1>7. LimitsSeenInv' BY <1>1, <1>3, <1>4, LimitsSeenPreserved
<1>8. RowsSeenInv' BY <1>1, <1>3, <1>4, RowsSeenPreserved
<1>9. TypeInv' BY <1>2, <1>4, TypesPreserved
<1>10. CreationInv' BY CreationPreserved
<1>11. ReservationFollowsLedger' BY <1>9, LedgerPreserved
<1>12. WalkInv' BY <1>2, <1>9, WalkPreserved
<1>13. ShotInv' BY <1>2, <1>9, ShotsPreserved
<1>14. FillInv' BY <1>2, FillsPreserved
<1>q. QED
  BY <1>4, <1>5, <1>6, <1>7, <1>8, <1>9, <1>10, <1>11, <1>12, <1>13, <1>14

LEMMA Always == Spec => []Inv
<1>q. QED BY Initially, Preserved, PTL DEF Spec

(* The rows, the limits, the open transactions and the requests have their  *)
(* types, whatever requests do, and no row tells of more than the order's   *)
(* shares (daily_trade_limit, daily_trade_reservation, executePaper).       *)
THEOREM PaperTypes == Spec => []TypeOK
<1>1. ASSUME Inv PROVE TypeOK
  <2>1. ASSUME NEW w \in Workers PROVE job[w] \in Job
    <3>1. CASE job[w] \in Tasks BY <3>1 DEF Tasks, Job
    <3>2. CASE IsWalk(job[w])
      <4>1. job[w].phase \in Steps BY <3>2 DEF IsWalk
      <4>2. job[w].shot \in Replays[At(w)] /\ At(w) \in Orders
        BY <1>1, <4>1, WalkFacts DEF Inv, ShotInv
      <4>3. job[w].shot \in Shots BY <4>2, ReplayFacts
      <4>q. QED BY <3>2, <4>3 DEF IsWalk, Job
    <3>q. QED BY <1>1, <3>1, <3>2 DEF Inv, TypeInv
  <2>2. job \in [Workers -> Job] BY <1>1, <2>1 DEF Inv, TypeInv
  <2>q. QED BY <1>1, <2>2 DEF Inv, TypeInv, TypeOK
<1>q. QED BY <1>1, Always, PTL

(* For any number of requests, plans, orders, days and configured amounts:  *)
(* no day's orders keep more reserved than the limit of the day, or trade   *)
(* more than they keep (guard_daily_trade_reservation).                     *)
THEOREM ExecutionsStayWithinTheLimit == Spec => []WithinDailyLimit
<1>1. ASSUME Inv PROVE WithinDailyLimit
  <2> SUFFICES ASSUME NEW d \in Days, limit[d] # Absent
               PROVE  SumFunction([o \in OrdersOf(res, d) |-> res[o].filled]) <= Usage(res, d)
    BY <1>1 DEF Inv, LimitInv, WithinDailyLimit
  <2> DEFINE S == OrdersOf(res, d)
             f == [o \in S |-> res[o].filled]
  <2>1. IsFiniteSet(S) /\ S \subseteq Orders BY OrdersOfFacts
  <2>2. \A o \in S : /\ f[o] \in Int /\ Unreleased(res)[o] \in Int
                     /\ f[o] <= Unreleased(res)[o]
    <3> SUFFICES ASSUME NEW o \in S
                 PROVE  /\ f[o] \in Int /\ Unreleased(res)[o] \in Int
                        /\ f[o] <= Unreleased(res)[o]
      OBVIOUS
    <3>1. o \in Orders /\ res[o] # Absent BY DEF OrdersOf
    <3>2. res[o].filled \in Nat /\ res[o].released \in Nat /\ Reserve[o] \in Nat
      BY <1>1, <3>1, RowTypes, KnownHolds DEF Known, Inv, TypeInv, BudgetTypeOK
    <3>3. /\ res[o].filled <= Reserve[o]
          /\ \/ Reserve[o] - res[o].released = Reserve[o]
             \/ Reserve[o] - res[o].released = res[o].filled
      BY <1>1, <3>1 DEF Inv, RowInv, ReservationFollowsLedger
    <3>4. f[o] = res[o].filled /\ Unreleased(res)[o] = Reserve[o] - res[o].released
      BY <3>1 DEF Unreleased
    <3> HIDE DEF f
    <3>q. QED BY <3>2, <3>3, <3>4
  <2>3. SumFunction(f) = SumFunctionOnSet(f, S) BY Zenon DEF SumFunction
  <2> HIDE DEF f, S
  <2>4. SumFunctionOnSet(f, S) <= SumFunctionOnSet(Unreleased(res), S)
    BY <2>1, <2>2, SumAtMost
  <2>5. Usage(res, d) = SumFunctionOnSet(Unreleased(res), S) BY UsageIsSum DEF S
  <2>6. SumFunction(f) <= Usage(res, d) BY <2>3, <2>4, <2>5
  <2>q. QED BY <2>6, Zenon DEF f, S
<1>q. QED BY <1>1, Always, PTL

(* A reservation and the ledger agree wherever requests are cut off         *)
(* (guard_order_state_history).                                             *)
THEOREM ReservationsAgree == Spec => []ReservationFollowsLedger
<1>1. Inv => ReservationFollowsLedger BY DEF Inv
<1>q. QED BY <1>1, Always, PTL

(* A plan that is executed twice is created once, and a request finds its   *)
(* orders as it left them (executePaper).                                   *)
THEOREM NoTwoRequestsAtOneOrder == Spec => []OrdersBelongToOneRequest
<1>1. ASSUME Inv PROVE OrdersBelongToOneRequest
  <2> SUFFICES ASSUME NEW w \in Workers, job[w].phase \in Steps
               PROVE  /\ state[At(w)] = Expects[job[w].phase]
                      /\ \A o \in Range(Tail(job[w].queue)) : state[o] = "PLANNED"
                      /\ \A v \in Workers \ {w} : job[v].phase \in Steps =>
                           Range(job[v].queue) \cap Range(job[w].queue) = {}
    BY DEF OrdersBelongToOneRequest
  <2>1. /\ job[w].queue \in Seq(Orders) /\ job[w].queue # <<>>
        /\ At(w) = job[w].queue[1] /\ 1 \in DOMAIN job[w].queue
    BY <1>1, WalkFacts DEF Inv, IsWalk
  <2>2. state[At(w)] = Expects[job[w].phase] BY <1>1, <2>1 DEF Inv, WalkInv
  <2>3. ASSUME NEW o \in Range(Tail(job[w].queue)) PROVE state[o] = "PLANNED"
    <3>1. PICK i \in DOMAIN Tail(job[w].queue) : o = Tail(job[w].queue)[i] BY DEF Range
    <3>2. i + 1 \in DOMAIN job[w].queue /\ o = job[w].queue[i + 1] /\ i # 0
      BY <2>1, <3>1, TailFacts
    <3>3. i + 1 # 1
      <4>1. Tail(job[w].queue) \in Seq(Orders) BY <2>1, TailFacts
      <4>2. i \in Nat BY <3>1, <4>1
      <4>q. QED BY <3>2, <4>2
    <3>q. QED BY <1>1, <3>2, <3>3 DEF Inv, WalkInv
  <2>4. ASSUME NEW v \in Workers \ {w}, job[v].phase \in Steps
        PROVE  Range(job[v].queue) \cap Range(job[w].queue) = {}
    BY <1>1, <2>4 DEF Inv, WalkInv, Range
  <2>q. QED BY <2>2, <2>3, <2>4
<1>q. QED BY <1>1, Always, PTL

(* The row of what a buy filled is never refused (executePaper,             *)
(* guard_order_state_history).                                              *)
THEOREM BuysAreAlwaysStored == Spec => []BuysAreStored
<1>1. ASSUME Inv PROVE BuysAreStored
  <2> SUFFICES ASSUME NEW w \in Workers, job[w].phase = "PROGRESS", job[w].shot # NoFill,
                      At(w) \notin Sells
               PROVE  MayAppend(At(w), Filled(w), job[w].shot)
    BY DEF BuysAreStored
  <2> DEFINE o == At(w)  shot == job[w].shot
  <2>1. job[w].phase \in Steps BY DEF Steps
  <2>2. o \in Orders BY <1>1, <2>1, WalkFacts DEF Inv
  <2>3. state[o] = "PENDING" BY <1>1, <2>1, WalkFacts DEF Inv, WalkInv, Expects
  <2>4. shot \in Replays[o] BY <1>1, <2>1 DEF Inv, ShotInv
  <2>5. /\ shot \in Shots /\ (shot.qty = 0 <=> shot.gross = 0) /\ shot.gross <= Reserve[o]
    BY <2>2, <2>4, ReplayFacts
  <2>6. fill[o] = 0 BY <1>1, <2>2, <2>3 DEF Inv, FillInv
  <2>7. Qty \in Nat \ {0} /\ Reserve[o] \in Nat BY <2>2, KnownHolds DEF Known
  <2>8. shot.qty \in Nat /\ shot.qty # 0 /\ shot.qty <= Qty /\ shot.gross \in Nat
    <3>1. shot.qty \in Nat /\ shot.qty <= Qty /\ shot.gross \in Nat BY <2>5, <2>7 DEF Shots
    <3>2. shot.qty # 0
      <4>1. shot = [qty |-> shot.qty, gross |-> shot.gross] BY <2>5 DEF Shots
      <4>q. QED BY <2>5, <4>1 DEF NoFill
    <3>q. QED BY <3>1, <3>2
  <2>9. res[o].filled = 0
    <3>1. res[o] # Absent /\ ~(res[o].filled > 0)
      BY <1>1, <2>2, <2>3 DEF Inv, ReservationFollowsLedger, None
    <3>2. res[o].filled \in Nat
      BY <1>1, <2>2, <3>1, RowTypes DEF Inv, TypeInv, BudgetTypeOK
    <3>q. QED BY <3>1, <3>2
  <2>10. MayMove(state[o], Filled(w))
    <3>1. Filled(w) \in {"FILLED", "PARTIAL_FILLED"} BY DEF Filled
    <3>q. QED BY <2>3, <3>1 DEF MayMove, Resolved, Terminal
  <2> HIDE DEF o, shot
  <2>11. Filled(w) = IF shot.qty = Qty THEN "FILLED" ELSE "PARTIAL_FILLED"
    BY DEF Filled, shot
  <2>12. FillsAgree(Filled(w), fill[o], shot.qty, Qty)
    BY <2>6, <2>7, <2>8, <2>11 DEF FillsAgree
  <2>13. Fits(o, shot) BY <2>5, <2>7, <2>8, <2>9 DEF Fits
  <2>q. QED BY <2>10, <2>12, <2>13 DEF MayAppend, o, shot
<1>q. QED BY <1>1, Always, PTL

(* Whatever order and book: the walk through the sorted levels fills as     *)
(* much as the permitted part allows, and no other way to divide the order  *)
(* over the book does so for a better price (simulateBookFill).             *)
THEOREM ReplayIsAlwaysBest == Spec => []ReplayIsBestExecution
<1>1. \A o \in Orders : o \in BestReplayed
  <2> SUFFICES ASSUME NEW o \in Orders, NEW look \in Looks,
                      validateEvidence(Order(o), look), look.fees,
                      Crosses(Order(o), look.quote.price)
               PROVE  BestExecution(Order(o), Levels(Order(o), look.book),
                                    simulatePaperLimitDayOrder(Order(o), look))
    BY DEF BestReplayed
  <2> DEFINE order == Order(o)  levels == Levels(order, look.book)
  <2>1. Replayable(order, levels) BY EvidenceFacts
  <2>2. simulatePaperLimitDayOrder(order, look) = simulateBookFill(order, levels)
    BY DEF simulatePaperLimitDayOrder
  <2> HIDE DEF order, levels
  <2>3. BestExecution(order, levels, simulateBookFill(order, levels))
    BY <2>1, ReplayIsOptimal
  <2>q. QED BY <2>2, <2>3 DEF order, levels
<1>2. ASSUME Inv PROVE ReplayIsBestExecution
  <2>1. \A w \in Workers : job[w].phase = "REPLAY" => At(w) \in Orders
    BY <1>2, WalkFacts DEF Inv, Steps
  <2>q. QED BY <1>1, <2>1 DEF ReplayIsBestExecution
<1>q. QED BY <1>2, Always, PTL
-----------------------------------------------------------------------------
(* The promise.                                                            *)

DayMap == [o \in Orders |-> IF res[o] = Absent THEN Absent ELSE res[o].day]
KeptMap == [o \in Orders |-> IF res[o] = Absent THEN 0 ELSE Reserve[o] - res[o].released]
TradedMap == [o \in Orders |-> IF res[o] = Absent THEN 0 ELSE res[o].filled]

Stutters == UNCHANGED <<limit, DayMap, KeptMap, TradedMap>>

LEMMA RowsAreMapped ==
  ASSUME res' = res PROVE UNCHANGED <<DayMap, KeptMap, TradedMap>>
BY DEF DayMap, KeptMap, TradedMap

LEMMA SameSums == \A f, S : Promise!SumFunctionOnSet(f, S) = SumFunctionOnSet(f, S)
BY Zenon
DEF SumFunctionOnSet, FoldFunctionOnSet, MapThenFoldSet,
    Promise!SumFunctionOnSet, Promise!FoldFunctionOnSet, Promise!MapThenFoldSet

\* What the promise calls used is what the trigger adds up.
LEMMA UsedIsUsage ==
  ASSUME BudgetTypeOK, NEW d \in Days
  PROVE  Usage(res, d) = SumFunctionOnSet(KeptMap, {o \in Orders : DayMap[o] = d})
<1> DEFINE S == OrdersOf(res, d)
<1>1. S = {o \in Orders : DayMap[o] = d} BY KnownHolds DEF Known, OrdersOf, DayMap
<1>2. \A o \in S : Unreleased(res)[o] = KeptMap[o] BY DEF OrdersOf, Unreleased, KeptMap
<1>3. IsFiniteSet(S) BY OrdersOfFacts
<1>4. Usage(res, d) = SumFunctionOnSet(Unreleased(res), S) BY UsageIsSum
<1> HIDE DEF S
<1>5. SumFunctionOnSet(Unreleased(res), S) = SumFunctionOnSet(KeptMap, S)
  BY <1>2, <1>3, SumSame
<1>q. QED BY <1>1, <1>4, <1>5

\* A limit that is inserted is one that was not there.
LEMMA InsertsFix ==
  ASSUME Budget, NEW w \in Workers, tx[w] # Idle, limit' = WithInserted(w)
  PROVE  limit' = limit \/ \E d \in Days : Promise!Fix(d)
<1>1. tx[w].inserts \in Days \cup {Absent} /\ tx[w].amount \in Amounts
  BY OpenFacts DEF Budget, OpenCreations
<1>2. CASE tx[w].inserts = Absent BY <1>2 DEF WithInserted
<1>3. CASE tx[w].inserts # Absent
  <2>1. limit[tx[w].inserts] = Absent BY <1>3 DEF Budget, InsertInv
  <2>q. QED BY <1>1, <1>3, <2>1 DEF WithInserted, Promise!Fix
<1>q. QED BY <1>2, <1>3

LEMMA CommitTakes ==
  ASSUME Budget, BudgetTypeOK', NEW w \in Workers, CommitCreation(w)
  PROVE  \E plan \in Plans, d \in Days : Promise!Take(plan, d)
<1>1. tx[w] # Idle /\ limit' = WithInserted(w)
  BY IdleFacts DEF CommitCreation
<1>2. tx[w].plan \in Plans /\ tx[w].amount \in Amounts
  BY <1>1, OpenFacts DEF Budget, OpenCreations
<1>3. PICK plan \in Plans : plan = tx[w].plan BY <1>2
<1>4. PICK d \in Days : d = today BY DEF Budget, BudgetTypeOK
<1> DEFINE new == [day |-> d, filled |-> 0, released |-> 0]
<1>5. new # Absent
  <2>1. new \in Rows BY DEF Rows
  <2>q. QED BY <2>1, KnownHolds DEF Known
<1>6. \A o \in Orders : res'[o] = IF o \in plan THEN new ELSE res[o]
  BY <1>3, <1>4 DEF CommitCreation
<1>7. new.day = d /\ new.filled = 0 /\ new.released = 0 OBVIOUS
<1>8. \A o \in Orders : Reserve[o] - 0 = Reserve[o] BY KnownHolds DEF Known
<1>9. limit'[d] # Absent BY <1>2, <1>4, CommittedLimit, KnownHolds DEF Known
<1>10. SumFunctionOnSet(KeptMap, {o \in Orders : DayMap[o] = d})
         + SumFunctionOnSet(Reserve, plan) <= limit'[d]
  BY <1>3, <1>4, UsedIsUsage, CommittedFits DEF Budget
<1>11. \A o \in plan : res[o] = Absent /\ DayMap[o] = Absent
  <2>1. plan \subseteq Orders BY KnownHolds DEF Known
  <2>q. QED BY <1>3, <2>1 DEF CommitCreation, Unused, DayMap
<1> HIDE DEF new
<1>12. DayMap' = [o \in Orders |-> IF o \in plan THEN d ELSE DayMap[o]]
  BY <1>5, <1>6, <1>7 DEF DayMap
<1>13. KeptMap' = [o \in Orders |-> IF o \in plan THEN Reserve[o] ELSE KeptMap[o]]
  BY <1>5, <1>6, <1>7, <1>8 DEF KeptMap
<1>14. TradedMap' = TradedMap
  BY <1>5, <1>6, <1>7, <1>11 DEF TradedMap
<1>15. limit' = limit \/ \E e \in Days : Promise!Fix(e) BY <1>1, InsertsFix
<1>16. Promise!Take(plan, d)
  <2>1. Promise!Used(d) + Promise!SumFunctionOnSet(Reserve, plan) <= limit'[d]
    BY <1>10, SameSums, Zenon DEF Promise!Used, DayMap, KeptMap
  <2>q. QED
    BY <1>9, <1>11, <1>12, <1>13, <1>14, <1>15, <2>1, Zenon
    DEF Promise!Take, DayMap, KeptMap, TradedMap
<1>q. QED BY <1>16

LEMMA BookTrades ==
  ASSUME TypeInv, NEW o \in Orders, NEW gross \in Nat, NEW final \in BOOLEAN,
         Books(o, gross, final)
  PROVE  Promise!Trade(o)
<1>1. res[o] # Absent /\ res[o].released = 0 /\ gross \in res[o].filled..Reserve[o]
      /\ Book(o, gross, final) /\ limit' = limit
  BY DEF Books
<1>2. /\ res'[o].filled = gross
      /\ res'[o].released = IF final THEN Reserve[o] - gross ELSE res[o].released
      /\ \A p \in Orders \ {o} : res'[p] = res[p]
  BY <1>1, BookedRow, Zenon
<1>3. Reserve[o] \in Int /\ gross \in Int BY KnownHolds DEF Known
<1>4. res'[o] # Absent /\ res'[o].day = res[o].day
  <2>1. res[o] \in Rows BY <1>1 DEF TypeInv, BudgetTypeOK, Reservations
  <2> DEFINE left == IF final THEN Reserve[o] - gross ELSE res[o].released
             row == [res[o] EXCEPT !.filled = gross, !.released = left]
  <2>2. res'[o] = row BY <1>1 DEF Book, TypeInv, BudgetTypeOK, Reservations
  <2>3. left \in Nat BY <1>1, <1>3
  <2> HIDE DEF left
  <2>4. row \in Rows /\ row.day = res[o].day BY <2>1, <2>3 DEF Rows
  <2>5. row # Absent BY <2>4, KnownHolds DEF Known
  <2>q. QED BY <2>2, <2>4, <2>5
<1>5. KeptMap[o] = Reserve[o] /\ TradedMap[o] = res[o].filled
  BY <1>1, <1>3 DEF KeptMap, TradedMap
<1>6. DayMap' = DayMap BY <1>1, <1>2, <1>4 DEF DayMap
<1>7. TradedMap' = [TradedMap EXCEPT ![o] = gross] BY <1>2, <1>4 DEF TradedMap
<1>8. KeptMap' \in {KeptMap, [KeptMap EXCEPT ![o] = gross]}
  <2>1. CASE final
    <3>1. Reserve[o] - res'[o].released = gross BY <1>2, <1>3, <2>1
    <3>2. KeptMap' = [KeptMap EXCEPT ![o] = gross] BY <1>2, <1>4, <3>1 DEF KeptMap
    <3>q. QED BY <3>2
  <2>2. CASE ~final
    <3>1. res'[o].released = res[o].released BY <1>2, <2>2
    <3>2. KeptMap' = KeptMap BY <1>1, <1>2, <1>4, <3>1 DEF KeptMap
    <3>q. QED BY <3>2
  <2>q. QED BY <2>1, <2>2
<1>q. QED
  BY <1>1, <1>5, <1>6, <1>7, <1>8 DEF Promise!Trade, DayMap, KeptMap, TradedMap

(* Executions that interleave transaction by transaction are, for the       *)
(* limit, a sequence of moments at which one plan takes all it reserves of  *)
(* what is left, or one order trades, for any number of requests, plans,    *)
(* days and configured amounts (createPaperOrders, guard_daily_trade_limit, *)
(* guard_daily_trade_reservation).                                          *)
THEOREM BudgetIsKept == Spec => KeepsBudget
<1>1. Init => Promise!Init
  <2> SUFFICES ASSUME Init PROVE Promise!Init OBVIOUS
  <2>1. DayMap = [o \in Orders |-> Absent] /\ KeptMap = [o \in Orders |-> 0]
        /\ TradedMap = [o \in Orders |-> 0]
    BY DEF Init, BudgetInit, DayMap, KeptMap, TradedMap
  <2>2. limit \in [Days -> Amounts \cup {Absent}] BY DEF Init, BudgetInit
  <2>q. QED BY <2>1, <2>2 DEF Promise!Init, DayMap, KeptMap, TradedMap
<1>2. ASSUME Inv, Inv', [Next]_vars PROVE [Promise!Next]_(Promise!vars)
  <2> SUFFICES Promise!Next \/ Stutters
    BY DEF Promise!vars, Stutters, DayMap, KeptMap, TradedMap
  <2>0. Budget /\ BudgetTypeOK' /\ TypeInv BY <1>2 DEF Inv, TypeInv, Budget
  <2>1. BudgetStep BY <1>2, BudgetMoves DEF Inv
  <2>2. CASE limit' = limit /\ res' = res BY <2>2, RowsAreMapped DEF Stutters
  <2>3. ASSUME NEW w \in Workers, RefuseCreation(w) PROVE Promise!Next \/ Stutters
    <3>1. tx[w] # Idle /\ limit' = WithInserted(w) /\ res' = res
      BY <2>3, IdleFacts DEF RefuseCreation
    <3>2. limit' = limit \/ \E d \in Days : Promise!Fix(d) BY <2>0, <3>1, InsertsFix
    <3>3. UNCHANGED <<DayMap, KeptMap, TradedMap>> BY <3>1, RowsAreMapped
    <3>q. QED
      BY <3>2, <3>3 DEF Promise!Next, Promise!FixLimit, Stutters, DayMap, KeptMap, TradedMap
  <2>4. ASSUME NEW w \in Workers, CommitCreation(w) PROVE Promise!Next
    BY <2>0, <2>4, CommitTakes DEF Promise!Next
  <2>5. ASSUME BooksAny PROVE Promise!Next
    BY <2>0, <2>5, BookTrades DEF BooksAny, Promise!Next
  <2>q. QED
    BY <2>1, <2>2, <2>3, <2>4, <2>5
    DEF BudgetStep, CreationStep, BudgetSame, ChangeSetting, Midnight,
        OpenCreation, LockLimit, AbortCreation
<1>q. QED BY <1>1, <1>2, Always, PTL DEF KeepsBudget, Promise!Spec, Spec

=============================================================================
