----------------------------- MODULE PaperReplay -----------------------------
(***************************************************************************)
(* What an order of a PAPER plan would have traded: a limit order replayed *)
(* against one look at the quote and the order book.  Times are relative   *)
(* to the row that made the order SUBMITTING; money is in whole won.       *)
(***************************************************************************)
EXTENDS Integers, Sequences, Functions

CONSTANTS
  Missing,        \* no quote, no book, no time of observation
  MaxAge,         \* freshness.quote.preSubmitMaxAgeSeconds
  Tolerance,      \* freshness.quote.futureToleranceSeconds
  Participation,  \* bookParticipationBasisPoints: the part of every level
  Whole           \* of the book that a replay may use

ASSUME ReplayAssumption ==
  /\ {MaxAge, Tolerance} \subseteq Nat /\ Whole \in Nat \ {0}
  /\ Participation \in 0..Whole

NoFill == [qty |-> 0, gross |-> 0]

\* Both times of a piece of evidence are later than the order, at most a little
\* ahead of the evaluation and of each other, and not too old.
validateEvidenceTime(e, now) ==
  /\ e.seen # Missing
  /\ e.seen > 0 /\ e.received > 0
  /\ e.seen - now <= Tolerance /\ e.received - now <= Tolerance
  /\ e.seen - e.received <= Tolerance
  /\ now - e.seen <= MaxAge /\ now - e.received <= MaxAge

\* The side of the book the order would trade with.
Levels(order, book) == IF order.side = "BUY" THEN book.asks ELSE book.bids

\* One level that is not a positive number of shares spoils the book.
validateEvidence(order, look) ==
  /\ look.quote # Missing /\ look.book # Missing
  /\ validateEvidenceTime(look.quote, look.now)
  /\ validateEvidenceTime(look.book, look.now)
  /\ Levels(order, look.book) # <<>>
  /\ \A l \in Range(Levels(order, look.book)) : l.price > 0 /\ l.qty > 0

CrossesAnyPrice(order, price) == TRUE  \* wrong: the limit is not looked at

Crosses(order, price) ==
  IF order.side = "BUY" THEN price <= order.limit ELSE price >= order.limit

CheapestFirst(order, levels, i, j) ==  \* wrong: for a sell, too
  levels[i].price < levels[j].price \/ (levels[i].price = levels[j].price /\ i < j)

\* compareBookLevels: the best price for the order comes first, then the order told.
Better(order, levels, i, j) ==
  \/ /\ levels[i].price # levels[j].price
     /\ IF order.side = "BUY" THEN levels[i].price < levels[j].price
                              ELSE levels[i].price > levels[j].price
  \/ levels[i].price = levels[j].price /\ i < j

\* The whole shares of a level a replay may use.
Available(level) == (level.qty * Participation) \div Whole

Least(a, b) == IF a < b THEN a ELSE b

\* The best level first, each as far as what the better ones left of the order.
Taken(order, levels) ==
  LET qualifying == {i \in DOMAIN levels : Crosses(order, levels[i].price)}
      available == [i \in qualifying |-> Available(levels[i])]
  IN  [i \in qualifying |->
         LET better == {j \in qualifying : Better(order, levels, j, i)}
             left == order.qty - SumFunctionOnSet(available, better)
         IN  IF left <= 0 THEN 0 ELSE Least(available[i], left)]

Shares(a) == SumFunction(a)
Gross(a, levels) == SumFunction([i \in DOMAIN a |-> a[i] * levels[i].price])

simulateBookFill(order, levels) ==
  [qty |-> Shares(Taken(order, levels)), gross |-> Gross(Taken(order, levels), levels)]

\* Without evidence, a crossing quote or a commission schedule nothing is filled.
simulatePaperLimitDayOrder(order, look) ==
  IF /\ validateEvidence(order, look)
     /\ Crosses(order, look.quote.price)
     /\ look.fees
    THEN simulateBookFill(order, Levels(order, look.book))
    ELSE NoFill

-----------------------------------------------------------------------------
(* The reference: every way to divide an order over the book. *)

Divisions(order, levels) ==
  {a \in [DOMAIN levels -> 0..order.qty] :
     \A i \in DOMAIN levels :
       /\ a[i] <= Available(levels[i])
       /\ a[i] > 0 => Crosses(order, levels[i].price)}

\* A shot that fills as much as the book allows, for the best price.
BestExecution(order, levels, shot) ==
  LET ways == {a \in Divisions(order, levels) : Shares(a) <= order.qty}
      AsGood(a) ==
        IF order.side = "BUY" THEN shot.gross <= Gross(a, levels)
                              ELSE shot.gross >= Gross(a, levels)
  IN /\ \E a \in ways : Shares(a) = shot.qty /\ Gross(a, levels) = shot.gross
     /\ \A a \in ways :
          Shares(a) < shot.qty \/ (Shares(a) = shot.qty /\ AsGood(a))
=============================================================================
