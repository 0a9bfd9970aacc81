-------------------------- MODULE MCPaperExecution --------------------------
(* Two plans of three orders, of two shares at 2 each, and looks at a book  *)
(* whose levels are of ten shares and more: a replay may use a tenth.       *)
EXTENDS PaperExecution

CONSTANTS s1, b1, b2

\* The first plan sells and buys, the second is one purchase.
ThreeOrders == {s1, b1, b2}
TwoPlans == {{s1, b1}, {b2}}
EachReserves == [o \in ThreeOrders |-> Qty * Price]

Level(price, qty) == [price |-> price, qty |-> qty]

\* Out of order, thin, at the limit and beyond it; with a level without shares.
LevelLists ==
  UNION {[1..n -> {Level(1, 19), Level(2, 10), Level(3, 20)}] : n \in 0..2}
    \cup {<<Level(2, 9)>>, <<Level(1, 10), Level(2, 0)>>}

Quote(price, seen, received) == [price |-> price, seen |-> seen, received |-> received]
Look(quote, book, fees) == [quote |-> quote, book |-> book, fees |-> fees, now |-> 3]

GoodBook == [asks |-> <<Level(2, 20)>>, bids |-> <<Level(2, 20)>>, seen |-> 2, received |-> 2]

MCLooks ==
  {Look(Quote(price, 2, 2), [asks |-> l, bids |-> l, seen |-> 2, received |-> 2], TRUE) :
     price \in 1..3, l \in LevelLists}
  \cup {Look(quote, GoodBook, TRUE) :
           quote \in {Missing} \cup [price : {2}, seen : {Missing, 0, 1, 5}, received : {1, 3}]}
  \cup {Look(Quote(2, 2, 2), Missing, TRUE), Look(Quote(2, 2, 2), GoodBook, FALSE)}

Symmetry == Permutations(Workers)
=============================================================================
