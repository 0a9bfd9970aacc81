SPECIFICATION Spec
CONSTANTS
  Workers = {w1, w2}
  s1 = s1  b1 = b1  b2 = b2
  Orders <- ThreeOrders
  Plans <- TwoPlans
  Sells = {s1}
  Reserve <- EachReserves
  Amounts = {8, 12}
  LastDay = 2
  Absent = Absent
  Qty = 2  Price = 2
  Missing = Missing
  MaxAge = 2  Tolerance = 1
  Participation = 1  Whole = 10
  Looks <- MCLooks
INVARIANTS
  OrdersBelongToOneRequest ReservationFollowsLedger BuysAreStored ReplayIsBestExecution
PROPERTIES KeepsBudget
SYMMETRY Symmetry
