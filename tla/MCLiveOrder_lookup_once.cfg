SPECIFICATION LookupSpec
CONSTANTS
  Orders = {o1}
  NoOrder = NoOrder
  Workers = {w1, w2}
  Requests = {"EXECUTE", "RECONCILE", "RECOVER"}
  Qty = 1
  FreshBinding = FALSE
PROPERTIES
  FinalReachesLedger
