SPECIFICATION Spec
CONSTANTS
  Orders = {o1}
  NoOrder = NoOrder
  Workers = {w1, w2}
  Requests = {"EXECUTE", "RECONCILE", "CANCEL", "RECOVER"}
  Qty = 2
  FreshBinding = TRUE
SYMMETRY Symmetry
INVARIANTS
  LedgerFollowsBroker
  CancelToken
PROPERTIES
  FinalIsFinal
  OnlyOperatorUnblocks
