SPECIFICATION Spec
CONSTANTS
  Orders = {o1}
  NoOrder = NoOrder
  Workers = {w1, w2}
  Requests = {"EXECUTE", "RECONCILE"}
  Qty = 1
  FreshBinding = FALSE
SYMMETRY Symmetry
INVARIANTS
  NonDispatchProvesNoClaim
