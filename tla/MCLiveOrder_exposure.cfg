SPECIFICATION Spec
CONSTANTS
  Orders = {o1, o2}
  NoOrder = NoOrder
  Workers = {w1, w2}
  Requests = {"EXECUTE", "RECONCILE", "RECOVER"}
  Qty = 1
  FreshBinding = TRUE
SYMMETRY OrderAndWorkerSymmetry
INVARIANTS
  DispatchToken
  OneOrderExposed
  NonDispatchIsExclusive
  OneBrokerExposure
  ReservationCoversExposure
PROPERTIES
  KeepsPromise
