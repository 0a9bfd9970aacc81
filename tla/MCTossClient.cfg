SPECIFICATION Spec
CONSTANTS
  r = r  l = l  w1 = w1  w2 = w2
  a1 = a1  pretrade = pretrade  reconcile = reconcile  executions = executions
  getOrders = getOrders  getOrder = getOrder  orders = orders  history = history
  Calls = {r, l, w1, w2}
  NoCall = NoCall
  Writes = {w1, w2}
  Lookups = {l}
  Flow <- FlowOf
  Op <- OpOf
  Group <- GroupOf
  Authorization <- AuthorizationOf
  MaxTokens = 2
CHECK_DEADLOCK FALSE
INVARIANTS AloneNeverDenied DeniedTokenIsDropped OneRequestPerGroup NobodyWaitsInVain
  OneSendPerAuthorization CertainAnswersAreTrue
SYMMETRY Symmetry
