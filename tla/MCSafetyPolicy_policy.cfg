SPECIFICATION Spec
CONSTANTS
  Requests = {r1, r2}
  Executions = {e1}
  NoOne = NoOne
  Contents = {paper, live1, live2}
  LiveContents = {live1, live2}
  MaxRows <- RowBounds
SYMMETRY RequestAndContentSymmetry
INVARIANTS
  GrantsReviewedConfig
PROPERTIES
  ClaimsUnderCurrentPolicy
  OnlyOperatorTurnsOn
