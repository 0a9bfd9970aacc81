SPECIFICATION Spec
CONSTANTS
  Collectors = {c1, c2}
  Editors = {e1, e2}
  Planners = {p1}
  Contents = {x, y}
  NoOne = NoOne
  MaxServed = 2
  MaxObservations = 3
  MaxVersions = 2
SYMMETRY Symmetry
INVARIANTS
  SnapshotsInOrder
  OneVersionInForce
  RunsMatchResults
  UncheckedPlansAreBlocked
PROPERTIES StaleForGood
