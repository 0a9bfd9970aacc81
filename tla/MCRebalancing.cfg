SPECIFICATION Spec
CONSTANTS
  Instruments = {"b", "c", "s"}
  Securities = {"CORE", "SAFE", "SATELLITE"}
  Cash = "CASH"
  Risky = {"CORE", "SATELLITE"}
  ClassOf <- MCClassOf
  Rank <- MCRank
  Unit = 2
  Batch = 2
  Selected = "mine"
  NoSelection = "none"
  Scale = 20
  MaxDrift = 1
  Minimum = 3
  FeeBuffer = 2
  FeePercent = 1
  MaxInstrument = 9
  MaxClass = 14
  MaxRisky = 13
  Weights <- MCWeights
  Prices = {2, 3, 5}
  StartQuantity <- MCStartQuantity
  StartPrice <- MCStartPrice
  StartMoney = 17
  MaxEvents = 2
INVARIANTS
  CashIsRetained BuysStopAtTheEdge PointsAddUp VerifiedIsPlannable PlansCountEveryShare
PROPERTIES
  Settles
CHECK_DEADLOCK FALSE
