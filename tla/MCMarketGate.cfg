SPECIFICATION Spec
CONSTANTS
  NoTime = NoTime
  Sides = {"BUY", "SELL"}
  Quantity = 2
  LimitPrice = 4
  PlannedPrice = 4
  PlannedAt = 0
  Prices = {4, 6}
  DailyRanges <- MCDailyRanges
  Capacities = {8, 9}
  Markets <- MCMarkets
  Approvals = {3, 9}
  QuoteAge = 3
  CalendarAge = 4
  Tolerance = 1
  MaxChange = 25
  FeeBuffer = 1
  MinimumOrder = 5
  GeneralSingle = 10
  GeneralDaily = 20
  SingleLimit = 8
  TinyLimit = 8
  DailyLimit = 20
  Used = 9
  ApprovalTtl = 8
  Life = 3
  Slack = 1
  Start = 1
  MaxTime = 5
  MaxOdd = 1
INVARIANTS
  ClaimedOnFreshEvidence ClaimedInContinuousTrading
  ClaimedUnderApproval ClaimCoversEveryFill
CHECK_DEADLOCK FALSE
