----------------------------- MODULE Rebalancing -----------------------------
(***************************************************************************)
(* From holdings and a target to orders: the calculators of the domain     *)
(* package, the plan made from them, and the cycle of collecting the       *)
(* account, planning, trading and starting again while prices, cash and    *)
(* the target change.  A plan is calculated twice: the first time with     *)
(* every holding taken as sellable, to learn which sellable quantities to  *)
(* ask the broker for.                                                     *)
(* Amounts are in won and weights in points, Scale points to the whole.    *)
(* The engine always returns to the edge of the band (BAND_EDGE).  What    *)
(* blocks a plan for other reasons (quotes, calendar, restrictions, a      *)
(* snapshot replaced meanwhile) is left to PlanRuns and MarketGate.        *)
(***************************************************************************)
EXTENDS SnapshotEvidence

CONSTANTS
  Instruments,    \* the instruments of the target
  Securities,     \* their asset classes
  Cash,           \* the asset class CASH
  Risky,          \* CORE and SATELLITE
  ClassOf,        \* the class of each instrument
  Scale,          \* BASIS_POINT_SCALE
  MaxDrift,       \* MAX_ALLOWED_DRIFT_BASIS_POINTS
  Minimum,        \* PLAN_MINIMUM_ORDER_MINOR
  FeeBuffer,      \* PLAN_FEE_BUFFER_MINOR
  FeePercent,     \* commission rate of the account
  MaxInstrument, MaxClass, MaxRisky,  \* weight limits of the operational configuration
  Weights,        \* target weights the operator may enter, by class
  Prices,         \* prices of one share
  StartQuantity, StartPrice, StartMoney,  \* what the account may begin with
  MaxEvents       \* bound: price moves, deposits and changes of the target

Classes == Securities \cup {Cash}

\* Distinct texts have distinct places in the text order.
ASSUME RebalancingAssumption ==
  /\ IsFiniteSet(Instruments) /\ IsFiniteSet(Securities)
  /\ ClassOf \in [Instruments -> Securities]
  /\ Cash \notin Securities /\ Risky \subseteq Securities
  /\ \A x \in Instruments \cup Classes : x \in DOMAIN Rank /\ Rank[x] \in Nat
  /\ \A x, y \in Instruments \cup Classes : Rank[x] = Rank[y] => x = y
  /\ Scale \in Nat \ {0} /\ MaxDrift \in Nat
  /\ Minimum \in Nat /\ FeeBuffer \in Nat /\ FeePercent \in Nat
  /\ {MaxInstrument, MaxClass, MaxRisky} \subseteq 0..Scale
  /\ Weights \subseteq [Classes -> 0..Scale]
  /\ Prices \subseteq Nat \ {0}
  /\ StartQuantity \subseteq [Instruments -> Nat] /\ StartPrice \in [Instruments -> Prices]
  /\ StartMoney \in Nat /\ MaxEvents \in Nat

VARIABLES
  qty,     \* shares held
  price,   \* last price of a share
  money,   \* buying power at the broker
  target,  \* the ACTIVE target version
  plan,    \* the latest plan and what it was calculated from
  events   \* how many outside events are still to come

vars == <<qty, price, money, target, plan, events>>

Target == [weight : Weights, within : [Instruments -> 0..Scale], managed : Nat]
NoTarget == [managed |-> -1]
NoPlan == [status |-> "NONE"]

-----------------------------------------------------------------------------
(* The calculators (packages/domain).                                      *)

CeilDiv(n, d) == (n + d - 1) \div d

\* y comes before x: the larger amount first, the text order among equals.
Ahead(amount, y, x) ==
  amount[y] > amount[x] \/ (amount[y] = amount[x] /\ Rank[y] < Rank[x])

SharesNoRemainder(amount, part, whole, S) ==  \* wrong: what rounding leaves is lost
  [x \in S |-> (amount * part[x]) \div whole]

\* Largest remainder: each x of S gets its part of amount rounded down, and
\* those with the largest remainders one more until all is given out.
Shares(amount, part, whole, S) ==
  LET floor == [x \in S |-> (amount * part[x]) \div whole]
      remainder == [x \in S |-> (amount * part[x]) % whole]
      left == amount - SumFunction(floor)
  IN  [x \in S |-> floor[x] +
         IF Cardinality({y \in S : Ahead(remainder, y, x)}) < left THEN 1 ELSE 0]

Members(c) == {i \in Instruments : ClassOf[i] = c}

resolvePreserveCurrentWithinAssetPoints(value, S) ==
  Shares(Scale, value, SumFunctionOnSet(value, S), S)

resolveEqualWithinAssetPoints(S) ==
  [x \in S |-> (Scale \div Cardinality(S)) +
     IF Cardinality({y \in S : Rank[y] < Rank[x]}) < Scale % Cardinality(S) THEN 1 ELSE 0]

Drift(w) == Min({CeilDiv(w, 4), MaxDrift})
Lower(w) == Max({0, w - Drift(w)})
Upper(w) == Min({Scale, w + Drift(w)})

classifyBand(value, w, total) ==
  IF value * Scale < Lower(w) * total THEN "BELOW_LOWER"
  ELSE IF value * Scale > Upper(w) * total THEN "ABOVE_UPPER" ELSE "IN_RANGE"

desiredBandEdgeValue(value, w, total) ==
  LET reason == classifyBand(value, w, total)
  IN  CASE reason = "BELOW_LOWER" -> CeilDiv(Lower(w) * total, Scale)
        [] reason = "ABOVE_UPPER" -> (Upper(w) * total) \div Scale
        [] OTHER -> value

AllocateToEachInFull(need, S, cash) ==  \* wrong: what others took is not deducted
  [x \in S |-> Min({need[x], cash})]

\* The largest needs first, each as far as what is left reaches.
allocateSpendableCash(need, S, cash) ==
  [x \in S |-> LET taken == SumFunctionOnSet(need, {y \in S : Ahead(need, y, x)})
               IN  Min({need[x], Max({0, cash - taken})})]

RoundedUp(amount, p) ==  \* wrong: rounds the quantity up
  LET n == CeilDiv(amount, p) IN IF n * p < Minimum THEN 0 ELSE n

\* Whole shares, and none if they are worth less than the minimum order.
roundKrOrder(amount, p) ==
  LET n == amount \div p IN IF n * p < Minimum THEN 0 ELSE n

-----------------------------------------------------------------------------
(* The plan of a basis b: holdings, prices, values and target              *)
(* (packages/application).                                                 *)

ClassValue(b, c) ==
  IF c = Cash THEN b.target.managed ELSE SumFunctionOnSet(b.value, Members(c))

Total(b) == SumFunction([c \in Classes |-> ClassValue(b, c)])

DesiredClass(b, c) == desiredBandEdgeValue(ClassValue(b, c), b.target.weight[c], Total(b))

\* Within a class the points are exact targets, also when it is in its range.
allocateDesiredInstrumentValues(b) ==
  LET shares == [c \in Securities |->
                   Shares(DesiredClass(b, c), b.target.within, Scale, Members(c))]
  IN  [i \in Instruments |-> shares[ClassOf[i]][i]]

Spendable(b) ==
  Max({0, b.target.managed - CeilDiv(b.total * b.target.weight[Cash], Scale) - FeeBuffer})

\* Cash goes to the classes first and then to the instruments of each class.
Funding(b, delta, buys) ==
  LET need == [i \in Instruments |-> Max({0, delta[i]})]
      classNeed == [c \in Securities |-> SumFunctionOnSet(need, Members(c))]
      classCash == allocateSpendableCash(classNeed, Securities, Spendable(b))
      cash == [c \in Securities |->
                 allocateSpendableCash(need, buys \cap Members(c), classCash[c])]
  IN  [i \in buys |-> cash[ClassOf[i]][i]]

createResult(status, side, reasons, desired, order) ==
  [status |-> status, side |-> side, reasons |-> reasons, desired |-> desired, order |-> order]

Blocked(reason) ==
  createResult("BLOCKED", "NONE", {reason},
               [i \in Instruments |-> 0], [i \in Instruments |-> 0])

planReasonCodes(planned, assetNeeds, sells, buys, buysRemain) ==
  IF planned
    THEN IF sells THEN {"SELL_PHASE_READY"} \cup (IF buys THEN {"BUY_PHASE_DEFERRED"} ELSE {})
         ELSE {"BUY_PHASE_READY"} \cup (IF buysRemain THEN {"BUY_NEEDS_REMAIN"} ELSE {})
    ELSE IF ~sells /\ ~buys
      THEN {IF assetNeeds THEN "REBALANCE_NEEDS_NO_ORDER_CANDIDATE" ELSE "NO_REBALANCE_NEEDED"}
      ELSE {"NO_EXECUTABLE_ORDER_AFTER_ROUNDING"}
             \cup (IF sells /\ buys THEN {"BUY_PHASE_DEFERRED"} ELSE {})

First(S) == CHOOSE i \in S : \A j \in S : Rank[i] <= Rank[j]

\* A price that is missing or not in whole won is Null.
InstrumentFault(b, sellable, i) ==
  IF i \in DOMAIN sellable /\ sellable[i] > b.qty[i] THEN "INSTRUMENT_INPUT_INVALID"
  ELSE IF b.price[i] = Null THEN "PRICE_MISSING_OR_INVALID"
  ELSE IF b.value[i] # b.qty[i] * b.price[i] THEN "INSTRUMENT_VALUE_MISMATCH" ELSE "NONE"

ClassFault(b, sellable, c) ==
  LET faulty == {i \in Members(c) : InstrumentFault(b, sellable, i) # "NONE"}
  IN  IF faulty # {} THEN InstrumentFault(b, sellable, First(faulty))
      ELSE IF IF Members(c) = {} THEN b.target.weight[c] # 0
              ELSE SumFunctionOnSet(b.target.within, Members(c)) # Scale
        THEN "WITHIN_ASSET_ALLOCATION_INVALID" ELSE "NONE"

\* The first fault in the order of classes and instruments, if there is one.  The
\* identity is tested in PlanRuns; cash and bands are as buildPlanInput and the
\* target's own bands make them.
validateAndNormalizeInput(b, sellable) ==
  LET faulty == {c \in Securities : ClassFault(b, sellable, c) # "NONE"}
  IN  IF faulty # {} THEN ClassFault(b, sellable, First(faulty))
      ELSE IF Total(b) = 0 THEN "PORTFOLIO_TOTAL_INVALID" ELSE "NONE"

\* What of a need to buy the orders leave for a later plan.
createDeferredBuyNeed(b, delta, order) ==
  [i \in {j \in Instruments : delta[j] > 0} |-> delta[i] - order[i] * b.price[i]]

\* One need to sell, however small, makes it a selling phase; all buying waits for
\* the next plan.
PhaseOrders(b, delta, sells, buys, funds) ==
  [i \in Instruments |->
     IF i \in sells THEN roundKrOrder(-delta[i], b.price[i])
     ELSE IF sells = {} /\ i \in buys THEN roundKrOrder(funds[i], b.price[i])
     ELSE 0]

OrdersPlan(b, desired, delta, order, sells, buys) ==
  LET planned == \E i \in Instruments : order[i] > 0
      deferred == createDeferredBuyNeed(b, delta, order)
  IN  createResult(
        IF planned THEN "PLANNED" ELSE "NO_ACTION",
        IF ~planned THEN "NONE" ELSE IF sells # {} THEN "SELL" ELSE "BUY",
        planReasonCodes(planned, \E c \in Classes : DesiredClass(b, c) # ClassValue(b, c),
                        sells # {}, buys # {}, \E i \in buys : deferred[i] > 0),
        desired, order)

\* sellable maps the instruments the broker has answered for.
PhasePlan(b, sellable, desired, delta) ==
  LET sells == {i \in Instruments : delta[i] < 0}
      buys == {i \in Instruments : delta[i] > 0}
      missing == sells \ DOMAIN sellable
      short == {i \in sells \ missing : (-delta[i]) \div b.price[i] > sellable[i]}
  IN  IF missing \cup short # {}
        THEN Blocked(IF First(missing \cup short) \in missing
                       THEN "SELLABLE_QUANTITY_MISSING" ELSE "SELLABLE_QUANTITY_INSUFFICIENT")
        ELSE OrdersPlan(b, desired, delta,
                        PhaseOrders(b, delta, sells, buys, Funding(b, delta, buys)), sells, buys)

Difference(desired, value) == [i \in Instruments |-> desired[i] - value[i]]

ValidPlan(b, sellable, desired) ==
  PhasePlan(b, sellable, desired, Difference(desired, b.value))

createShadowRebalancePlan(b, sellable) ==
  LET fault == validateAndNormalizeInput(b, sellable)
  IN  IF fault # "NONE" THEN Blocked(fault)
      ELSE ValidPlan(b, sellable, allocateDesiredInstrumentValues(b))

estimateCommission(amount) == CeilDiv(amount * FeePercent, 100)

Notional(b, order) == [i \in Instruments |-> order[i] * b.price[i]]

Fees(b, order) ==
  SumFunction([i \in Instruments |-> estimateCommission(Notional(b, order)[i])])

projectAllocationAfterRoundedTrades(b, delta) ==
  [c \in Classes |-> ClassValue(b, c) + delta[c]]

Signed(side, amount) == IF side = "BUY" THEN amount ELSE -amount

\* What the classes are worth once every order is filled.
projectAfterOrders(b, side, order) ==
  projectAllocationAfterRoundedTrades(b,
    [c \in Classes |->
       IF c = Cash THEN -Signed(side, SumFunction(Notional(b, order)))
       ELSE Signed(side, SumFunctionOnSet(Notional(b, order), Members(c)))])

FeesCovered(b, result) ==
  IF result.status = "PLANNED" /\ Fees(b, result.order) > FeeBuffer
    THEN Blocked("COMMISSION_UNVERIFIED") ELSE result

withSellableQuantities(answer, asked) == Restrict(answer, asked)

\* Sellable quantities are asked for only where the first result has an order.
AfterPreflight(b, answer, first) ==
  LET asked == {i \in DOMAIN answer : first.side = "SELL" /\ first.order[i] > 0}
  IN  IF first.status # "PLANNED" THEN first
      ELSE FeesCovered(b, createShadowRebalancePlan(b, withSellableQuantities(answer, asked)))

calculatePlanWithPreflight(b, answer) ==
  AfterPreflight(b, answer, createShadowRebalancePlan(b, b.qty))

-----------------------------------------------------------------------------
(* The gate before an order is made (execution-risk-gate, risk-limits).    *)

\* The whole plan is projected, though no more than its first order will be sent.
projectedExposure(b, side, order) ==
  LET classes == projectAfterOrders(b, side, order)
  IN  [total |-> SumFunction(classes), classes |-> classes,
       instruments |-> [i \in Instruments |-> b.value[i] + Signed(side, Notional(b, order)[i])],
       risky |-> SumFunctionOnSet(classes, Risky)]

evaluateExposureLimits(x) ==
  /\ x.total > 0 /\ x.risky \in 0..x.total
  /\ \A v \in Range(x.instruments) \cup Range(x.classes) : v \in 0..x.total
  /\ \A i \in DOMAIN x.instruments : x.instruments[i] * Scale <= MaxInstrument * x.total
  /\ \A c \in DOMAIN x.classes : x.classes[c] * Scale <= MaxClass * x.total
  /\ x.risky * Scale <= MaxRisky * x.total

evaluateProjectedExposure(b, side, order) ==
  evaluateExposureLimits(projectedExposure(b, side, order))

-----------------------------------------------------------------------------
(* Planning, trading and planning again.                                   *)

Init ==
  /\ qty \in StartQuantity /\ price = StartPrice /\ money = StartMoney
  /\ target = NoTarget /\ plan = NoPlan /\ events = MaxEvents

Event == events > 0 /\ events' = events - 1

\* The weights add up and a class with a weight has members.
TargetSettingsDraftInputSchema(weight) ==
  /\ SumFunction(weight) = Scale
  /\ \A c \in Securities : weight[c] > 0 => Members(c) # {}

\* The draft resolves bands and points from the latest snapshot, and is applied.
\* Only a class whose members are all held may keep its present proportions.
ApplyTarget(weight, equal, managed) ==
  LET value == [i \in Instruments |-> qty[i] * price[i]]
      points == [c \in Securities |->
                   IF c \in equal THEN resolveEqualWithinAssetPoints(Members(c))
                   ELSE resolvePreserveCurrentWithinAssetPoints(value, Members(c))]
  IN  /\ Event
      /\ TargetSettingsDraftInputSchema(weight)
      /\ \A c \in Securities \ equal : \A i \in Members(c) : qty[i] > 0
      /\ target' = [weight |-> weight, managed |-> managed,
                    within |-> [i \in Instruments |-> points[ClassOf[i]][i]]]
      /\ plan' = NoPlan
      /\ UNCHANGED <<qty, price, money>>

Targeted == {[market |-> "KR", symbol |-> i, currency |-> "KRW"] : i \in Instruments}

Ordered(S) ==
  [n \in 1..Cardinality(S) |-> CHOOSE i \in S : Cardinality({j \in S : Rank[j] < Rank[i]}) = n - 1]

Day(date) ==
  [date |-> date, sessions |-> <<[from |-> 1, to |-> 2, auctionFrom |-> Null, auctionTo |-> Null],
                                 [from |-> 2, to |-> 5, auctionFrom |-> 4, auctionTo |-> Null]>>]

Calendar == [previous |-> Day(1), today |-> Day(2), next |-> Day(3)]

\* The account as the broker tells it; its own valuation of a holding lags behind.
\* extra are holdings of another market, quoted as well.
Account(extra) ==
  [accounts |-> {Selected}, observed |-> 1, completed |-> 1,
   items |-> LET held == Ordered({i \in Instruments : qty[i] > 0})
             IN  [n \in DOMAIN held |->
                    [market |-> "KR", symbol |-> held[n], currency |-> "KRW",
                     quantity |-> qty[held[n]] * Unit,
                     worth |-> qty[held[n]] * StartPrice[held[n]]]] \o extra,
   quotes |-> LET all == Ordered(Instruments)
              IN  [n \in DOMAIN all |->
                     [symbol |-> all[n], currency |-> "KRW", price |-> price[all[n]] * Unit,
                      observed |-> "PAST"]]
                  \o [n \in DOMAIN extra |->
                        [symbol |-> extra[n].symbol, currency |-> "USD", price |-> Unit + 1,
                         observed |-> "PAST"]],
   power |-> [KRW |-> [currency |-> "KRW", amount |-> money * Unit],
              USD |-> [currency |-> "USD", amount |-> 1]],
   exchange |-> [base |-> "USD", quote |-> "KRW", rate |-> 3],
   calendars |-> [KR |-> Calendar, US |-> Calendar]]

\* Answers that are wrong or incomplete in one way: another account besides, an
\* instrument listed or quoted twice, in another currency, with parts of a share or
\* of a won, or not quoted at all; a quote without a time or of the future; a broken
\* or missing calendar, a wrong currency or rate, a clock that steps back.
Distorted(e) ==
  {[e EXCEPT !.accounts = {}],
   [e EXCEPT !.accounts = @ \cup {NoSelection}],
   [e EXCEPT !.quotes = Tail(@)],
   [e EXCEPT !.quotes = Append(@, Head(@))],
   [e EXCEPT !.quotes[1].currency = "USD"],
   [e EXCEPT !.quotes[1].price = @ + 1],
   [e EXCEPT !.quotes[1].observed = "NONE"],
   [e EXCEPT !.quotes[1].observed = "FUTURE"],
   [e EXCEPT !.power.KRW.currency = "USD"],
   [e EXCEPT !.exchange.base = "KRW"],
   [e EXCEPT !.calendars = [m \in {} |-> Calendar]],
   [e EXCEPT !.calendars.KR.today.date = 1],
   [e EXCEPT !.calendars.KR.today.sessions[2].from = 1],
   [e EXCEPT !.completed = 0]}
  \cup (IF e.items = <<>> THEN {} ELSE
         {[e EXCEPT !.items = Append(@, [Head(@) EXCEPT !.quantity = Unit])],
          [e EXCEPT !.items[1].quantity = @ + 1]})

\* Three halves of a share of an American instrument, bought elsewhere.
Foreign ==
  <<[market |-> "US", symbol |-> "x", currency |-> "USD", quantity |-> 3, worth |-> 1]>>

Stored ==
  UNION {collectPortfolio(e, Targeted, target.managed) :
           e \in {Account(<<>>), Account(Foreign)} \cup Distorted(Account(<<>>))
                  \cup {[Account(Foreign) EXCEPT !.exchange.base = "KRW"]}}

\* A holding that is not in the target refuses the plan.
buildPlanInput(s) ==
  [qty |-> [i \in Instruments |-> parseWholeUnits(Holding(s, [market |-> "KR", symbol |-> i]))],
   price |-> [i \in Instruments |-> parseKrwMinor(PriceOf(s.prices, [market |-> "KR", symbol |-> i]))],
   value |-> [i \in Instruments |-> ValueIn(Holding(s, [market |-> "KR", symbol |-> i]))],
   total |-> s.total, target |-> target]

\* The account is collected and planned; answer is what the broker says may be sold,
\* nothing at all if one of its answers fails.  A snapshot that is refused, is not
\* verified or holds what is not in the target leaves the last plan as it is.
Calculate(s, answer) ==
  /\ target # NoTarget
  /\ s.status = "VERIFIED" /\ Managed(s, Targeted)
  /\ \E basis \in {buildPlanInput(s)} : \E result \in {calculatePlanWithPreflight(basis, answer)} :
       plan' = [status |-> result.status, side |-> result.side, reasons |-> result.reasons,
                desired |-> result.desired, order |-> result.order, basis |-> basis,
                answered |-> DOMAIN answer # {}]
  /\ UNCHANGED <<qty, price, money, target, events>>

\* Only the first order of a plan is ever executed; it may be filled in part.  What all
\* its orders would make of the account must be within the weight limits.
\* A buy must find the fee buffer besides its amount in the buying power.
Trade(n) ==
  LET i == First({j \in Instruments : plan.order[j] > 0})
      amount == n * plan.basis.price[i]
  IN  /\ plan.status = "PLANNED" /\ n <= plan.order[i]
      /\ evaluateProjectedExposure(plan.basis, plan.side, plan.order)
      /\ IF plan.side = "SELL"
           THEN n <= qty[i] /\ qty' = [qty EXCEPT ![i] = @ - n] /\ money' = money + amount
           ELSE /\ plan.order[i] * plan.basis.price[i] + FeeBuffer <= money
                /\ qty' = [qty EXCEPT ![i] = @ + n] /\ money' = money - amount
      /\ plan' = NoPlan
      /\ UNCHANGED <<price, target, events>>

PriceMoves(i, p) ==
  /\ Event
  /\ price' = [price EXCEPT ![i] = p]
  /\ UNCHANGED <<qty, money, target, plan>>

\* What the broker says may be sold: all of it, less, or more than the snapshot has.
Answers ==
  {[i \in {} |-> 0]} \cup {[i \in Instruments |-> Max({0, qty[i] + d})] : d \in {-1, 0, 1}}

Calculates == target # NoTarget /\ \E s \in Stored : \E answer \in Answers : Calculate(s, answer)
Trades == \E n \in 1..(StartMoney + 1) : Trade(n)

Next ==
  \/ \E weight \in Weights, equal \in SUBSET Securities, managed \in {0, money} :
       ApplyTarget(weight, equal, managed)
  \/ Calculates \/ Trades
  \/ \E i \in Instruments, p \in Prices : PriceMoves(i, p)

Spec == Init /\ [][Next]_vars

TypeOK ==
  /\ qty \in [Instruments -> Nat] /\ price \in [Instruments -> Prices] /\ money \in Nat
  /\ target \in Target \cup {NoTarget} /\ events \in 0..MaxEvents
  /\ plan # NoPlan =>
       plan.basis.target \in Target /\ plan.order \in [Instruments -> Nat]

After == projectAfterOrders(plan.basis, plan.side, plan.order)

\* A buying phase leaves the cash target in place: after every order and its
\* commission the managed cash is still worth its weight of the whole, although
\* the cash is split over classes and instruments and rounded in each.
\* (shadow-plan.use-case.ts: spendableCashMinor; shadow-plan.ts: fundings)
CashIsRetained ==
  plan.status = "PLANNED" /\ plan.side = "BUY" =>
    (After[Cash] - Fees(plan.basis, plan.order)) * Scale
      >= Total(plan.basis) * plan.basis.target.weight[Cash]

\* Buying stops at the edge of the band: only a class below its range grows, and
\* all the orders of its instruments together do not take it a won further than
\* the first amount inside the range.
\* (rebalance.ts: desiredBandEdgeValue, roundKrOrder; shadow-plan.ts: the phases)
BuysStopAtTheEdge ==
  plan.status = "PLANNED" /\ plan.side = "BUY" =>
    \A c \in Securities : After[c] > ClassValue(plan.basis, c) =>
      (After[c] - 1) * Scale < Lower(plan.basis.target.weight[c]) * Total(plan.basis)

\* Rounding loses and invents nothing: the points of every class add up to the
\* whole, or the next plan would refuse the target, and the desired values of a
\* class's instruments add up to the desired value of the class.
\* (within-asset-allocation.ts; shadow-plan.ts: allocateDesiredInstrumentValues)
PointsAddUp ==
  /\ target # NoTarget =>
       \A c \in Securities : Members(c) # {} => SumFunctionOnSet(target.within, Members(c)) = Scale
  /\ plan.status \in {"PLANNED", "NO_ACTION"} =>
       \A c \in Securities :
         SumFunctionOnSet(plan.desired, Members(c)) = DesiredClass(plan.basis, c)

\* Once prices and target stay as they are, planning and trading come to an end:
\* the account is not churned back and forth between selling and buying phases.
\* (the cycle of shadow-plan.use-case.ts and orders.service.ts)
Settles == <>[][qty' = qty]_vars

\* What a collection stores as VERIFIED is fit to be planned: the planner never
\* finds a value that does not follow from quantity and quote, or points that do not
\* add up, and misses a price at most of an instrument that is not held.
\* (normalizeHolding, canonicalPriceSnapshots; validateAndNormalizeInput)
VerifiedIsPlannable ==
  plan # NoPlan =>
    /\ plan.reasons \cap {"INSTRUMENT_VALUE_MISMATCH", "WITHIN_ASSET_ALLOCATION_INVALID"} = {}
    /\ "PRICE_MISSING_OR_INVALID" \in plan.reasons =>
         \E i \in Instruments : plan.basis.price[i] = Null /\ qty[i] = 0

\* A plan counts every share of the account and no other, however the broker lists
\* them: an instrument told in two lots, or one of another market, never becomes a
\* plan on part of the holdings or on a total that is not its own.
\* (canonicalHoldingSnapshots; buildPlanInput)
PlansCountEveryShare ==
  plan # NoPlan => plan.basis.qty = qty /\ plan.basis.total = Total(plan.basis)

\* A need to sell that is too small to be an order stays as residual drift; it
\* does not block the orders of the other instruments, unless the broker's
\* sellable quantities could not be read.  (docs/SPEC.md:341)
ResidualSellsDoNotBlock ==
  plan # NoPlan => (plan.reasons = {"SELLABLE_QUANTITY_MISSING"} => ~plan.answered)

=============================================================================
