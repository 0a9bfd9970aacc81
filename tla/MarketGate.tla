----------------------------- MODULE MarketGate -----------------------------
(***************************************************************************)
(* One LIVE execution and the clock: the evidence is gathered in a dozen   *)
(* awaited steps, each piece with a time of its own, is judged once, and   *)
(* the verdict travels through four stored rows to the dispatch claim,     *)
(* the last row before the broker is called.  Every time in this module is *)
(* a time of the engine's clock, which the database is taken to share.     *)
(*                                                                         *)
(* LiveOrder has the same steps without the clock, against the other       *)
(* operations on the order; here only time passes between them.            *)
(***************************************************************************)
EXTENDS Integers

CONSTANTS
  NoTime,            \* a time the broker does not give (null)
  Sides,             \* "BUY", "SELL"
  Quantity, LimitPrice, PlannedPrice, PlannedAt,
  Prices,            \* last prices the broker may quote
  DailyRanges,       \* <<lower, upper>> price limits of the day
  Capacities,        \* buying power, or sellable shares
  Markets,           \* regular sessions: start, end, auctionStart
  Approvals,         \* times at which a manual approval expires
  QuoteAge, CalendarAge, Tolerance,   \* freshness of the operational config
  MaxChange,         \* maxAbsolutePriceChangeBasisPoints, in percent
  FeeBuffer, MinimumOrder, GeneralSingle, GeneralDaily,
  SingleLimit, DailyLimit, TinyLimit,   \* the limits of the first Live orders
  Used, ApprovalTtl,
  Life,              \* 30 seconds: the risk evidence and each authorization
  Slack,             \* 5 seconds: evaluated_at against the database's clock
  Start, MaxTime,    \* bound: the clock
  MaxOdd             \* bound: answers that are out of the ordinary

ASSUME TimesAssumption ==
  /\ {Start, MaxTime, PlannedAt} \cup Approvals \subseteq Int
  /\ {QuoteAge, CalendarAge, Tolerance, Life, Slack} \subseteq Nat
  /\ NoTime \notin Int
ASSUME AmountsAssumption ==
  /\ Sides \subseteq {"BUY", "SELL"}
  /\ {Quantity, LimitPrice, FeeBuffer, DailyLimit, Used} \subseteq Nat
  /\ DailyRanges \subseteq Nat \X Nat /\ Capacities \subseteq Nat
ASSUME MarketsAssumption ==
  \A m \in Markets :
    m.start \in Int /\ m.end \in Int /\ m.auctionStart \in Int \cup {NoTime}

VARIABLES
  now,
  side, market, approvedUntil,   \* the order, the day and the approval
  step,       \* how far the execution has come
  answers,    \* what each read brought; in it, seen is the broker's time
  at,         \* receivedAt of each answer
  odd,        \* answers out of the ordinary so far
  risk,       \* execution_risk_evidence: at, until
  verdict,    \* pre_submit_evidence: at, until, reserved
  authority,  \* order_submission_authorization: until
  permit,     \* the authorization object: issued, until
  claimed     \* claimed_at of the dispatch claim

vars == <<now, side, market, approvedUntil, step, answers, at, odd, risk, verdict,
          authority, permit, claimed>>
given == <<side, market, approvedUntil>>
evidence == <<answers, at, odd>>

None == [at |-> NoTime, until |-> NoTime]
Earliest(times) == CHOOSE t \in times : \A u \in times : t <= u

-----------------------------------------------------------------------------
(* The answers of the broker *)

Reads == {"quote", "limit", "calendar", "capacity", "stocks", "warnings",
          "orders"}

\* The sequence of the awaited reads.
Following ==
  [quote |-> "limit", limit |-> "calendar", calendar |-> "capacity",
   capacity |-> "stocks", stocks |-> "warnings", warnings |-> "orders",
   orders |-> "decide"]

Ordinary(kind) ==
  CASE kind = "quote"    -> [price : {PlannedPrice}, seen : now - 1 .. now]
    [] kind = "limit"    -> [range : DailyRanges, seen : now - 1 .. now]
    [] kind = "calendar" -> [today : {TRUE}]
    [] kind = "capacity" -> [amount : Capacities]
    [] kind = "orders"   -> [open : {FALSE}]
    [] OTHER             -> [clear : {TRUE}]

\* A price that has moved; no time of observation, or one ahead of the engine's
\* clock; a calendar of another day; an open order or a restriction.
Unusual(kind) ==
  CASE kind = "quote"    -> [price : Prices, seen : {NoTime} \cup (now - 1 .. now + 2)]
    [] kind = "limit"    -> [range : DailyRanges, seen : {now + 1}]
    [] kind = "calendar" -> [today : {FALSE}]
    [] kind = "orders"   -> [open : {TRUE}]
    [] kind = "capacity" -> {}
    [] OTHER             -> [clear : {FALSE}]

-----------------------------------------------------------------------------
(* What is still worth how long *)

\* The broker's time of observation or the engine's time of receipt.
Oldest(read) == IF answers[read].seen < at[read] THEN answers[read].seen
                                                 ELSE at[read]

evaluateQuoteFreshness(read) ==
  /\ answers[read].seen # NoTime
  /\ answers[read].seen - now <= Tolerance
  /\ answers[read].seen - at[read] <= Tolerance
  /\ now - Oldest(read) <= QuoteAge

AgeSinceReceipt(read) == at[read] + QuoteAge
evidenceValidUntil(read) == Oldest(read) + QuoteAge

evaluateTimedEvidence(read) == now - at[read] <= QuoteAge

\* The broker gives a regular session the start of its closing auction, or no
\* auction at all; the auction lasts until the session ends.
HasAuction == market.auctionStart # NoTime
InAuction(t) == HasAuction /\ market.auctionStart <= t /\ t < market.end

classifyMarketCalendarReadiness ==
  /\ now - at["calendar"] <= CalendarAge
  /\ answers["calendar"].today
  /\ market.start <= now /\ now < market.end
  /\ HasAuction /\ ~InAuction(now)

SessionEnd == market.end
marketSessionValidUntil ==
  IF HasAuction /\ now < market.auctionStart
    THEN Earliest({market.end, market.auctionStart})
    ELSE market.end

\* The current quote is later than the plan's, and not too far from it.
evaluatePriceMovement ==
  LET price == answers["quote"].price
      change == IF price > PlannedPrice THEN price - PlannedPrice
                                        ELSE PlannedPrice - price
  IN /\ answers["quote"].seen > PlannedAt
     /\ change * 100 <= MaxChange * PlannedPrice

-----------------------------------------------------------------------------
(* What the order may cost *)

Planned == Quantity * LimitPrice

\* A sell may be filled above its limit, up to the day's upper price.
ReservedAtLimit(upper) == Quantity * LimitPrice
calculateOrderGrossReservation(upper) ==
  Quantity * (IF side = "SELL" THEN upper ELSE LimitPrice)

evaluateDirectionalPretrade(amount) ==
  amount >= IF side = "BUY" THEN Planned + FeeBuffer ELSE Quantity

evaluateTradeNotionalLimits(single, daily) ==
  single <= daily /\ Planned <= single /\ Used + Planned <= daily

evaluateExecutableOrderSet == Planned >= MinimumOrder
evaluateGeneralTradeLimits == evaluateTradeNotionalLimits(GeneralSingle, GeneralDaily)
evaluateLiveTradeLimits == evaluateTradeNotionalLimits(SingleLimit, DailyLimit)
evaluateTinyLiveLimit == Planned <= TinyLimit
evaluateManualApproval == now < ApprovalTtl

\* As far as it looks at amounts and times; LiveOrder has the other orders
\* and the kill switch.
evaluateExecutionRiskGate ==
  /\ evaluateExecutableOrderSet /\ evaluateGeneralTradeLimits
  /\ evaluateLiveTradeLimits /\ evaluateTinyLiveLimit
  /\ evaluateManualApproval

-----------------------------------------------------------------------------
NoAnswers == [r \in Reads |-> None]
NoTimes == [r \in Reads |-> NoTime]

Init ==
  /\ now = Start
  /\ side \in Sides /\ market \in Markets /\ approvedUntil \in Approvals
  /\ step = "risk"
  /\ answers = NoAnswers /\ at = NoTimes /\ odd = 0
  /\ risk = None /\ verdict = None /\ authority = None /\ permit = None
  /\ claimed = NoTime

\* The request fails; what it has read is gone with it.
Refuse ==
  /\ step' = "refused"
  /\ answers' = NoAnswers /\ at' = NoTimes /\ odd' = 0
  /\ UNCHANGED <<now, given, risk, verdict, authority, permit, claimed>>

\* The verdict on the plan holds for thirty seconds, and not longer than the
\* approval.
EvaluateRisk ==
  /\ step = "risk"
  /\ LET until == Earliest({now + Life, approvedUntil})
     IN IF evaluateExecutionRiskGate /\ now < until
          THEN /\ step' = "record risk"
               /\ risk' = [at |-> now, until |-> until]
               /\ UNCHANGED <<now, given, evidence, verdict, authority,
                              permit, claimed>>
          ELSE Refuse

\* guard_execution_risk_evidence
RiskIsStored == now - risk.at <= Slack /\ now < risk.until

appendExecutionRiskEvidence ==
  /\ step = "record risk"
  /\ IF RiskIsStored
       THEN /\ step' = "quote"
            /\ UNCHANGED <<now, given, evidence, risk, verdict, authority,
                           permit, claimed>>
       ELSE Refuse

\* One read of the sequence, in the order of executeLive's awaits.
Read ==
  /\ step \in Reads
  /\ \/ /\ \E a \in Ordinary(step) : answers' = [answers EXCEPT ![step] = a]
        /\ odd' = odd
     \/ /\ odd < MaxOdd
        /\ \E a \in Unusual(step) : answers' = [answers EXCEPT ![step] = a]
        /\ odd' = odd + 1
  /\ at' = [at EXCEPT ![step] = now]
  /\ step' = Following[step]
  /\ UNCHANGED <<now, given, risk, verdict, authority, permit, claimed>>

Clear == answers["stocks"].clear /\ answers["warnings"].clear

OrderInsidePriceLimits ==
  LET range == answers["limit"].range
  IN range[1] <= LimitPrice /\ LimitPrice <= range[2]

canSubmit ==
  /\ evaluateQuoteFreshness("quote") /\ evaluatePriceMovement
  /\ evaluateQuoteFreshness("limit") /\ OrderInsidePriceLimits
  /\ classifyMarketCalendarReadiness
  /\ evaluateTimedEvidence("warnings") /\ Clear
  /\ evaluateTimedEvidence("orders") /\ ~answers["orders"].open
  /\ evaluateTimedEvidence("capacity")
  /\ evaluateDirectionalPretrade(answers["capacity"].amount)

\* The verdict lasts as long as the piece of evidence that ages first, and as
\* continuous trading does.
validUntil ==
  Earliest({evidenceValidUntil("quote"), evidenceValidUntil("limit"),
            at["calendar"] + CalendarAge, marketSessionValidUntil,
            at["warnings"] + QuoteAge, at["orders"] + QuoteAge,
            at["capacity"] + QuoteAge})

\* evaluatePreSubmitOrderEvidence.
Decide ==
  /\ step = "decide"
  /\ IF canSubmit
       THEN /\ verdict' = [at |-> now, until |-> validUntil, reserved |->
                 calculateOrderGrossReservation(answers["limit"].range[2])]
            /\ step' = "ledger"
            /\ UNCHANGED <<now, given, evidence, risk, authority, permit,
                           claimed>>
       ELSE Refuse

\* guard_pre_submit_evidence
VerdictIsStored ==
  risk.until > verdict.at /\ now - verdict.at <= Slack /\ now < verdict.until

\* The day's budget, of which the ledger row takes its reservation.
BudgetSuffices == Used + verdict.reserved <= DailyLimit

createLivePreSubmitEvidenceAndLedger ==
  /\ step = "ledger"
  /\ IF VerdictIsStored /\ BudgetSuffices
       THEN /\ step' = "compose"
            /\ UNCHANGED <<now, given, evidence, risk, verdict, authority,
                           permit, claimed>>
       ELSE Refuse

\* Both verdicts become one, which lasts as long as both do ...
BothUntil == Earliest({risk.until, verdict.until})

\* ... and the authorization to be stored is made from it.
composeLiveSubmitRiskDecision ==
  /\ step = "compose"
  /\ LET until == BothUntil
     IN IF now < until
          THEN /\ authority' = [until |-> Earliest({now + Life, until})]
               /\ step' = "authorize"
               /\ UNCHANGED <<now, given, evidence, risk, verdict, permit,
                              claimed>>
          ELSE Refuse

\* guard_order_submission_authorization, as far as it looks at the time.
MayAuthorize ==
  /\ now < Earliest({risk.until, verdict.until, approvedUntil})
  /\ now < authority.until
  /\ authority.until <= Earliest({risk.until, verdict.until, approvedUntil})

prepareLiveSubmission ==
  /\ step = "authorize"
  /\ IF MayAuthorize
       THEN /\ step' = "issue"
            /\ UNCHANGED <<now, given, evidence, risk, verdict, authority,
                           permit, claimed>>
       ELSE Refuse

\* The authorization object of the process: thirty seconds, or less, and no
\* longer than the verdict it carries.
validateCommonAuthorization(until) ==
  now < until /\ until - now <= Life /\ now < BothUntil /\ until <= BothUntil

issueLiveOrderSubmitAuthorization ==
  /\ step = "issue"
  /\ LET until == Earliest({authority.until, now + Life})
     IN IF validateCommonAuthorization(until)
          THEN /\ permit' = [issued |-> now, until |-> until]
               /\ step' = "consume"
               /\ UNCHANGED <<now, given, evidence, risk, verdict,
                              authority, claimed>>
          ELSE Refuse

consumeLiveOrderAuthorization ==
  /\ step = "consume"
  /\ IF now < permit.until /\ now < BothUntil
       THEN /\ step' = "claim"
            /\ UNCHANGED <<now, given, evidence, risk, verdict, authority,
                           permit, claimed>>
       ELSE Refuse

\* guard_order_dispatch_claim, as far as it looks at the time.
StillAuthorized == authority # None
Unexpired ==
  now < Earliest({authority.until, risk.until, verdict.until, permit.until})

claimLiveDispatch ==
  /\ step = "claim"
  /\ IF Unexpired
       THEN /\ claimed' = now
            /\ step' = "claimed"
            /\ UNCHANGED <<now, given, evidence, risk, verdict, authority,
                           permit>>
       ELSE Refuse

Tick ==
  /\ now < MaxTime
  /\ step \notin {"refused", "claimed"}
  /\ now' = now + 1
  /\ UNCHANGED <<given, step, evidence, risk, verdict, authority, permit,
                 claimed>>

Next ==
  \/ EvaluateRisk \/ appendExecutionRiskEvidence
  \/ Read
  \/ Decide
  \/ createLivePreSubmitEvidenceAndLedger
  \/ composeLiveSubmitRiskDecision \/ prepareLiveSubmission
  \/ issueLiveOrderSubmitAuthorization \/ consumeLiveOrderAuthorization
  \/ claimLiveDispatch
  \/ Tick

Spec == Init /\ [][Next]_vars

-----------------------------------------------------------------------------
Claimed == claimed # NoTime

\* When an order is claimed for dispatch, every answer it rests on is younger
\* than the configured age, by the broker's time of observation and by the
\* engine's time of receipt: also the listing of the instrument, whose age no
\* check looks at (orders.service.ts:1105 reads it after the quote), and
\* although a dozen awaits lie between the judgement and the claim.
ClaimedOnFreshEvidence ==
  Claimed =>
    /\ \A r \in {"quote", "limit"} : claimed - Oldest(r) < QuoteAge
    /\ \A r \in {"capacity", "stocks", "warnings", "orders"} :
         claimed - at[r] < QuoteAge
    /\ claimed - at["calendar"] < CalendarAge
    /\ claimed - risk.at < Life

\* The market is then in continuous trading: an auction that begins after the
\* calendar was judged stops the order, although neither the database nor the
\* authorization knows of auctions (pre-submit-evidence.ts:436).
ClaimedInContinuousTrading ==
  Claimed =>
    /\ market.start <= claimed /\ claimed < market.end
    /\ ~InAuction(claimed)

\* The operator's approval is still in force, although the claim does not read
\* it again (guard_order_dispatch_claim): the authorization has been cut to its end.
ClaimedUnderApproval == Claimed => claimed < approvedUntil

\* Whatever price of the day the order is filled at, what was reserved covers
\* it, the day's budget too, and a buy leaves the buying power its fees.
ClaimCoversEveryFill ==
  LET range == answers["limit"].range
      Fills == IF side = "BUY" THEN range[1]..LimitPrice ELSE LimitPrice..range[2]
  IN Claimed =>
       \A price \in Fills :
         /\ Quantity * price <= verdict.reserved
         /\ Used + Quantity * price <= DailyLimit
         /\ side = "BUY" =>
              Quantity * price + FeeBuffer <= answers["capacity"].amount
=============================================================================
