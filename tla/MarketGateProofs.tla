-------------------------- MODULE MarketGateProofs --------------------------
(***************************************************************************)
(* What a LIVE order is claimed under, proved for any ages, sessions,      *)
(* approvals and delays between the steps.  The argument: each time limit  *)
(* is at most every limit it was made from, the claim is earlier than the  *)
(* stored ones, and what they were made from does not change after the     *)
(* judgement.                                                              *)
(***************************************************************************)
EXTENDS MarketGate, TLAPS

Judged == {"ledger", "compose", "authorize", "issue", "consume", "claim", "claimed"}
Steps == {"risk", "record risk", "decide", "refused"} \cup Reads \cup Judged

\* The steps at which a read lies behind.
Since ==
  [quote    |-> {"limit", "calendar", "capacity", "stocks", "warnings", "orders",
                 "decide"} \cup Judged,
   limit    |-> {"calendar", "capacity", "stocks", "warnings", "orders", "decide"}
                \cup Judged,
   calendar |-> {"capacity", "stocks", "warnings", "orders", "decide"} \cup Judged,
   capacity |-> {"stocks", "warnings", "orders", "decide"} \cup Judged,
   stocks   |-> {"warnings", "orders", "decide"} \cup Judged,
   warnings |-> {"orders", "decide"} \cup Judged,
   orders   |-> {"decide"} \cup Judged]

TimesInv ==
  /\ now \in Int /\ step \in Steps
  /\ approvedUntil \in Int /\ market \in Markets
  /\ at \in [Reads -> Int \cup {NoTime}] /\ DOMAIN answers = Reads

\* An answer received lies in the past; the quote came before the listing.
ReadsInv ==
  /\ \A r \in Reads : step \in Since[r] => at[r] \in Int /\ at[r] <= now
  /\ \A r \in {"quote", "limit"} :
       step \in Since[r] => answers[r].seen \in Int \cup {NoTime}
  /\ step \in Since["stocks"] => at["quote"] <= at["stocks"]

RiskInv ==
  step \notin {"risk", "refused"} =>
    /\ risk.at \in Int /\ risk.until \in Int
    /\ risk.until <= risk.at + Life /\ risk.until <= approvedUntil

\* The verdict ends with the first of its grounds.
VerdictInv ==
  step \in Judged =>
    /\ verdict.at \in Int /\ verdict.at <= now /\ market.start <= verdict.at
    /\ verdict.until \in Int
    /\ \A r \in {"quote", "limit"} :
         answers[r].seen \in Int /\ verdict.until <= Oldest(r) + QuoteAge
    /\ verdict.until <= at["calendar"] + CalendarAge
    /\ \A r \in {"capacity", "warnings", "orders"} :
         verdict.until <= at[r] + QuoteAge
    /\ HasAuction /\ verdict.until <= market.end
    /\ verdict.until <= market.auctionStart

\* The two limits the claim is compared with beside the verdicts'.
LimitsInv ==
  /\ step \in {"authorize", "issue", "consume", "claim", "claimed"} =>
       authority.until \in Int
  /\ step \in {"consume", "claim", "claimed"} => permit.until \in Int

ClaimInv ==
  /\ step # "claimed" => claimed = NoTime
  /\ step = "claimed" =>
       /\ claimed \in Int /\ verdict.at <= claimed
       /\ claimed < risk.until /\ claimed < verdict.until

GateInv == TimesInv /\ ReadsInv /\ RiskInv /\ VerdictInv /\ LimitsInv
           /\ ClaimInv

-----------------------------------------------------------------------------
(* The earliest of some times *)

HasEarliest(times) == \E t \in times : \A u \in times : t <= u

LEMMA EarliestOfOneMore ==
  ASSUME NEW times \in SUBSET Int, HasEarliest(times), NEW more \in Int
  PROVE  HasEarliest(times \cup {more})
<1>1. PICK t \in times : \A u \in times : t <= u
  BY DEF HasEarliest
<1>2. CASE t <= more
  BY <1>1, <1>2 DEF HasEarliest
<1>3. CASE more < t
  <2>1. \A u \in times \cup {more} : more <= u
    BY <1>1, <1>3
  <2> QED
    BY <2>1 DEF HasEarliest
<1> QED
  BY <1>1, <1>2, <1>3

LEMMA EarliestIsEarliest ==
  ASSUME NEW times \in SUBSET Int, HasEarliest(times)
  PROVE  Earliest(times) \in times /\ \A u \in times : Earliest(times) <= u
BY DEF HasEarliest, Earliest

LEMMA EarliestOfTwo ==
  ASSUME NEW a \in Int, NEW b \in Int
  PROVE  Earliest({a, b}) \in Int /\ Earliest({a, b}) <= a /\ Earliest({a, b}) <= b
<1>1. HasEarliest({a, b})
  BY DEF HasEarliest
<1> QED
  BY <1>1, EarliestIsEarliest

LEMMA EarliestOfFour ==
  ASSUME NEW a \in Int, NEW b \in Int, NEW c \in Int, NEW d \in Int
  PROVE  Earliest({a, b, c, d}) \in Int
         /\ \A u \in {a, b, c, d} : Earliest({a, b, c, d}) <= u
<1>1. HasEarliest({a, b})
  BY DEF HasEarliest
<1>2. HasEarliest({a, b} \cup {c})
  BY <1>1, EarliestOfOneMore
<1>3. HasEarliest(({a, b} \cup {c}) \cup {d})
  BY <1>2, EarliestOfOneMore
<1>4. ({a, b} \cup {c}) \cup {d} = {a, b, c, d}
  OBVIOUS
<1> QED
  BY <1>3, <1>4, EarliestIsEarliest

LEMMA EarliestOfSeven ==
  ASSUME NEW a \in Int, NEW b \in Int, NEW c \in Int, NEW d \in Int,
         NEW e \in Int, NEW f \in Int, NEW g \in Int
  PROVE  LET times == {a, b, c, d, e, f, g}
         IN Earliest(times) \in Int /\ \A u \in times : Earliest(times) <= u
<1>1. HasEarliest({a, b, c, d})
  <2>1. HasEarliest({a, b})
    BY DEF HasEarliest
  <2>2. HasEarliest({a, b} \cup {c})
    BY <2>1, EarliestOfOneMore
  <2>3. HasEarliest(({a, b} \cup {c}) \cup {d})
    BY <2>2, EarliestOfOneMore
  <2>4. ({a, b} \cup {c}) \cup {d} = {a, b, c, d}
    OBVIOUS
  <2> QED
    BY <2>3, <2>4
<1>2. HasEarliest({a, b, c, d} \cup {e})
  BY <1>1, EarliestOfOneMore
<1>3. HasEarliest(({a, b, c, d} \cup {e}) \cup {f})
  BY <1>2, EarliestOfOneMore
<1>4. HasEarliest((({a, b, c, d} \cup {e}) \cup {f}) \cup {g})
  BY <1>3, EarliestOfOneMore
<1>5. (({a, b, c, d} \cup {e}) \cup {f}) \cup {g} = {a, b, c, d, e, f, g}
  OBVIOUS
<1>6. HasEarliest({a, b, c, d, e, f, g})
  BY <1>4, <1>5
<1> QED
  BY <1>6, EarliestIsEarliest

-----------------------------------------------------------------------------
(* The invariant *)

\* No read lies behind before the first one or after a refusal, and all of
\* them do after the judgement.
LEMMA SinceWhen ==
  \A r \in Reads :
    /\ Judged \subseteq Since[r]
    /\ {"risk", "record risk", "quote", "refused"} \cap Since[r] = {}
<1> SUFFICES ASSUME NEW r \in Reads
             PROVE  /\ Judged \subseteq Since[r]
                    /\ {"risk", "record risk", "quote", "refused"} \cap Since[r] = {}
  OBVIOUS
<1>1. CASE r = "quote"
  BY <1>1 DEF Since, Judged
<1>2. CASE r = "limit"
  BY <1>2 DEF Since, Judged
<1>3. CASE r = "calendar"
  BY <1>3 DEF Since, Judged
<1>4. CASE r = "capacity"
  BY <1>4 DEF Since, Judged
<1>5. CASE r = "stocks"
  BY <1>5 DEF Since, Judged
<1>6. CASE r = "warnings"
  BY <1>6 DEF Since, Judged
<1>7. CASE r = "orders"
  BY <1>7 DEF Since, Judged
<1> QED
  BY <1>1, <1>2, <1>3, <1>4, <1>5, <1>6, <1>7 DEF Reads

LEMMA GateInit == Init => GateInv
BY TimesAssumption, MarketsAssumption
   DEF Init, GateInv, TimesInv, ReadsInv, RiskInv, VerdictInv, LimitsInv, ClaimInv, Steps,
       Since, Judged, Reads, NoAnswers, NoTimes, None

LEMMA RefuseKeeps ==
  ASSUME GateInv, claimed = NoTime, Refuse
  PROVE  GateInv'
<1>1. TimesInv'
  BY DEF Refuse, given, GateInv, TimesInv, Steps, NoAnswers, NoTimes
<1>2. ReadsInv'
  <2>1. step' = "refused" /\ "stocks" \in Reads /\ {"quote", "limit"} \subseteq Reads
    BY DEF Refuse, Reads
  <2> QED
    BY <2>1, SinceWhen DEF ReadsInv
<1>3. RiskInv' /\ VerdictInv' /\ LimitsInv' /\ ClaimInv'
  BY DEF Refuse, RiskInv, VerdictInv, LimitsInv, ClaimInv, Judged
<1> QED
  BY <1>1, <1>2, <1>3 DEF GateInv

\* Between the judgement and the claim, and before the reads, a step that only
\* goes on changes nothing the invariant speaks of.
LEMMA GoingOnKeeps ==
  ASSUME GateInv,
         \/ step = "record risk" /\ step' = "quote"
         \/ step \in Judged \ {"claimed"} /\ step' \in Judged \ {"claimed"},
         UNCHANGED <<now, market, approvedUntil, answers, at, risk, verdict, claimed>>,
         LimitsInv'
  PROVE  GateInv'
<1>1. TimesInv'
  BY DEF GateInv, TimesInv, Steps, Reads
<1>2. ReadsInv'
  <2>1. "stocks" \in Reads /\ {"quote", "limit"} \subseteq Reads
    BY DEF Reads
  <2>2. CASE step' = "quote"
    BY <2>1, <2>2, SinceWhen DEF ReadsInv
  <2>3. CASE step \in Judged /\ step' \in Judged
    BY <2>1, <2>3, SinceWhen DEF GateInv, ReadsInv
  <2> QED
    BY <2>2, <2>3
<1>3. RiskInv'
  BY DEF GateInv, RiskInv, Judged
<1>4. VerdictInv'
  BY DEF GateInv, VerdictInv, Judged, Oldest, HasAuction
<1>5. ClaimInv'
  BY DEF GateInv, ClaimInv, Judged
<1> QED
  BY <1>1, <1>2, <1>3, <1>4, <1>5 DEF GateInv

LEMMA EvaluateRiskKeeps ==
  ASSUME GateInv, EvaluateRisk
  PROVE  GateInv'
<1> DEFINE until == Earliest({now + Life, approvedUntil})
<1>1. until \in Int /\ until <= now + Life /\ until <= approvedUntil
  <2>1. now + Life \in Int /\ approvedUntil \in Int
    BY TimesAssumption DEF GateInv, TimesInv
  <2> QED
    BY <2>1, EarliestOfTwo
<1>2. CASE Refuse
  BY <1>2, RefuseKeeps DEF EvaluateRisk, GateInv, ClaimInv
<1>3. CASE /\ step = "risk" /\ step' = "record risk"
           /\ risk' = [at |-> now, until |-> until]
           /\ UNCHANGED <<now, given, evidence, verdict, claimed>>
  <2>1. TimesInv' /\ LimitsInv' /\ ClaimInv'
    BY <1>3 DEF given, evidence, GateInv, TimesInv, LimitsInv, ClaimInv, Steps
  <2>2. ReadsInv'
    <3>1. "stocks" \in Reads /\ {"quote", "limit"} \subseteq Reads
      BY DEF Reads
    <3> QED
      BY <1>3, <3>1, SinceWhen DEF ReadsInv
  <2>3. RiskInv'
    BY <1>1, <1>3 DEF given, GateInv, TimesInv, RiskInv
  <2>4. VerdictInv'
    BY <1>3 DEF VerdictInv, Judged
  <2> QED
    BY <2>1, <2>2, <2>3, <2>4 DEF GateInv
<1> QED
  BY <1>2, <1>3 DEF EvaluateRisk

\* What a read may bring.
LEMMA AnswersAreTimed ==
  ASSUME NEW r \in {"quote", "limit"}, now \in Int, NEW a \in Ordinary(r) \cup Unusual(r)
  PROVE  a.seen \in Int \cup {NoTime}
<1>1. CASE r = "quote"
  BY <1>1 DEF Ordinary, Unusual
<1>2. CASE r = "limit"
  BY <1>2 DEF Ordinary, Unusual
<1> QED
  BY <1>1, <1>2

\* After a read it lies behind, as do those before it.
LEMMA FollowingSince ==
  ASSUME NEW s \in Reads
  PROVE  /\ Following[s] \in Steps \ (Judged \cup {"risk", "record risk", "refused"})
         /\ \A r \in Reads : Following[s] \in Since[r] => r = s \/ s \in Since[r]
<1>1. Following[s] \in Steps \ (Judged \cup {"risk", "record risk", "refused"})
  <2>1. Following[s] \in (Reads \ {"quote"}) \cup {"decide"}
    BY DEF Following, Reads
  <2> QED
    BY <2>1 DEF Steps, Reads, Judged
<1>2. ASSUME NEW r \in Reads, Following[s] \in Since[r], r # s
      PROVE  s \in Since[r]
  <2>1. CASE r = "quote"
    BY <1>2, <2>1 DEF Following, Since, Reads, Judged
  <2>2. CASE r = "limit"
    BY <1>2, <2>2 DEF Following, Since, Reads, Judged
  <2>3. CASE r = "calendar"
    BY <1>2, <2>3 DEF Following, Since, Reads, Judged
  <2>4. CASE r = "capacity"
    BY <1>2, <2>4 DEF Following, Since, Reads, Judged
  <2>5. CASE r = "stocks"
    BY <1>2, <2>5 DEF Following, Since, Reads, Judged
  <2>6. CASE r = "warnings"
    BY <1>2, <2>6 DEF Following, Since, Reads, Judged
  <2>7. CASE r = "orders"
    BY <1>2, <2>7 DEF Following, Since, Reads, Judged
  <2> QED
    BY <2>1, <2>2, <2>3, <2>4, <2>5, <2>6, <2>7 DEF Reads
<1> QED
  BY <1>1, <1>2

LEMMA ReadKeeps ==
  ASSUME GateInv, Read
  PROVE  GateInv'
<1>1. /\ step \in Reads /\ step' = Following[step] /\ now \in Int
      /\ at' = [at EXCEPT ![step] = now] /\ at \in [Reads -> Int \cup {NoTime}]
  BY DEF Read, GateInv, TimesInv
<1>2. PICK a \in Ordinary(step) \cup Unusual(step) : answers' = [answers EXCEPT ![step] = a]
  BY DEF Read
<1>3. TimesInv'
  BY <1>1, <1>2, FollowingSince DEF Read, given, GateInv, TimesInv
<1>4. ReadsInv'
  <2>1. ASSUME NEW r \in Reads, step' \in Since[r]
        PROVE  at'[r] \in Int /\ at'[r] <= now'
    <3>1. CASE r = step
      BY <1>1, <3>1 DEF Read
    <3>2. CASE r # step
      BY <1>1, <2>1, <3>2, FollowingSince DEF Read, GateInv, ReadsInv
    <3> QED
      BY <3>1, <3>2
  <2>2. ASSUME NEW r \in {"quote", "limit"}, step' \in Since[r]
        PROVE  answers'[r].seen \in Int \cup {NoTime}
    <3>1. r \in Reads /\ DOMAIN answers = Reads
      BY DEF Reads, GateInv, TimesInv
    <3>2. CASE r = step
      BY <1>1, <1>2, <3>1, <3>2, AnswersAreTimed
    <3>3. CASE r # step
      BY <1>1, <1>2, <2>2, <3>1, <3>3, FollowingSince DEF GateInv, ReadsInv
    <3> QED
      BY <3>2, <3>3
  <2>3. ASSUME step' \in Since["stocks"]
        PROVE  at'["quote"] <= at'["stocks"]
    <3>1. {"quote", "stocks"} \subseteq Reads /\ "stocks" \in Since["quote"]
      BY DEF Reads, Since
    <3>2. CASE step = "stocks"
      BY <1>1, <3>1, <3>2 DEF GateInv, ReadsInv
    <3>3. CASE step # "stocks"
      <4>1. step \in Since["stocks"] /\ step # "quote"
        BY <1>1, <2>3, <3>1, <3>3, FollowingSince, SinceWhen
      <4> QED
        BY <1>1, <3>1, <3>3, <4>1 DEF GateInv, ReadsInv
    <3> QED
      BY <3>2, <3>3
  <2> QED
    BY <2>1, <2>2, <2>3 DEF ReadsInv
<1>5. step \notin {"risk", "refused"} /\ step' \notin Judged
  BY <1>1, FollowingSince DEF Reads
<1>6. RiskInv'
  BY <1>5 DEF Read, given, GateInv, RiskInv
<1>7. VerdictInv' /\ LimitsInv' /\ ClaimInv'
  BY <1>5, <1>1 DEF Read, Reads, Judged, GateInv, VerdictInv, LimitsInv, ClaimInv
<1> QED
  BY <1>3, <1>4, <1>6, <1>7 DEF GateInv

-----------------------------------------------------------------------------
(* The judgement *)

\* In continuous trading the session's limit is its end and its auction's start.
LEMMA SessionLimit ==
  ASSUME now \in Int, market \in Markets, HasAuction, ~InAuction(now), now < market.end
  PROVE  /\ marketSessionValidUntil \in Int
         /\ marketSessionValidUntil <= market.end
         /\ marketSessionValidUntil <= market.auctionStart
<1>1. market.end \in Int /\ market.auctionStart \in Int
  BY MarketsAssumption DEF HasAuction
<1>2. now < market.auctionStart
  BY <1>1 DEF InAuction
<1>3. marketSessionValidUntil = Earliest({market.end, market.auctionStart})
  BY <1>2 DEF marketSessionValidUntil
<1> QED
  BY <1>1, <1>3, EarliestOfTwo

LEMMA DecideKeeps ==
  ASSUME GateInv, Decide
  PROVE  GateInv'
<1>1. CASE Refuse
  BY <1>1, RefuseKeeps DEF Decide, GateInv, ClaimInv
<1>2. CASE canSubmit /\ ~Refuse
  <2>1. /\ step = "decide" /\ step' = "ledger"
        /\ verdict'.at = now /\ verdict'.until = validUntil
        /\ UNCHANGED <<now, given, evidence, risk, authority, permit, claimed>>
    BY <1>2 DEF Decide
  <2>2. now \in Int /\ market \in Markets /\ {"quote", "limit"} \subseteq Reads
    BY DEF GateInv, TimesInv, Reads
  <2>3. \A r \in Reads : at[r] \in Int /\ at[r] <= now
    BY <2>1 DEF GateInv, ReadsInv, Since, Reads
  <2>4. \A r \in {"quote", "limit"} : answers[r].seen \in Int
    BY <1>2, <2>1 DEF canSubmit, evaluateQuoteFreshness, GateInv, ReadsInv, Since
  <2>5. \A r \in {"quote", "limit"} : evidenceValidUntil(r) \in Int
    BY <2>2, <2>3, <2>4, TimesAssumption DEF evidenceValidUntil, Oldest
  <2>6. /\ HasAuction /\ market.start <= now
        /\ marketSessionValidUntil \in Int
        /\ marketSessionValidUntil <= market.end
        /\ marketSessionValidUntil <= market.auctionStart
    BY <1>2, <2>2, SessionLimit DEF canSubmit, classifyMarketCalendarReadiness
  <2>7. /\ at["calendar"] + CalendarAge \in Int /\ at["warnings"] + QuoteAge \in Int
        /\ at["orders"] + QuoteAge \in Int /\ at["capacity"] + QuoteAge \in Int
    BY <2>3, TimesAssumption DEF Reads
  <2>8. /\ validUntil \in Int
        /\ \A r \in {"quote", "limit"} : validUntil <= evidenceValidUntil(r)
        /\ validUntil <= at["calendar"] + CalendarAge
        /\ validUntil <= marketSessionValidUntil
        /\ \A r \in {"capacity", "warnings", "orders"} : validUntil <= at[r] + QuoteAge
    BY <2>5, <2>6, <2>7, EarliestOfSeven DEF validUntil
  <2>9. TimesInv' /\ LimitsInv' /\ ClaimInv'
    BY <2>1 DEF given, evidence, GateInv, TimesInv, LimitsInv, ClaimInv, Steps, Judged
  <2>10. ReadsInv'
    BY <2>1, <2>3, <2>4 DEF given, evidence, GateInv, ReadsInv, Since
  <2>11. RiskInv'
    BY <2>1 DEF given, GateInv, RiskInv
  <2>12. VerdictInv'
    <3>1. market.end \in Int /\ market.auctionStart \in Int
      BY <2>2, <2>6, MarketsAssumption DEF HasAuction
    <3>2. HasAuction /\ validUntil <= market.end /\ validUntil <= market.auctionStart
      BY <2>6, <2>8, <3>1
    <3>3. UNCHANGED <<now, market, answers, at>>
      BY <2>1 DEF given, evidence
    <3> QED
      BY <2>1, <2>2, <2>4, <2>6, <2>8, <3>2, <3>3
      DEF VerdictInv, evidenceValidUntil, Oldest, HasAuction
  <2> QED
    BY <2>9, <2>10, <2>11, <2>12 DEF GateInv
<1> QED
  BY <1>1, <1>2 DEF Decide

-----------------------------------------------------------------------------
(* From the judgement to the claim *)

LEMMA ComposeKeeps ==
  ASSUME GateInv, composeLiveSubmitRiskDecision
  PROVE  GateInv'
<1>1. CASE Refuse
  BY <1>1, RefuseKeeps DEF composeLiveSubmitRiskDecision, GateInv, ClaimInv
<1>2. CASE ~Refuse
  <2>1. /\ step = "compose" /\ step' = "authorize"
        /\ authority'.until = Earliest({now + Life, Earliest({risk.until, verdict.until})})
        /\ UNCHANGED <<now, given, evidence, risk, verdict, permit, claimed>>
    BY <1>2 DEF composeLiveSubmitRiskDecision, BothUntil
  <2>2. risk.until \in Int /\ verdict.until \in Int /\ now + Life \in Int
    BY <2>1, TimesAssumption DEF GateInv, TimesInv, RiskInv, VerdictInv, Judged
  <2>3. authority'.until \in Int
    BY <2>1, <2>2, EarliestOfTwo
  <2>4. LimitsInv'
    BY <2>1, <2>3 DEF LimitsInv
  <2> QED
    BY <2>1, <2>4, GoingOnKeeps DEF given, evidence, Judged
<1> QED
  BY <1>1, <1>2

LEMMA IssueKeeps ==
  ASSUME GateInv, issueLiveOrderSubmitAuthorization
  PROVE  GateInv'
<1>1. CASE Refuse
  BY <1>1, RefuseKeeps DEF issueLiveOrderSubmitAuthorization, GateInv, ClaimInv
<1>2. CASE ~Refuse
  <2>1. /\ step = "issue" /\ step' = "consume"
        /\ permit'.until = Earliest({authority.until, now + Life})
        /\ UNCHANGED <<now, given, evidence, risk, verdict, authority, claimed>>
    BY <1>2 DEF issueLiveOrderSubmitAuthorization
  <2>2. authority.until \in Int /\ now + Life \in Int
    BY <2>1, TimesAssumption DEF GateInv, TimesInv, LimitsInv
  <2>3. permit'.until \in Int
    BY <2>1, <2>2, EarliestOfTwo
  <2>4. LimitsInv'
    BY <2>1, <2>2, <2>3 DEF LimitsInv
  <2> QED
    BY <2>1, <2>4, GoingOnKeeps DEF given, evidence, Judged
<1> QED
  BY <1>1, <1>2

LEMMA ClaimKeeps ==
  ASSUME GateInv, claimLiveDispatch
  PROVE  GateInv'
<1>1. CASE Refuse
  BY <1>1, RefuseKeeps DEF claimLiveDispatch, GateInv, ClaimInv
<1>2. CASE ~Refuse
  <2>1. /\ step = "claim" /\ step' = "claimed" /\ Unexpired /\ claimed' = now
        /\ UNCHANGED <<now, given, evidence, risk, verdict, authority, permit>>
    BY <1>2 DEF claimLiveDispatch
  <2>2. /\ now \in Int /\ verdict.at <= now
        /\ {authority.until, risk.until, verdict.until, permit.until} \subseteq Int
    BY <2>1 DEF GateInv, TimesInv, RiskInv, VerdictInv, LimitsInv, Judged
  <2>3. now < risk.until /\ now < verdict.until
    <3> DEFINE first == Earliest({authority.until, risk.until, verdict.until, permit.until})
    <3>1. now < first
      BY <2>1 DEF Unexpired
    <3>2. first \in Int /\ first <= risk.until /\ first <= verdict.until
      BY <2>2, EarliestOfFour
    <3> QED
      BY <2>2, <3>1, <3>2
  <2>4. TimesInv' /\ RiskInv' /\ LimitsInv'
    BY <2>1 DEF given, evidence, GateInv, TimesInv, RiskInv, LimitsInv, Steps, Judged
  <2>5. ReadsInv'
    <3>1. "stocks" \in Reads /\ {"quote", "limit"} \subseteq Reads
      BY DEF Reads
    <3> QED
      BY <2>1, <3>1, SinceWhen DEF given, evidence, GateInv, ReadsInv, Judged
  <2>6. VerdictInv'
    BY <2>1 DEF given, evidence, GateInv, VerdictInv, Judged, Oldest, HasAuction
  <2>7. ClaimInv'
    BY <2>1, <2>2, <2>3 DEF ClaimInv
  <2> QED
    BY <2>4, <2>5, <2>6, <2>7 DEF GateInv
<1> QED
  BY <1>1, <1>2

LEMMA TickKeeps ==
  ASSUME GateInv, Tick
  PROVE  GateInv'
<1>1. /\ now' = now + 1 /\ step # "claimed" /\ now \in Int
      /\ UNCHANGED <<given, step, evidence, risk, verdict, authority, permit, claimed>>
  BY DEF Tick, GateInv, TimesInv
<1>2. TimesInv' /\ RiskInv' /\ LimitsInv' /\ ClaimInv'
  BY <1>1 DEF given, evidence, GateInv, TimesInv, RiskInv, LimitsInv, ClaimInv
<1>3. ReadsInv'
  BY <1>1 DEF given, evidence, GateInv, ReadsInv
<1>4. VerdictInv'
  BY <1>1 DEF given, evidence, GateInv, VerdictInv, Oldest, HasAuction
<1> QED
  BY <1>2, <1>3, <1>4 DEF GateInv

LEMMA GateStep == GateInv /\ [Next]_vars => GateInv'
<1> SUFFICES ASSUME GateInv, [Next]_vars
             PROVE  GateInv'
  OBVIOUS
<1>1. CASE EvaluateRisk
  BY <1>1, EvaluateRiskKeeps
<1>2. CASE Read
  BY <1>2, ReadKeeps
<1>3. CASE Decide
  BY <1>3, DecideKeeps
<1>4. CASE composeLiveSubmitRiskDecision
  BY <1>4, ComposeKeeps
<1>5. CASE issueLiveOrderSubmitAuthorization
  BY <1>5, IssueKeeps
<1>6. CASE claimLiveDispatch
  BY <1>6, ClaimKeeps
<1>7. CASE Tick
  BY <1>7, TickKeeps
<1>8. CASE \/ appendExecutionRiskEvidence \/ createLivePreSubmitEvidenceAndLedger
           \/ prepareLiveSubmission \/ consumeLiveOrderAuthorization
  <2>1. CASE Refuse
    BY <1>8, <2>1, RefuseKeeps
    DEF appendExecutionRiskEvidence, createLivePreSubmitEvidenceAndLedger,
        prepareLiveSubmission, consumeLiveOrderAuthorization, GateInv, ClaimInv
  <2>2. CASE ~Refuse
    <3>1. /\ \/ step = "record risk" /\ step' = "quote"
             \/ step = "ledger" /\ step' = "compose"
             \/ step = "authorize" /\ step' = "issue"
             \/ step = "consume" /\ step' = "claim"
          /\ UNCHANGED <<now, given, evidence, risk, verdict, authority, permit, claimed>>
      BY <1>8, <2>2
      DEF appendExecutionRiskEvidence, createLivePreSubmitEvidenceAndLedger,
          prepareLiveSubmission, consumeLiveOrderAuthorization
    <3>2. LimitsInv'
      BY <3>1 DEF GateInv, LimitsInv
    <3> QED
      BY <3>1, <3>2, GoingOnKeeps DEF given, evidence, Judged
  <2> QED
    BY <2>1, <2>2
<1>9. CASE UNCHANGED vars
  <2>1. TimesInv' /\ ReadsInv'
    BY <1>9 DEF vars, given, evidence, GateInv, TimesInv, ReadsInv
  <2>2. RiskInv' /\ VerdictInv' /\ LimitsInv' /\ ClaimInv'
    BY <1>9 DEF vars, given, evidence, GateInv, RiskInv, VerdictInv, LimitsInv, ClaimInv,
                Oldest, HasAuction
  <2> QED
    BY <2>1, <2>2 DEF GateInv
<1> QED
  BY <1>1, <1>2, <1>3, <1>4, <1>5, <1>6, <1>7, <1>8, <1>9 DEF Next

LEMMA GateAlways == Spec => []GateInv
<1>1. Init => GateInv
  BY GateInit
<1>2. GateInv /\ [Next]_vars => GateInv'
  BY GateStep
<1> QED
  BY <1>1, <1>2, PTL DEF Spec

-----------------------------------------------------------------------------
(* What a claim rests on *)

LEMMA ClaimRests ==
  ASSUME GateInv, Claimed
  PROVE  /\ step = "claimed" /\ claimed \in Int
         /\ verdict.at <= claimed /\ claimed < risk.until /\ claimed < verdict.until
         /\ \A r \in Reads : at[r] \in Int
         /\ {risk.at, risk.until, verdict.at, verdict.until} \subseteq Int
<1>1. step = "claimed"
  BY DEF Claimed, GateInv, ClaimInv
<1>2. \A r \in Reads : at[r] \in Int
  BY <1>1, SinceWhen DEF GateInv, ReadsInv, Judged
<1> QED
  BY <1>1, <1>2 DEF GateInv, ClaimInv, RiskInv, VerdictInv, Judged

\* Every answer a claimed order rests on is younger than the configured age, by
\* the broker's time and by the engine's: the last check before the broker is
\* called reads none of the answers, only limits made from them.
THEOREM FreshTheorem == Spec => []ClaimedOnFreshEvidence
<1>1. GateInv => ClaimedOnFreshEvidence
  <2> SUFFICES ASSUME GateInv, Claimed
               PROVE  ClaimedOnFreshEvidence
    BY DEF ClaimedOnFreshEvidence
  <2>1. /\ step = "claimed" /\ claimed \in Int
        /\ claimed < risk.until /\ claimed < verdict.until
        /\ {risk.at, risk.until, verdict.until} \subseteq Int
    BY ClaimRests
  <2>2. \A r \in Reads : at[r] \in Int
    BY ClaimRests
  <2>3. /\ \A r \in {"quote", "limit"} : answers[r].seen \in Int
        /\ \A r \in {"quote", "limit"} : verdict.until <= Oldest(r) + QuoteAge
        /\ verdict.until <= at["calendar"] + CalendarAge
        /\ \A r \in {"capacity", "warnings", "orders"} : verdict.until <= at[r] + QuoteAge
        /\ risk.until <= risk.at + Life
    BY <2>1 DEF GateInv, VerdictInv, RiskInv, Judged
  <2>4. at["quote"] <= at["stocks"]
    BY <2>1 DEF GateInv, ReadsInv, Since, Judged
  <2>5. \A r \in {"quote", "limit"} :
          Oldest(r) \in Int /\ Oldest(r) <= at[r] /\ claimed - Oldest(r) < QuoteAge
    <3>1. ASSUME NEW r \in {"quote", "limit"}
          PROVE  Oldest(r) \in Int /\ Oldest(r) <= at[r]
      BY <2>2, <2>3 DEF Oldest, Reads
    <3> QED
      BY <2>1, <2>3, <3>1, TimesAssumption
  <2>6. \A r \in {"capacity", "stocks", "warnings", "orders"} : claimed - at[r] < QuoteAge
    <3>1. claimed - at["stocks"] < QuoteAge
      BY <2>1, <2>2, <2>4, <2>5, TimesAssumption DEF Reads
    <3>2. \A r \in {"capacity", "warnings", "orders"} : claimed - at[r] < QuoteAge
      BY <2>1, <2>2, <2>3, TimesAssumption DEF Reads
    <3> QED
      BY <3>1, <3>2
  <2>7. claimed - at["calendar"] < CalendarAge /\ claimed - risk.at < Life
    BY <2>1, <2>2, <2>3, TimesAssumption DEF Reads
  <2> QED
    BY <2>5, <2>6, <2>7 DEF ClaimedOnFreshEvidence
<1> QED
  BY <1>1, GateAlways, PTL

\* A claimed order is claimed in continuous trading: no auction may have begun
\* since the calendar was judged.
THEOREM TradingTheorem == Spec => []ClaimedInContinuousTrading
<1>1. GateInv => ClaimedInContinuousTrading
  <2> SUFFICES ASSUME GateInv, Claimed
               PROVE  ClaimedInContinuousTrading
    BY DEF ClaimedInContinuousTrading
  <2>1. /\ step = "claimed" /\ claimed \in Int /\ verdict.at \in Int
        /\ verdict.at <= claimed /\ claimed < verdict.until /\ verdict.until \in Int
    BY ClaimRests
  <2>2. /\ market.start <= verdict.at /\ HasAuction
        /\ verdict.until <= market.end /\ verdict.until <= market.auctionStart
    BY <2>1 DEF GateInv, VerdictInv, Judged
  <2>3. market.start \in Int /\ market.end \in Int /\ market.auctionStart \in Int
    BY <2>2, MarketsAssumption DEF GateInv, TimesInv, HasAuction
  <2> QED
    BY <2>1, <2>2, <2>3 DEF ClaimedInContinuousTrading, InAuction
<1> QED
  BY <1>1, GateAlways, PTL

\* The operator's approval is in force when the order is claimed.
THEOREM ApprovalTheorem == Spec => []ClaimedUnderApproval
<1>1. GateInv => ClaimedUnderApproval
  <2> SUFFICES ASSUME GateInv, Claimed
               PROVE  claimed < approvedUntil
    BY DEF ClaimedUnderApproval
  <2>1. step = "claimed" /\ claimed \in Int /\ claimed < risk.until /\ risk.until \in Int
    BY ClaimRests
  <2>2. risk.until <= approvedUntil /\ approvedUntil \in Int
    BY <2>1 DEF GateInv, RiskInv, TimesInv
  <2> QED
    BY <2>1, <2>2
<1> QED
  BY <1>1, GateAlways, PTL

-----------------------------------------------------------------------------
(* What a claim may cost *)

\* What was read is what the order was judged and reserved on.
FundsInv ==
  /\ side \in {"BUY", "SELL"}
  /\ step \in Since["limit"] => answers["limit"].range \in Nat \X Nat
  /\ step \in Since["capacity"] => answers["capacity"].amount \in Nat
  /\ step \in Judged =>
       /\ verdict.reserved = calculateOrderGrossReservation(answers["limit"].range[2])
       /\ side = "BUY" => answers["capacity"].amount >= Planned + FeeBuffer
  /\ step \in Judged \ {"ledger"} => Used + verdict.reserved <= DailyLimit

LEMMA FundsInit == Init => FundsInv
BY AmountsAssumption DEF Init, FundsInv, Since, Judged

LEMMA FundsAfterRead ==
  ASSUME GateInv, FundsInv, Read
  PROVE  FundsInv'
<1>1. /\ step \in Reads /\ step' = Following[step] /\ DOMAIN answers = Reads
      /\ {"limit", "capacity"} \subseteq Reads
  BY DEF Read, GateInv, TimesInv, Reads
<1>2. PICK a \in Ordinary(step) \cup Unusual(step) : answers' = [answers EXCEPT ![step] = a]
  BY DEF Read
<1>3. ASSUME step' \in Since["limit"]
      PROVE  answers'["limit"].range \in Nat \X Nat
  <2>1. CASE step = "limit"
    <3>1. a.range \in DailyRanges
      BY <1>2, <2>1 DEF Ordinary, Unusual
    <3> QED
      BY <1>1, <1>2, <2>1, <3>1, AmountsAssumption
  <2>2. CASE step # "limit"
    BY <1>1, <1>2, <1>3, <2>2, FollowingSince DEF FundsInv
  <2> QED
    BY <2>1, <2>2
<1>4. ASSUME step' \in Since["capacity"]
      PROVE  answers'["capacity"].amount \in Nat
  <2>1. CASE step = "capacity"
    <3>1. a.amount \in Capacities
      BY <1>2, <2>1 DEF Ordinary, Unusual
    <3> QED
      BY <1>1, <1>2, <2>1, <3>1, AmountsAssumption
  <2>2. CASE step # "capacity"
    BY <1>1, <1>2, <1>4, <2>2, FollowingSince DEF FundsInv
  <2> QED
    BY <2>1, <2>2
<1>5. step' \notin Judged
  BY <1>1, FollowingSince
<1>6. UNCHANGED side
  BY DEF Read, given
<1> QED
  BY <1>3, <1>4, <1>5, <1>6 DEF FundsInv

LEMMA FundsStep == GateInv /\ FundsInv /\ [Next]_vars => FundsInv'
<1> SUFFICES ASSUME GateInv, FundsInv, [Next]_vars
             PROVE  FundsInv'
  OBVIOUS
<1>1. CASE Refuse
  <2>1. step' = "refused" /\ UNCHANGED side
    BY <1>1 DEF Refuse, given
  <2>2. step' \notin Since["limit"] \cup Since["capacity"] \cup Judged
    BY <2>1 DEF Since, Judged
  <2> QED
    BY <2>1, <2>2 DEF FundsInv
<1>2. CASE Read
  BY <1>2, FundsAfterRead
<1>3. CASE Decide /\ ~Refuse
  BY <1>3 DEF Decide, given, evidence, FundsInv, canSubmit, evaluateDirectionalPretrade,
              calculateOrderGrossReservation, Since, Judged
<1>4. CASE createLivePreSubmitEvidenceAndLedger /\ ~Refuse
  BY <1>4 DEF createLivePreSubmitEvidenceAndLedger, BudgetSuffices, given, evidence, FundsInv,
              calculateOrderGrossReservation, Since, Judged
<1>5. CASE \/ UNCHANGED step
           \/ step = "risk" /\ step' = "record risk"
           \/ step = "record risk" /\ step' = "quote"
           \/ step \in Judged \ {"ledger"} /\ step' \in Judged \ {"ledger"}
  <2>1. CASE UNCHANGED <<side, answers, verdict>>
    BY <1>5, <2>1 DEF FundsInv, calculateOrderGrossReservation, Since, Judged
  <2>2. CASE ~UNCHANGED <<side, answers, verdict>>
    <3>1. (~UNCHANGED vars /\ ~Tick /\ ~EvaluateRisk) \/ Refuse
      BY <2>2 DEF vars, given, evidence, Tick, EvaluateRisk
    <3> QED
      BY <1>1, <1>2, <1>3, <1>4, <2>2, <3>1
      DEF Next, given, evidence, appendExecutionRiskEvidence, prepareLiveSubmission,
          composeLiveSubmitRiskDecision, issueLiveOrderSubmitAuthorization,
          consumeLiveOrderAuthorization, claimLiveDispatch
  <2> QED
    BY <2>1, <2>2
<1> QED
  BY <1>1, <1>2, <1>3, <1>4, <1>5
  DEF Next, vars, EvaluateRisk, appendExecutionRiskEvidence, composeLiveSubmitRiskDecision,
      prepareLiveSubmission, issueLiveOrderSubmitAuthorization,
      consumeLiveOrderAuthorization, claimLiveDispatch, Tick, Judged

LEMMA FundsAlways == Spec => []FundsInv
<1>1. Init => FundsInv
  BY FundsInit
<1>2. GateInv /\ FundsInv /\ [Next]_vars => FundsInv'
  BY FundsStep
<1> QED
  BY <1>1, <1>2, GateAlways, PTL DEF Spec

\* A lower price costs no more.
LEMMA CheaperCostsLess ==
  ASSUME NEW q \in Nat, NEW low \in Int, NEW high \in Int, low <= high
  PROVE  q * low <= q * high
BY SMT

\* What was reserved for a claimed order covers every price of the day it can be
\* filled at, and so does the day's budget; a buy leaves its fees.
THEOREM CoversTheorem == Spec => []ClaimCoversEveryFill
<1>1. GateInv /\ FundsInv => ClaimCoversEveryFill
  <2> DEFINE range == answers["limit"].range
             Fills == IF side = "BUY" THEN range[1]..LimitPrice ELSE LimitPrice..range[2]
  <2> SUFFICES ASSUME GateInv, FundsInv, Claimed, NEW price \in Fills
               PROVE  /\ Quantity * price <= verdict.reserved
                      /\ Used + Quantity * price <= DailyLimit
                      /\ side = "BUY" =>
                           Quantity * price + FeeBuffer <= answers["capacity"].amount
    BY DEF ClaimCoversEveryFill
  <2>1. step \in Judged \ {"ledger"} /\ step \in Since["limit"] /\ step \in Since["capacity"]
    BY ClaimRests DEF Judged, Since
  <2>2. /\ range[1] \in Nat /\ range[2] \in Nat /\ answers["capacity"].amount \in Nat
        /\ verdict.reserved = calculateOrderGrossReservation(range[2])
        /\ side = "BUY" => answers["capacity"].amount >= Planned + FeeBuffer
        /\ Used + verdict.reserved <= DailyLimit
    BY <2>1 DEF FundsInv
  <2>3. {Quantity, LimitPrice, FeeBuffer, DailyLimit, Used} \subseteq Nat
    BY AmountsAssumption
  <2>4. price \in Int /\ price <= IF side = "BUY" THEN LimitPrice ELSE range[2]
    BY <2>2, <2>3
  <2>5. Quantity * price \in Int /\ Quantity * LimitPrice \in Int /\ Quantity * range[2] \in Int
    BY <2>2, <2>3, <2>4
  <2>6. CASE side = "BUY"
    <3>1. Quantity * price <= Quantity * LimitPrice
      BY <2>3, <2>4, <2>6, CheaperCostsLess
    <3>2. verdict.reserved = Quantity * LimitPrice
      BY <2>2, <2>6 DEF calculateOrderGrossReservation
    <3>3. Quantity * LimitPrice + FeeBuffer <= answers["capacity"].amount
      BY <2>2, <2>3, <2>5, <2>6 DEF Planned
    <3> QED
      BY <2>2, <2>3, <2>5, <3>1, <3>2, <3>3
  <2>7. CASE side # "BUY"
    <3>1. Quantity * price <= Quantity * range[2]
      BY <2>2, <2>3, <2>4, <2>7, CheaperCostsLess
    <3>2. verdict.reserved = Quantity * range[2]
      BY <2>2, <2>7 DEF FundsInv, calculateOrderGrossReservation
    <3> QED
      BY <2>2, <2>3, <2>5, <2>7, <3>1, <3>2
  <2> QED
    BY <2>6, <2>7
<1> QED
  BY <1>1, GateAlways, FundsAlways, PTL
=============================================================================
