----------------------------- MODULE TossClient -----------------------------
(***************************************************************************)
(* The engine's client of the Toss API: the token provider that its        *)
(* concurrent calls share, the queue of each rate-limit group, the         *)
(* retry of reads, the audit rows of every attempt, and the writes, which  *)
(* need an authorization that works once.                                  *)
(*                                                                         *)
(* A call is one request of a workflow.  JavaScript runs one callback at a *)
(* time, so a step lasts from one await to the next; the broker, its       *)
(* tokens and the database are on the other side of the awaits.            *)
(***************************************************************************)
EXTENDS Integers, FiniteSets

CONSTANTS
  Calls,          \* calls of the business API
  NoCall,
  Writes,         \* the calls that create or cancel an order
  Lookups,        \* the calls that look orders up for the live order adapter
  Flow,           \* the workflow (workflowType, correlationId) of each call
  Op,             \* its operation
  Group,          \* its rate-limit group
  Authorization,  \* what each write presents: an object, maybe used before
  MaxTokens       \* bound: tokens the broker issues

ASSUME CallsAssumption == NoCall \notin Calls /\ Writes \subseteq Calls
ASSUME CallDataAssumption ==
  /\ Calls \subseteq DOMAIN Flow \cap DOMAIN Op \cap DOMAIN Group
  /\ Writes \subseteq DOMAIN Authorization
  /\ Lookups \subseteq Calls \ Writes
ASSUME MaxTokensAssumption == MaxTokens \in Nat

VARIABLES
  pc,         \* where each call is
  token,      \* the token in its authorization header
  attempt,    \* 1, or 2 after the retry
  reply,      \* the broker's answer to the attempt under way
  outcome,    \* what the call's caller learns
  cached,     \* #cachedToken, while it is not about to expire
  inFlight,   \* the call whose #issueToken the others wait for
  holding,    \* calls whose slot of the queue is not released
  before,     \* calls a queued call waits for
  tail,       \* groupQueueTails: the last call of each group
  consumed,   \* consumedAuthorizations
  lapsed,     \* authorizations past their expiry
  ordinal,    \* ordinalByRequest of each call
  next,       \* nextOrdinalByOperation of each workflow
  rows,       \* broker_request_attempt
  checks,     \* calls with a PASSED broker_response_validation
  valid,      \* the token the broker accepts: the last one it issued
  issued,     \* tokens it has issued
  denied,     \* tokens the client was told are not valid
  disturbed,  \* a token has expired, or another client of the same
              \* credentials has taken a new one
  posts,      \* how often each write went out
  took        \* writes the broker has carried out

callVars == <<pc, token, attempt, reply, outcome>>
providerVars == <<cached, inFlight>>
queueVars == <<holding, before, tail>>
authorityVars == <<consumed, lapsed>>
auditVars == <<ordinal, next, rows, checks>>
brokerVars == <<valid, issued, denied, disturbed, posts, took>>
vars == <<callVars, providerVars, queueVars, authorityVars, auditVars, brokerVars>>

NoToken == 0
Tokens == 1 .. MaxTokens
Authorizations == {Authorization[c] : c \in Writes}
Reads == Calls \ Writes

\* The reads of toss-read-source.adapter.ts, which records what it checks.
SourceReads == Reads \ Lookups

Flows == {Flow[c] : c \in Calls}
TokenOp == "issueOAuth2Token"
Ops == {Op[c] : c \in Calls} \cup {TokenOp}
Groups == {Group[c] : c \in Calls}

Pcs == {"new", "intent", "armed", "waiting", "issuing", "issued", "ready", "queued",
        "sent", "sleeping", "answered", "ended"}
Replies == {"NONE", "OK", "REFUSED", "ERROR", "BUSY", "DENIED"}
Outcomes == {"NONE", "VALUE", "FAILED", "ACKNOWLEDGED", "REJECTED", "AMBIGUOUS", "BLOCKED"}

TypeOK ==
  /\ pc \in [Calls -> Pcs] /\ token \in [Calls -> Tokens \cup {NoToken}]
  /\ attempt \in [Calls -> 1 .. 2] /\ reply \in [Calls -> Replies]
  /\ outcome \in [Calls -> Outcomes]
  /\ cached \in Tokens \cup {NoToken} /\ inFlight \in Calls \cup {NoCall}
  /\ holding \subseteq Calls /\ before \in [Calls -> SUBSET Calls]
  /\ tail \in [Groups -> Calls \cup {NoCall}]
  /\ consumed \subseteq Authorizations /\ lapsed \subseteq Authorizations
  /\ ordinal \in [Calls -> Int] /\ next \in [Flows \X Ops -> Nat]
  /\ checks \subseteq SourceReads
  /\ valid \in Tokens \cup {NoToken} /\ issued \in 0 .. MaxTokens
  /\ denied \subseteq Tokens /\ disturbed \in BOOLEAN
  /\ posts \in [Writes -> 0 .. 2] /\ took \subseteq Writes

Init ==
  /\ pc = [c \in Calls |-> "new"] /\ token = [c \in Calls |-> NoToken]
  /\ attempt = [c \in Calls |-> 1] /\ reply = [c \in Calls |-> "NONE"]
  /\ outcome = [c \in Calls |-> "NONE"]
  /\ cached = NoToken /\ inFlight = NoCall
  /\ holding = {} /\ before = [c \in Calls |-> {}] /\ tail = [g \in Groups |-> NoCall]
  /\ consumed = {} /\ lapsed = {}
  /\ ordinal = [c \in Calls |-> -1] /\ next = [k \in Flows \X Ops |-> 0]
  /\ rows = {} /\ checks = {}
  /\ valid = NoToken /\ issued = 0 /\ denied = {} /\ disturbed = FALSE
  /\ posts = [c \in Writes |-> 0] /\ took = {}

Goto(c, there) == pc' = [pc EXCEPT ![c] = there]

\* The caller of c learns o.
End(c, o) == Goto(c, "ended") /\ outcome' = [outcome EXCEPT ![c] = o]

-----------------------------------------------------------------------------
(***************************************************************************)
(* A write first spends its authorization and stores its intent.           *)
(***************************************************************************)

\* Mutant of ConsumeAuthorization: the second use is not noticed.
ConsumeAgain(c) ==
  /\ pc[c] = "new" /\ c \in Writes
  /\ consumed' = consumed \cup {Authorization[c]}
  /\ \E matches \in BOOLEAN :
       IF matches /\ Authorization[c] \notin lapsed
       THEN Goto(c, "intent") /\ UNCHANGED outcome
       ELSE End(c, "BLOCKED")
  /\ UNCHANGED <<token, attempt, reply, providerVars, queueVars, lapsed, auditVars, brokerVars>>

\* consumeLiveOrderAuthorization: spent even when it turns out to
\* have expired or to be for another order.
ConsumeAuthorization(c) ==
  /\ pc[c] = "new" /\ c \in Writes
  /\ consumed' = consumed \cup {Authorization[c]}
  /\ \E matches \in BOOLEAN :
       IF matches /\ Authorization[c] \notin consumed \cup lapsed
       THEN Goto(c, "intent") /\ UNCHANGED outcome
       ELSE End(c, "BLOCKED")
  /\ UNCHANGED <<token, attempt, reply, providerVars, queueVars, lapsed, auditVars, brokerVars>>

\* persistAuthorizedIntent: the audit callback writes the dispatch claim.
StoreIntent(c) ==
  /\ pc[c] = "intent"
  /\ \/ Goto(c, "armed") /\ UNCHANGED outcome
     \/ End(c, "BLOCKED")
  /\ UNCHANGED <<token, attempt, reply, providerVars, queueVars, authorityVars, auditVars, brokerVars>>

-----------------------------------------------------------------------------
(***************************************************************************)
(* getAccessToken.                                                         *)
(***************************************************************************)
NeedsToken(c) == pc[c] = "armed" \/ (pc[c] = "new" /\ c \in Reads)

GetCachedToken(c) ==
  /\ NeedsToken(c) /\ cached # NoToken
  /\ token' = [token EXCEPT ![c] = cached]
  /\ Goto(c, "ready")
  /\ UNCHANGED <<attempt, reply, outcome, providerVars, queueVars, authorityVars, auditVars, brokerVars>>

JoinIssue(c) ==
  /\ NeedsToken(c) /\ cached = NoToken /\ inFlight # NoCall
  /\ Goto(c, "waiting")
  /\ UNCHANGED <<token, attempt, reply, outcome, providerVars, queueVars, authorityVars, auditVars, brokerVars>>

\* Mutant of BeginIssue: calls do not share the request under way.
BeginOwnIssue(c) ==
  /\ NeedsToken(c) /\ cached = NoToken
  /\ inFlight' = c
  /\ Goto(c, "issuing")
  /\ UNCHANGED <<token, attempt, reply, outcome, cached, queueVars, authorityVars, auditVars, brokerVars>>

BeginIssue(c) ==
  /\ NeedsToken(c) /\ cached = NoToken /\ inFlight = NoCall
  /\ inFlight' = c
  /\ Goto(c, "issuing")
  /\ UNCHANGED <<token, attempt, reply, outcome, cached, queueVars, authorityVars, auditVars, brokerVars>>

\* The broker issues a token; the one before it is no longer valid.
BrokerIssues(c) ==
  /\ pc[c] = "issuing" /\ issued < MaxTokens
  /\ issued' = issued + 1 /\ valid' = issued + 1
  /\ token' = [token EXCEPT ![c] = issued + 1]
  /\ Goto(c, "issued")
  /\ UNCHANGED <<attempt, reply, outcome, providerVars, queueVars, authorityVars, auditVars,
                 denied, disturbed, posts, took>>

Row(flow, op, n, a, c, result) ==
  [flow |-> flow, op |-> op, ordinal |-> n, attempt |-> a, call |-> c, result |-> result]

\* The request for a token is audited in the workflow that made it.
AuditIssue(c, result) ==
  LET k == <<Flow[c], TokenOp>> IN
  /\ rows' = rows \cup {Row(Flow[c], TokenOp, next[k], 1, c, result)}
  /\ next' = [next EXCEPT ![k] = @ + 1]

Sharing(c) == {d \in Calls : d = c \/ pc[d] = "waiting"}

\* Everybody who waits for the promise resumes with the token.
IssueSucceeds(c) ==
  /\ pc[c] = "issued"
  /\ AuditIssue(c, "SUCCEEDED")
  /\ cached' = token[c] /\ inFlight' = NoCall
  /\ token' = [d \in Calls |-> IF d \in Sharing(c) THEN token[c] ELSE token[d]]
  /\ pc' = [d \in Calls |-> IF d \in Sharing(c) THEN "ready" ELSE pc[d]]
  /\ UNCHANGED <<attempt, reply, outcome, queueVars, authorityVars, ordinal, checks, brokerVars>>

\* A refusal, a timeout, an answer without a token, or an audit row that
\* cannot be stored fails them all; classifySubmitError tells a failed audit
\* from the rest.
IssueFails(c) ==
  /\ pc[c] \in {"issuing", "issued"}
  /\ \E audited \in BOOLEAN :
       /\ IF audited THEN AuditIssue(c, "FAILED") ELSE UNCHANGED <<rows, next>>
       /\ outcome' = [d \in Calls |->
                        IF d \notin Sharing(c) THEN outcome[d]
                        ELSE IF d \in Reads THEN "FAILED"
                        ELSE IF audited THEN "AMBIGUOUS" ELSE "BLOCKED"]
  /\ inFlight' = NoCall
  /\ pc' = [d \in Calls |-> IF d \in Sharing(c) THEN "ended" ELSE pc[d]]
  /\ UNCHANGED <<token, attempt, reply, cached, queueVars, authorityVars, ordinal, checks, brokerVars>>

-----------------------------------------------------------------------------
(***************************************************************************)
(* The managed fetch: a queue of promises per rate-limit group.            *)
(***************************************************************************)
Enqueue(c) ==
  LET last == tail[Group[c]] IN
  /\ pc[c] = "ready"
  /\ before' = [before EXCEPT ![c] = IF last = NoCall THEN {} ELSE before[last] \cup {last}]
  /\ tail' = [tail EXCEPT ![Group[c]] = c]
  /\ holding' = holding \cup {c}
  /\ Goto(c, "queued")
  /\ UNCHANGED <<token, attempt, reply, outcome, providerVars, authorityVars, auditVars, brokerVars>>

\* An attempt goes out.
SendAttempt(c, n) ==
  /\ Goto(c, "sent")
  /\ attempt' = [attempt EXCEPT ![c] = n]
  /\ reply' = [reply EXCEPT ![c] = "NONE"]
  /\ posts' = IF c \in Writes THEN [posts EXCEPT ![c] = @ + 1] ELSE posts
  /\ UNCHANGED <<token, outcome, providerVars, holding, tail, authorityVars, auditVars,
                 valid, issued, denied, disturbed, took>>

\* Mutant of Send: nobody waits for the calls before.
SendAtOnce(c) ==
  /\ pc[c] = "queued"
  /\ SendAttempt(c, 1)
  /\ before' = [before EXCEPT ![c] = {}]

Send(c) ==
  /\ pc[c] = "queued" /\ before[c] \cap holding = {}
  /\ SendAttempt(c, 1)
  /\ before' = [before EXCEPT ![c] = {}]

\* The wait of Retry-After is over; the slot has not been released.
SendAgain(c) ==
  /\ pc[c] = "sleeping"
  /\ SendAttempt(c, 2)
  /\ UNCHANGED before

\* The broker answers a request it gets with a valid token as it likes; one
\* it answers with a 5xx or "in progress" it may have carried out.
BrokerAnswers(c) ==
  /\ pc[c] = "sent" /\ reply[c] = "NONE"
  /\ \E r \in IF token[c] = valid THEN {"OK", "REFUSED", "ERROR", "BUSY"} ELSE {"DENIED"} :
       /\ reply' = [reply EXCEPT ![c] = r]
       /\ took' \in IF c \notin Writes THEN {took}
                    ELSE CASE r = "OK" -> {took \cup {c}}
                           [] r = "ERROR" -> {took, took \cup {c}}
                           [] OTHER -> {took}
  /\ UNCHANGED <<pc, token, attempt, outcome, providerVars, queueVars, authorityVars, auditVars,
                 valid, issued, denied, disturbed, posts>>

\* Mutant of ReleaseSlot: a failed request keeps its slot.
ReleaseAnswered(c) ==
  /\ IF reply[c] = "NONE" THEN UNCHANGED <<holding, tail>>
     ELSE /\ holding' = holding \ {c}
          /\ tail' = [tail EXCEPT ![Group[c]] = IF @ = c THEN NoCall ELSE @]
  /\ UNCHANGED before

\* The finally block of enqueueByRateLimitGroup.
ReleaseSlot(c) ==
  /\ holding' = holding \ {c}
  /\ tail' = [tail EXCEPT ![Group[c]] = IF @ = c THEN NoCall ELSE @]
  /\ UNCHANGED before

\* resolve: the ordinal of a call within its workflow and operation.
Number(c) == IF ordinal[c] = -1 THEN next[<<Flow[c], Op[c]>>] ELSE ordinal[c]

\* The request of c is over.
Close(c) ==
  /\ token' = [token EXCEPT ![c] = NoToken]
  /\ attempt' = [attempt EXCEPT ![c] = 1]
  /\ reply' = [reply EXCEPT ![c] = "NONE"]

AuditAttempt(c, result) ==
  /\ rows' = rows \cup {Row(Flow[c], Op[c], Number(c), attempt[c], c, result)}
  /\ ordinal' = [ordinal EXCEPT ![c] = Number(c)]
  /\ next' = IF ordinal[c] = -1 THEN [next EXCEPT ![<<Flow[c], Op[c]>>] = @ + 1] ELSE next
  /\ UNCHANGED checks

\* Mutant of MayRetry: writes are retried too.
MayRetryAny(c) == reply[c] = "BUSY" /\ attempt[c] = 1

\* getReadRateLimitRetryDelayMs
MayRetry(c) == reply[c] = "BUSY" /\ attempt[c] = 1 /\ c \in Reads

\* A first 429 of a read, with a Retry-After that is not too long.
Retry(c) ==
  /\ pc[c] = "sent" /\ MayRetry(c)
  /\ AuditAttempt(c, "FAILED")
  /\ Goto(c, "sleeping")
  /\ UNCHANGED <<token, attempt, reply, outcome, providerVars, queueVars, authorityVars, brokerVars>>

\* Mutant of DropToken: a 401 is an error like any other.
KeepToken(c) == cached' = cached

\* The middleware drops the cached token at a 401, whichever it is by now.
DropToken(c) == cached' = IF reply[c] = "DENIED" THEN NoToken ELSE cached

\* Mutant of Meaning: every refused write counts as rejected.
RefusedIsRejected(r) ==
  IF r = "OK" THEN {"ACKNOWLEDGED", "AMBIGUOUS"} ELSE {"REJECTED"}

\* classifySubmitResponse and classifyCancelResponse; an answer that does
\* not match its schema is ambiguous whatever its status.
Meaning(r) ==
  CASE r = "OK" -> {"ACKNOWLEDGED", "AMBIGUOUS"}
    [] r = "REFUSED" -> {"REJECTED", "AMBIGUOUS", "BLOCKED"}
    [] OTHER -> {"AMBIGUOUS"}

\* getOrder and listOpenOrders parse an OK at once: what does not match the
\* schema, or contradicts itself, is not observed.
Parsed == {"VALUE", "FAILED"}

\* A write is classified at once, a lookup is parsed at once, and the read
\* source gets an OK to check.
Deliver(c) ==
  \/ c \in Writes /\ \E o \in Meaning(reply[c]) : End(c, o)
  \/ c \in Reads /\ reply[c] # "OK" /\ End(c, "FAILED")
  \/ c \in Lookups /\ reply[c] = "OK" /\ \E o \in Parsed : End(c, o)
  \/ c \in SourceReads /\ reply[c] = "OK" /\ Goto(c, "answered") /\ UNCHANGED outcome

\* Any other answer goes back to the caller, and the slot to the next call.
\* A 429 may also ask for too long a wait.
Answer(c) ==
  /\ pc[c] = "sent" /\ reply[c] # "NONE"
  /\ AuditAttempt(c, IF reply[c] = "OK" THEN "SUCCEEDED" ELSE "FAILED")
  /\ Close(c) /\ ReleaseSlot(c)
  /\ DropToken(c)
  /\ denied' = IF reply[c] = "DENIED" THEN denied \cup {token[c]} ELSE denied
  /\ Deliver(c)
  /\ UNCHANGED <<inFlight, authorityVars,
                 valid, issued, disturbed, posts, took>>

\* No answer in time: the request may have arrived or not.
TimeOut(c) ==
  /\ pc[c] = "sent"
  /\ AuditAttempt(c, "FAILED")
  /\ Close(c) /\ ReleaseSlot(c)
  /\ End(c, IF c \in Writes THEN "AMBIGUOUS" ELSE "FAILED")
  /\ UNCHANGED <<providerVars, authorityVars, brokerVars>>

\* The attempt's row cannot be stored: whatever the answer was, it is lost.
AuditFails(c) ==
  /\ pc[c] = "sent"
  /\ Close(c) /\ ReleaseSlot(c)
  /\ End(c, IF c \in Writes THEN "BLOCKED" ELSE "FAILED")
  /\ UNCHANGED <<providerVars, authorityVars, auditVars, brokerVars>>

\* validateTossResponse of the read source, which the engine always gives the
\* callback that stores its result: a value counts once its check is stored.
Validate(c) ==
  /\ pc[c] = "answered"
  /\ \/ checks' = checks \cup {c} /\ End(c, "VALUE")
     \/ End(c, "FAILED") /\ UNCHANGED checks
  /\ UNCHANGED <<token, attempt, reply, providerVars, queueVars, authorityVars,
                 ordinal, next, rows, brokerVars>>

-----------------------------------------------------------------------------
\* Thirty seconds before its expiry the cached token is no longer used.
TokenAges ==
  /\ cached # NoToken
  /\ cached' = NoToken /\ disturbed' = TRUE
  /\ UNCHANGED <<callVars, inFlight, queueVars, authorityVars, auditVars,
                 valid, issued, denied, posts, took>>

\* The token expires, or another process with the same credentials takes
\* one, or a request for one arrives that this process had given up.
TokenRevoked ==
  /\ valid # NoToken
  /\ valid' = NoToken /\ disturbed' = TRUE
  /\ UNCHANGED <<callVars, providerVars, queueVars, authorityVars, auditVars,
                 issued, denied, posts, took>>

Lapse(a) ==
  /\ a \notin lapsed
  /\ lapsed' = lapsed \cup {a}
  /\ UNCHANGED <<callVars, providerVars, queueVars, consumed, auditVars, brokerVars>>

Step(c) ==
  \/ ConsumeAuthorization(c) \/ StoreIntent(c)
  \/ GetCachedToken(c) \/ JoinIssue(c) \/ BeginIssue(c)
  \/ BrokerIssues(c) \/ IssueSucceeds(c) \/ IssueFails(c)
  \/ Enqueue(c) \/ Send(c) \/ SendAgain(c) \/ BrokerAnswers(c)
  \/ Retry(c) \/ Answer(c) \/ TimeOut(c) \/ AuditFails(c)
  \/ Validate(c)

Next ==
  \/ \E c \in Calls : Step(c)
  \/ TokenAges \/ TokenRevoked
  \/ \E a \in Authorizations : Lapse(a)

Spec == Init /\ [][Next]_vars

-----------------------------------------------------------------------------
(***************************************************************************)
(* The calls of one process share one token and never invalidate each      *)
(* other's: the broker denies one only when the token has aged or somebody *)
(* else has taken a new one (getAccessToken's single flight).              *)
(***************************************************************************)
AloneNeverDenied == (\E c \in Calls : reply[c] = "DENIED") => disturbed

(***************************************************************************)
(* A token the broker has denied is not handed out again: a 401 is not     *)
(* answered with the same token by the next call.                          *)
(***************************************************************************)
DeniedTokenIsDropped == cached \notin denied

(***************************************************************************)
(* The requests of a rate-limit group go out one at a time, and a retry    *)
(* waits in its place.                                                     *)
(***************************************************************************)
OneRequestPerGroup ==
  \A c, d \in Calls :
    {pc[c], pc[d]} \subseteq {"sent", "sleeping"} /\ Group[c] = Group[d] => c = d

(***************************************************************************)
(* Nobody waits for a call that is over: the request for a token that      *)
(* others share is under way, and every slot a queued call waits for       *)
(* belongs to a call that will release it.                                 *)
(***************************************************************************)
NobodyWaitsInVain ==
  \A c \in Calls :
    /\ pc[c] = "waiting" => inFlight # NoCall /\ pc[inFlight] \in {"issuing", "issued"}
    /\ pc[c] = "queued" =>
         \A d \in before[c] \cap holding : pc[d] \in {"queued", "sent", "sleeping"}

(***************************************************************************)
(* One authorization sends one order, however often it is presented, and   *)
(* whatever the broker or the network answer.                              *)
(***************************************************************************)
OneSendPerAuthorization ==
  \A c, d \in Writes :
    /\ posts[c] <= 1
    /\ Authorization[c] = Authorization[d] /\ posts[c] + posts[d] > 1 => c = d

OwnRow(c, result) == \E row \in rows : row.call = c /\ row.op = Op[c] /\ row.result = result

(***************************************************************************)
(* What the adapter is certain of is true and audited: an acknowledged     *)
(* write was carried out, a rejected one was not, and a value that is read *)
(* has the row of the attempt it came from.  A value of the read source,   *)
(* on which evidence rests, has the record of a passed check as well; what *)
(* the live order adapter looks up has none.                               *)
(***************************************************************************)
CertainAnswersAreTrue ==
  /\ \A c \in Writes :
       /\ outcome[c] = "ACKNOWLEDGED" => c \in took /\ OwnRow(c, "SUCCEEDED")
       /\ outcome[c] = "REJECTED" => c \notin took /\ OwnRow(c, "FAILED")
  /\ \A c \in Reads : outcome[c] = "VALUE" => OwnRow(c, "SUCCEEDED")
  /\ \A c \in SourceReads : outcome[c] = "VALUE" => c \in checks
=============================================================================
