----------------------------- MODULE TossProofs -----------------------------
(***************************************************************************)
(* Proofs about the client of the broker, for any number of reads and      *)
(* writes, workflows, rate-limit groups, authorizations and tokens: the    *)
(* shared token, the queues, the authorization that works once and what    *)
(* the callers are told.                                                   *)
(***************************************************************************)
EXTENDS TossClient, TLAPS

Turn == {"queued", "sent", "sleeping"}  \* in the queue or at its head
HasToken == {"ready"} \cup Turn

-----------------------------------------------------------------------------
(***************************************************************************)
(* The parts of the inductive invariant.                                   *)
(***************************************************************************)

\* Which calls may be where, and what they hold there.
PhaseInv ==
  \A c \in Calls :
    /\ pc[c] \in {"intent", "armed"} => c \in Writes
    /\ pc[c] = "sleeping" => c \in Reads
    /\ pc[c] = "answered" => c \in SourceReads
    /\ pc[c] \in HasToken \cup {"issued"} => token[c] \in 1 .. issued
    /\ reply[c] # "NONE" => pc[c] \in {"sent", "sleeping"}
    /\ outcome[c] # "NONE" => pc[c] = "ended"

\* A write that has begun or was sent has spent its authorization.
Spending(c) == pc[c] \notin {"new", "ended"} \/ posts[c] > 0

SendInv ==
  /\ \A c \in Writes :
       /\ posts[c] <= 1
       /\ pc[c] \notin {"sent", "ended"} => posts[c] = 0
       /\ Spending(c) => Authorization[c] \in consumed
  /\ \A c, d \in Writes :
       Authorization[c] = Authorization[d] /\ Spending(c) /\ Spending(d) => c = d

\* One request for a token at a time, and no cached one beside it.
IssueInv ==
  /\ inFlight # NoCall => cached = NoToken /\ pc[inFlight] \in {"issuing", "issued"}
  /\ \A c \in Calls :
       /\ pc[c] \in {"issuing", "issued"} => c = inFlight
       /\ pc[c] = "waiting" => inFlight # NoCall

\* A token is new until it is handed out; only one handed out is denied.
TokenInv ==
  /\ cached <= issued /\ cached \notin denied
  /\ \A t \in denied : t <= issued
  /\ \A c \in Calls : pc[c] = "issued" =>
       /\ token[c] = issued /\ issued \notin denied
       /\ \A d \in Calls : pc[d] \in HasToken => token[d] # issued

\* As long as nobody interferes, whoever has a token has the valid one.
AloneInv ==
  /\ ~disturbed =>
       /\ cached \in {NoToken, valid}
       /\ \A c \in Calls :
            /\ pc[c] \in HasToken => token[c] = cached
            /\ pc[c] = "issued" => token[c] = valid
  /\ AloneNeverDenied

\* The calls of a group form a line that ends with the group's tail.
QueueInv ==
  /\ \A c \in Calls :
       /\ c \in holding <=> pc[c] \in Turn
       /\ pc[c] # "queued" => before[c] = {}
       /\ pc[c] \in Turn => tail[Group[c]] # NoCall
       /\ pc[c] \in Turn /\ c # tail[Group[c]] => c \in before[tail[Group[c]]]
  /\ \A g \in Groups : tail[g] # NoCall => pc[tail[g]] \in Turn /\ Group[tail[g]] = g
  /\ \A c, d \in Calls :
       c # d /\ Group[c] = Group[d] /\ pc[c] \in Turn /\ pc[d] \in Turn =>
         d \in before[c] \/ c \in before[d]

\* What the broker has done is what its answers say, and the rows remain.
AnswerInv ==
  /\ \A c \in Writes :
       /\ c \in took => pc[c] = "ended" \/ (pc[c] = "sent" /\ reply[c] \in {"OK", "ERROR"})
       /\ reply[c] = "OK" => c \in took
  /\ \A c \in SourceReads : pc[c] = "answered" => OwnRow(c, "SUCCEEDED")
  /\ CertainAnswersAreTrue

Inv == TypeOK /\ PhaseInv /\ SendInv /\ IssueInv /\ TokenInv /\ AloneInv /\ QueueInv /\ AnswerInv

-----------------------------------------------------------------------------
\* What a call is numbered with and queued by.
LEMMA CallData ==
  ASSUME NEW c \in Calls
  PROVE  /\ Flow[c] \in Flows /\ Op[c] \in Ops /\ TokenOp \in Ops /\ Group[c] \in Groups
         /\ c \in Writes => Authorization[c] \in Authorizations
BY DEF Flows, Ops, Groups, Authorizations

LEMMA RowOfAttempt ==
  ASSUME TypeOK, NEW c \in Calls, NEW result, AuditAttempt(c, result)
  PROVE  ordinal' \in [Calls -> Int] /\ next' \in [Flows \X Ops -> Nat] /\ checks' = checks
<1>1. <<Flow[c], Op[c]>> \in Flows \X Ops BY CallData
<1>2. next[<<Flow[c], Op[c]>>] \in Nat BY <1>1 DEF TypeOK
<1>3. Number(c) \in Int BY <1>2 DEF TypeOK, Number
<1>4. ordinal' \in [Calls -> Int] BY <1>3 DEF TypeOK, AuditAttempt
<1>5. next' \in [Flows \X Ops -> Nat] BY <1>1, <1>2 DEF TypeOK, AuditAttempt
<1>q. QED BY <1>4, <1>5 DEF AuditAttempt

LEMMA RowOfIssue ==
  ASSUME TypeOK, NEW c \in Calls, NEW result, AuditIssue(c, result)
  PROVE  next' \in [Flows \X Ops -> Nat]
<1>1. <<Flow[c], TokenOp>> \in Flows \X Ops BY CallData
<1>2. next[<<Flow[c], TokenOp>>] \in Nat BY <1>1 DEF TypeOK
<1>q. QED BY <1>1, <1>2 DEF TypeOK, AuditIssue

LEMMA SlotReleased ==
  ASSUME TypeOK, NEW c \in Calls, ReleaseSlot(c)
  PROVE  holding' \subseteq Calls /\ before' = before /\ tail' \in [Groups -> Calls \cup {NoCall}]
BY DEF TypeOK, ReleaseSlot

LEMMA RequestOver ==
  ASSUME TypeOK, NEW c \in Calls, Close(c)
  PROVE  /\ token' \in [Calls -> Tokens \cup {NoToken}] /\ attempt' \in [Calls -> 1 .. 2]
         /\ reply' \in [Calls -> Replies]
BY DEF TypeOK, Close, Replies

LEMMA CallEnds ==
  ASSUME TypeOK, NEW c \in Calls, NEW o \in Outcomes, End(c, o)
  PROVE  pc' \in [Calls -> Pcs] /\ outcome' \in [Calls -> Outcomes]
BY DEF TypeOK, End, Goto, Pcs

\* What a step changes has the type it had.
LEMMA TypeStep ==
  ASSUME TypeOK, PhaseInv, SendInv, [Next]_vars PROVE TypeOK'
<1> USE CallsAssumption, CallDataAssumption, MaxTokensAssumption
<1>1. ASSUME NEW c \in Calls, ConsumeAuthorization(c) PROVE TypeOK'
  <2>1. pc' \in [Calls -> Pcs] /\ outcome' \in [Calls -> Outcomes]
    BY <1>1 DEF ConsumeAuthorization, End, Goto, TypeOK, Pcs, Outcomes
  <2>2. consumed' \subseteq Authorizations
    BY <1>1, CallData DEF ConsumeAuthorization, TypeOK
  <2>q. QED BY <1>1, <2>1, <2>2
      DEF ConsumeAuthorization, providerVars, queueVars, auditVars, brokerVars, TypeOK
<1>2. ASSUME NEW c \in Calls, StoreIntent(c) PROVE TypeOK'
  <2>1. pc' \in [Calls -> Pcs] /\ outcome' \in [Calls -> Outcomes]
    BY <1>2 DEF StoreIntent, End, Goto, TypeOK, Pcs, Outcomes
  <2>q. QED BY <1>2, <2>1
      DEF StoreIntent, providerVars, queueVars, authorityVars, auditVars, brokerVars, TypeOK
<1>3. ASSUME NEW c \in Calls, GetCachedToken(c) PROVE TypeOK'
  BY <1>3 DEF GetCachedToken, Goto, providerVars, queueVars, authorityVars, auditVars,
      brokerVars, TypeOK, Pcs
<1>4. ASSUME NEW c \in Calls, JoinIssue(c) PROVE TypeOK'
  BY <1>4 DEF JoinIssue, Goto, providerVars, queueVars, authorityVars, auditVars,
      brokerVars, TypeOK, Pcs
<1>5. ASSUME NEW c \in Calls, BeginIssue(c) PROVE TypeOK'
  BY <1>5 DEF BeginIssue, Goto, queueVars, authorityVars, auditVars, brokerVars, TypeOK, Pcs
<1>6. ASSUME NEW c \in Calls, BrokerIssues(c) PROVE TypeOK'
  BY <1>6 DEF BrokerIssues, Goto, providerVars, queueVars, authorityVars, auditVars, TypeOK,
      Tokens, Pcs
<1>7. ASSUME NEW c \in Calls, IssueSucceeds(c) PROVE TypeOK'
  <2>1. next' \in [Flows \X Ops -> Nat] BY <1>7, RowOfIssue DEF IssueSucceeds
  <2>2. token[c] \in Tokens \cup {NoToken} BY DEF TypeOK
  <2>3. pc' \in [Calls -> Pcs] /\ token' \in [Calls -> Tokens \cup {NoToken}]
    BY <1>7, <2>2 DEF IssueSucceeds, TypeOK, Pcs
  <2>q. QED BY <1>7, <2>1, <2>2, <2>3
      DEF IssueSucceeds, queueVars, authorityVars, brokerVars, TypeOK
<1>8. ASSUME NEW c \in Calls, IssueFails(c) PROVE TypeOK'
  <2>1. next' \in [Flows \X Ops -> Nat] BY <1>8, RowOfIssue DEF IssueFails, TypeOK
  <2>2. pc' \in [Calls -> Pcs] BY <1>8 DEF IssueFails, TypeOK, Pcs
  <2>3. outcome' \in [Calls -> Outcomes]
    BY <1>8 DEF IssueFails, TypeOK, Outcomes
  <2>q. QED BY <1>8, <2>1, <2>2, <2>3
      DEF IssueFails, queueVars, authorityVars, brokerVars, TypeOK
<1>9. ASSUME NEW c \in Calls, Enqueue(c) PROVE TypeOK'
  <2>1. tail[Group[c]] \in Calls \cup {NoCall} BY CallData DEF TypeOK
  <2>2. before' \in [Calls -> SUBSET Calls] /\ tail' \in [Groups -> Calls \cup {NoCall}]
    BY <1>9, <2>1, CallData DEF Enqueue, TypeOK
  <2>3. pc' \in [Calls -> Pcs] BY <1>9 DEF Enqueue, Goto, TypeOK, Pcs
  <2>q. QED BY <1>9, <2>2, <2>3
      DEF Enqueue, providerVars, authorityVars, auditVars, brokerVars, TypeOK
<1>10. ASSUME NEW c \in Calls, Send(c) PROVE TypeOK'
  <2>1. posts' \in [Writes -> 0 .. 2] BY <1>10 DEF Send, SendAttempt, TypeOK, SendInv
  <2>2. before' \in [Calls -> SUBSET Calls] BY <1>10 DEF Send, TypeOK
  <2>3. /\ pc' \in [Calls -> Pcs] /\ attempt' \in [Calls -> 1 .. 2] /\ reply' \in [Calls -> Replies]
    BY <1>10 DEF Send, SendAttempt, Goto, TypeOK, Pcs, Replies
  <2>q. QED BY <1>10, <2>1, <2>2, <2>3
      DEF Send, SendAttempt, providerVars, authorityVars, auditVars, TypeOK
<1>11. ASSUME NEW c \in Calls, SendAgain(c) PROVE TypeOK'
  BY <1>11 DEF SendAgain, SendAttempt, Goto, providerVars, authorityVars, auditVars, TypeOK,
      SendInv, Pcs, Replies, NoToken
<1>12. ASSUME NEW c \in Calls, BrokerAnswers(c) PROVE TypeOK'
  <2>1. reply' \in [Calls -> Replies] BY <1>12 DEF BrokerAnswers, TypeOK, Replies
  <2>2. took' \subseteq Writes BY <1>12 DEF BrokerAnswers, TypeOK
  <2>q. QED BY <1>12, <2>1, <2>2
      DEF BrokerAnswers, providerVars, queueVars, authorityVars, auditVars, TypeOK
<1>13. ASSUME NEW c \in Calls, Retry(c) PROVE TypeOK'
  <2>1. pc' \in [Calls -> Pcs] BY <1>13 DEF Retry, Goto, TypeOK, Pcs
  <2>q. QED BY <1>13, <2>1, RowOfAttempt
      DEF Retry, providerVars, queueVars, authorityVars, brokerVars, TypeOK
<1>14. ASSUME NEW c \in Calls, Answer(c) PROVE TypeOK'
  <2>1. pc' \in [Calls -> Pcs] /\ outcome' \in [Calls -> Outcomes]
    BY <1>14 DEF Answer, Deliver, Meaning, Parsed, End, Goto, TypeOK, Pcs, Outcomes
  <2>2. denied' \subseteq Tokens /\ cached' \in Tokens \cup {NoToken}
    <3>1. token[c] \in Tokens
      BY <1>14 DEF Answer, PhaseInv, TypeOK, HasToken, Turn, Tokens
    <3>q. QED BY <1>14, <3>1 DEF Answer, DropToken, TypeOK
  <2>q. QED BY <1>14, <2>1, <2>2, RowOfAttempt, SlotReleased, RequestOver
      DEF Answer, authorityVars, TypeOK
<1>15. ASSUME NEW c \in Calls, TimeOut(c) PROVE TypeOK'
  <2>1. pc' \in [Calls -> Pcs] /\ outcome' \in [Calls -> Outcomes]
    BY <1>15, CallEnds DEF TimeOut, Outcomes
  <2>q. QED BY <1>15, <2>1, RowOfAttempt, SlotReleased, RequestOver
      DEF TimeOut, providerVars, authorityVars, brokerVars, TypeOK
<1>16. ASSUME NEW c \in Calls, AuditFails(c) PROVE TypeOK'
  <2>1. pc' \in [Calls -> Pcs] /\ outcome' \in [Calls -> Outcomes]
    BY <1>16, CallEnds DEF AuditFails, Outcomes
  <2>q. QED BY <1>16, <2>1, SlotReleased, RequestOver
      DEF AuditFails, providerVars, authorityVars, auditVars, brokerVars, TypeOK
<1>17. ASSUME NEW c \in Calls, Validate(c) PROVE TypeOK'
  <2>1. pc' \in [Calls -> Pcs] /\ outcome' \in [Calls -> Outcomes]
    BY <1>17, CallEnds DEF Validate, Outcomes
  <2>2. checks' \subseteq SourceReads BY <1>17 DEF Validate, PhaseInv, TypeOK
  <2>q. QED BY <1>17, <2>1, <2>2
      DEF Validate, providerVars, queueVars, authorityVars, brokerVars, TypeOK
<1>18. CASE TokenAges
  BY <1>18 DEF TokenAges, callVars, queueVars, authorityVars, auditVars, TypeOK
<1>19. CASE TokenRevoked
  BY <1>19 DEF TokenRevoked, callVars, providerVars, queueVars, authorityVars, auditVars,
      TypeOK
<1>20. ASSUME NEW a \in Authorizations, Lapse(a) PROVE TypeOK'
  BY <1>20 DEF Lapse, callVars, providerVars, queueVars, auditVars, brokerVars, TypeOK
<1>21. CASE UNCHANGED vars
  BY <1>21 DEF vars, callVars, providerVars, queueVars, authorityVars, auditVars,
      brokerVars, TypeOK
<1>q. QED
  BY <1>1, <1>2, <1>3, <1>4, <1>5, <1>6, <1>7, <1>8, <1>9, <1>10, <1>11,
      <1>12, <1>13, <1>14, <1>15, <1>16, <1>17, <1>18, <1>19, <1>20, <1>21 DEF Next, Step

-----------------------------------------------------------------------------
\* Phases, tokens, replies and outcomes fit together.
LEMMA PhaseStep ==
  ASSUME TypeOK, PhaseInv, TokenInv, IssueInv, [Next]_vars PROVE PhaseInv'
<1> USE CallsAssumption, CallDataAssumption, MaxTokensAssumption
<1>1. ASSUME NEW c \in Calls, ConsumeAuthorization(c) PROVE PhaseInv'
  BY <1>1 DEF ConsumeAuthorization, End, Goto, brokerVars, TypeOK, PhaseInv, HasToken, Turn
<1>2. ASSUME NEW c \in Calls, StoreIntent(c) PROVE PhaseInv'
  BY <1>2 DEF StoreIntent, End, Goto, brokerVars, TypeOK, PhaseInv, HasToken, Turn
<1>3. ASSUME NEW c \in Calls, GetCachedToken(c) PROVE PhaseInv'
  BY <1>3 DEF GetCachedToken, Goto, NeedsToken, brokerVars, TypeOK, PhaseInv, TokenInv,
      Tokens
<1>4. ASSUME NEW c \in Calls, JoinIssue(c) PROVE PhaseInv'
  BY <1>4 DEF JoinIssue, Goto, NeedsToken, brokerVars, PhaseInv, HasToken, Turn
<1>5. ASSUME NEW c \in Calls, BeginIssue(c) PROVE PhaseInv'
  BY <1>5 DEF BeginIssue, Goto, NeedsToken, brokerVars, PhaseInv, HasToken, Turn
<1>6. ASSUME NEW c \in Calls, BrokerIssues(c) PROVE PhaseInv'
  BY <1>6 DEF BrokerIssues, Goto, TypeOK, PhaseInv
<1>7. ASSUME NEW c \in Calls, IssueSucceeds(c) PROVE PhaseInv'
  BY <1>7 DEF IssueSucceeds, Sharing, brokerVars, PhaseInv
<1>8. ASSUME NEW c \in Calls, IssueFails(c) PROVE PhaseInv'
  BY <1>8 DEF IssueFails, Sharing, brokerVars, PhaseInv, HasToken, Turn
<1>9. ASSUME NEW c \in Calls, Enqueue(c) PROVE PhaseInv'
  BY <1>9 DEF Enqueue, Goto, brokerVars, PhaseInv, HasToken
<1>10. ASSUME NEW c \in Calls, Send(c) PROVE PhaseInv'
  BY <1>10 DEF Send, SendAttempt, Goto, PhaseInv, HasToken, Turn
<1>11. ASSUME NEW c \in Calls, SendAgain(c) PROVE PhaseInv'
  BY <1>11 DEF SendAgain, SendAttempt, Goto, PhaseInv, HasToken, Turn
<1>12. ASSUME NEW c \in Calls, BrokerAnswers(c) PROVE PhaseInv'
  BY <1>12 DEF BrokerAnswers, PhaseInv
<1>13. ASSUME NEW c \in Calls, Retry(c) PROVE PhaseInv'
  BY <1>13 DEF Retry, MayRetry, Goto, brokerVars, PhaseInv, HasToken, Turn
<1>14. ASSUME NEW c \in Calls, Answer(c) PROVE PhaseInv'
  BY <1>14 DEF Answer, Close, Deliver, End, Goto, TypeOK, PhaseInv, HasToken, Turn, Reads,
      SourceReads
<1>15. ASSUME NEW c \in Calls, TimeOut(c) PROVE PhaseInv'
  BY <1>15 DEF TimeOut, Close, End, Goto, brokerVars, TypeOK, PhaseInv, HasToken, Turn
<1>16. ASSUME NEW c \in Calls, AuditFails(c) PROVE PhaseInv'
  BY <1>16 DEF AuditFails, Close, End, Goto, brokerVars, TypeOK, PhaseInv, HasToken, Turn
<1>17. ASSUME NEW c \in Calls, Validate(c) PROVE PhaseInv'
  BY <1>17 DEF Validate, End, Goto, brokerVars, TypeOK, PhaseInv, HasToken, Turn
<1>18. CASE TokenAges
  BY <1>18 DEF TokenAges, callVars, PhaseInv
<1>19. CASE TokenRevoked
  BY <1>19 DEF TokenRevoked, callVars, PhaseInv
<1>20. ASSUME NEW a \in Authorizations, Lapse(a) PROVE PhaseInv'
  BY <1>20 DEF Lapse, callVars, brokerVars, PhaseInv
<1>21. CASE UNCHANGED vars
  BY <1>21 DEF vars, callVars, brokerVars, PhaseInv
<1>q. QED
  BY <1>1, <1>2, <1>3, <1>4, <1>5, <1>6, <1>7, <1>8, <1>9, <1>10, <1>11,
      <1>12, <1>13, <1>14, <1>15, <1>16, <1>17, <1>18, <1>19, <1>20, <1>21 DEF Next, Step

-----------------------------------------------------------------------------
\* A write is sent once, and only by the call that spent its authorization.
LEMMA SendStep ==
  ASSUME TypeOK, PhaseInv, SendInv, [Next]_vars PROVE SendInv'
<1> USE CallsAssumption, CallDataAssumption, MaxTokensAssumption
<1>1. ASSUME NEW c \in Calls, ConsumeAuthorization(c) PROVE SendInv'
  BY <1>1 DEF ConsumeAuthorization, End, Goto, providerVars, queueVars, brokerVars, TypeOK,
      SendInv, Spending, Reads
<1>2. ASSUME NEW c \in Calls, StoreIntent(c) PROVE SendInv'
  BY <1>2 DEF StoreIntent, End, Goto, authorityVars, brokerVars, TypeOK, SendInv, Spending,
      Reads
<1>3. ASSUME NEW c \in Calls, GetCachedToken(c) PROVE SendInv'
  BY <1>3 DEF GetCachedToken, Goto, NeedsToken, authorityVars, brokerVars, SendInv,
      Spending, Reads
<1>4. ASSUME NEW c \in Calls, JoinIssue(c) PROVE SendInv'
  BY <1>4 DEF JoinIssue, Goto, NeedsToken, authorityVars, brokerVars, SendInv, Spending,
      Reads
<1>5. ASSUME NEW c \in Calls, BeginIssue(c) PROVE SendInv'
  BY <1>5 DEF BeginIssue, Goto, NeedsToken, authorityVars, brokerVars, SendInv, Spending,
      Reads
<1>6. ASSUME NEW c \in Calls, BrokerIssues(c) PROVE SendInv'
  BY <1>6 DEF BrokerIssues, Goto, authorityVars, SendInv, Spending
<1>7. ASSUME NEW c \in Calls, IssueSucceeds(c) PROVE SendInv'
  BY <1>7 DEF IssueSucceeds, Sharing, authorityVars, brokerVars, SendInv, Spending
<1>8. ASSUME NEW c \in Calls, IssueFails(c) PROVE SendInv'
  BY <1>8 DEF IssueFails, authorityVars, brokerVars, SendInv, Spending
<1>9. ASSUME NEW c \in Calls, Enqueue(c) PROVE SendInv'
  BY <1>9 DEF Enqueue, Goto, authorityVars, brokerVars, SendInv, Spending
<1>10. ASSUME NEW c \in Calls, Send(c) PROVE SendInv'
  BY <1>10 DEF Send, SendAttempt, Goto, authorityVars, TypeOK, SendInv, Spending
<1>11. ASSUME NEW c \in Calls, SendAgain(c) PROVE SendInv'
  BY <1>11 DEF SendAgain, SendAttempt, Goto, authorityVars, TypeOK, SendInv, Spending
<1>12. ASSUME NEW c \in Calls, BrokerAnswers(c) PROVE SendInv'
  BY <1>12 DEF BrokerAnswers, authorityVars, SendInv, Spending
<1>13. ASSUME NEW c \in Calls, Retry(c) PROVE SendInv'
  BY <1>13 DEF Retry, MayRetry, Goto, authorityVars, brokerVars, SendInv, Spending, Reads
<1>14. ASSUME NEW c \in Calls, Answer(c) PROVE SendInv'
  <2>1. /\ \A d \in Calls \ {c} : pc'[d] = pc[d]
        /\ pc'[c] = "ended" \/ (pc'[c] = "answered" /\ c \notin Writes)
    BY <1>14 DEF Answer, Deliver, End, Goto, TypeOK, Reads, SourceReads
  <2>2. pc[c] = "sent" /\ UNCHANGED <<consumed, posts>>
    BY <1>14 DEF Answer, authorityVars
  <2>q. QED BY <2>1, <2>2 DEF PhaseInv, SendInv, Spending
<1>15. ASSUME NEW c \in Calls, TimeOut(c) PROVE SendInv'
  BY <1>15 DEF TimeOut, End, Goto, authorityVars, brokerVars, SendInv, Spending
<1>16. ASSUME NEW c \in Calls, AuditFails(c) PROVE SendInv'
  BY <1>16 DEF AuditFails, End, Goto, authorityVars, brokerVars, SendInv, Spending
<1>17. ASSUME NEW c \in Calls, Validate(c) PROVE SendInv'
  BY <1>17 DEF Validate, End, Goto, authorityVars, brokerVars, TypeOK, SendInv, Spending
<1>18. CASE TokenAges
  BY <1>18 DEF TokenAges, callVars, authorityVars, SendInv, Spending
<1>19. CASE TokenRevoked
  BY <1>19 DEF TokenRevoked, callVars, authorityVars, SendInv, Spending
<1>20. ASSUME NEW a \in Authorizations, Lapse(a) PROVE SendInv'
  BY <1>20 DEF Lapse, callVars, brokerVars, SendInv, Spending
<1>21. CASE UNCHANGED vars
  BY <1>21 DEF vars, callVars, authorityVars, brokerVars, SendInv, Spending
<1>q. QED
  BY <1>1, <1>2, <1>3, <1>4, <1>5, <1>6, <1>7, <1>8, <1>9, <1>10, <1>11,
      <1>12, <1>13, <1>14, <1>15, <1>16, <1>17, <1>18, <1>19, <1>20, <1>21 DEF Next, Step

-----------------------------------------------------------------------------
\* Only the call that asks for a token resets the pending promise.
LEMMA IssueStep ==
  ASSUME TypeOK, IssueInv, [Next]_vars PROVE IssueInv'
<1> USE CallsAssumption, CallDataAssumption, MaxTokensAssumption
<1>1. ASSUME NEW c \in Calls, ConsumeAuthorization(c) PROVE IssueInv'
  BY <1>1 DEF ConsumeAuthorization, End, Goto, providerVars, TypeOK, IssueInv
<1>2. ASSUME NEW c \in Calls, StoreIntent(c) PROVE IssueInv'
  BY <1>2 DEF StoreIntent, End, Goto, providerVars, TypeOK, IssueInv
<1>3. ASSUME NEW c \in Calls, GetCachedToken(c) PROVE IssueInv'
  BY <1>3 DEF GetCachedToken, Goto, providerVars, IssueInv
<1>4. ASSUME NEW c \in Calls, JoinIssue(c) PROVE IssueInv'
  BY <1>4 DEF JoinIssue, Goto, NeedsToken, providerVars, IssueInv
<1>5. ASSUME NEW c \in Calls, BeginIssue(c) PROVE IssueInv'
  BY <1>5 DEF BeginIssue, Goto, TypeOK, IssueInv
<1>6. ASSUME NEW c \in Calls, BrokerIssues(c) PROVE IssueInv'
  BY <1>6 DEF BrokerIssues, Goto, providerVars, IssueInv
<1>7. ASSUME NEW c \in Calls, IssueSucceeds(c) PROVE IssueInv'
  BY <1>7 DEF IssueSucceeds, Sharing, IssueInv
<1>8. ASSUME NEW c \in Calls, IssueFails(c) PROVE IssueInv'
  BY <1>8 DEF IssueFails, Sharing, IssueInv
<1>9. ASSUME NEW c \in Calls, Enqueue(c) PROVE IssueInv'
  BY <1>9 DEF Enqueue, Goto, providerVars, IssueInv
<1>10. ASSUME NEW c \in Calls, Send(c) PROVE IssueInv'
  BY <1>10 DEF Send, SendAttempt, Goto, providerVars, IssueInv
<1>11. ASSUME NEW c \in Calls, SendAgain(c) PROVE IssueInv'
  BY <1>11 DEF SendAgain, SendAttempt, Goto, providerVars, IssueInv
<1>12. ASSUME NEW c \in Calls, BrokerAnswers(c) PROVE IssueInv'
  BY <1>12 DEF BrokerAnswers, providerVars, IssueInv
<1>13. ASSUME NEW c \in Calls, Retry(c) PROVE IssueInv'
  BY <1>13 DEF Retry, Goto, providerVars, IssueInv
<1>14. ASSUME NEW c \in Calls, Answer(c) PROVE IssueInv'
  BY <1>14 DEF Answer, DropToken, Deliver, End, Goto, TypeOK, IssueInv
<1>15. ASSUME NEW c \in Calls, TimeOut(c) PROVE IssueInv'
  BY <1>15 DEF TimeOut, End, Goto, providerVars, IssueInv
<1>16. ASSUME NEW c \in Calls, AuditFails(c) PROVE IssueInv'
  BY <1>16 DEF AuditFails, End, Goto, providerVars, IssueInv
<1>17. ASSUME NEW c \in Calls, Validate(c) PROVE IssueInv'
  BY <1>17 DEF Validate, End, Goto, providerVars, TypeOK, IssueInv
<1>18. CASE TokenAges
  BY <1>18 DEF TokenAges, callVars, IssueInv
<1>19. CASE TokenRevoked
  BY <1>19 DEF TokenRevoked, callVars, providerVars, IssueInv
<1>20. ASSUME NEW a \in Authorizations, Lapse(a) PROVE IssueInv'
  BY <1>20 DEF Lapse, callVars, providerVars, IssueInv
<1>21. CASE UNCHANGED vars
  BY <1>21 DEF vars, callVars, providerVars, IssueInv
<1>q. QED
  BY <1>1, <1>2, <1>3, <1>4, <1>5, <1>6, <1>7, <1>8, <1>9, <1>10, <1>11,
      <1>12, <1>13, <1>14, <1>15, <1>16, <1>17, <1>18, <1>19, <1>20, <1>21 DEF Next, Step

-----------------------------------------------------------------------------
\* A token is handed out once it is cached, and dropped when it is denied.
LEMMA TokenStep ==
  ASSUME TypeOK, PhaseInv, IssueInv, TokenInv, [Next]_vars PROVE TokenInv'
<1> USE CallsAssumption, CallDataAssumption, MaxTokensAssumption
<1>1. ASSUME NEW c \in Calls, ConsumeAuthorization(c) PROVE TokenInv'
  BY <1>1 DEF ConsumeAuthorization, End, Goto, providerVars, brokerVars, TypeOK, TokenInv,
      HasToken, Turn
<1>2. ASSUME NEW c \in Calls, StoreIntent(c) PROVE TokenInv'
  BY <1>2 DEF StoreIntent, End, Goto, providerVars, brokerVars, TypeOK, TokenInv, HasToken,
      Turn
<1>3. ASSUME NEW c \in Calls, GetCachedToken(c) PROVE TokenInv'
  BY <1>3 DEF GetCachedToken, Goto, providerVars, brokerVars, IssueInv, TokenInv
<1>4. ASSUME NEW c \in Calls, JoinIssue(c) PROVE TokenInv'
  BY <1>4 DEF JoinIssue, Goto, providerVars, brokerVars, TokenInv, HasToken, Turn
<1>5. ASSUME NEW c \in Calls, BeginIssue(c) PROVE TokenInv'
  BY <1>5 DEF BeginIssue, Goto, brokerVars, IssueInv, TokenInv
<1>6. ASSUME NEW c \in Calls, BrokerIssues(c) PROVE TokenInv'
  <2>1. \A d \in Calls : pc'[d] \in HasToken => token'[d] <= issued
    BY <1>6 DEF BrokerIssues, Goto, TypeOK, PhaseInv, HasToken, Turn
  <2>2. \A d \in Calls : pc'[d] = "issued" => d = c /\ token'[d] = issued'
    BY <1>6 DEF BrokerIssues, Goto, TypeOK, IssueInv
  <2>3. issued \in Nat /\ issued' = issued + 1 /\ denied' = denied /\ cached' = cached
    BY <1>6 DEF BrokerIssues, providerVars, TypeOK
  <2>4. \A t \in denied : t \in Int /\ t < issued'
    BY <2>3 DEF TokenInv, TypeOK, Tokens
  <2>5. \A d \in Calls : token'[d] \in Int
    BY <1>6, <2>3 DEF BrokerIssues, TypeOK, Tokens, NoToken
  <2>6. cached' <= issued' /\ cached' \notin denied'
    BY <2>3 DEF TokenInv, TypeOK, Tokens, NoToken
  <2>q. QED BY <2>1, <2>2, <2>3, <2>4, <2>5, <2>6 DEF TokenInv
<1>7. ASSUME NEW c \in Calls, IssueSucceeds(c) PROVE TokenInv'
  BY <1>7 DEF IssueSucceeds, Sharing, brokerVars, TypeOK, IssueInv, TokenInv
<1>8. ASSUME NEW c \in Calls, IssueFails(c) PROVE TokenInv'
  BY <1>8 DEF IssueFails, Sharing, brokerVars, IssueInv, TokenInv
<1>9. ASSUME NEW c \in Calls, Enqueue(c) PROVE TokenInv'
  BY <1>9 DEF Enqueue, Goto, providerVars, brokerVars, TokenInv, HasToken
<1>10. ASSUME NEW c \in Calls, Send(c) PROVE TokenInv'
  BY <1>10 DEF Send, SendAttempt, Goto, providerVars, TokenInv, HasToken, Turn
<1>11. ASSUME NEW c \in Calls, SendAgain(c) PROVE TokenInv'
  BY <1>11 DEF SendAgain, SendAttempt, Goto, providerVars, TokenInv, HasToken, Turn
<1>12. ASSUME NEW c \in Calls, BrokerAnswers(c) PROVE TokenInv'
  BY <1>12 DEF BrokerAnswers, providerVars, TokenInv
<1>13. ASSUME NEW c \in Calls, Retry(c) PROVE TokenInv'
  BY <1>13 DEF Retry, Goto, providerVars, brokerVars, TokenInv, HasToken, Turn
<1>14. ASSUME NEW c \in Calls, Answer(c) PROVE TokenInv'
  BY <1>14 DEF Answer, Close, DropToken, Deliver, End, Goto, TypeOK, PhaseInv, TokenInv,
      HasToken, Turn, NoToken, Tokens
<1>15. ASSUME NEW c \in Calls, TimeOut(c) PROVE TokenInv'
  BY <1>15 DEF TimeOut, Close, End, Goto, providerVars, brokerVars, TypeOK, TokenInv,
      HasToken, Turn
<1>16. ASSUME NEW c \in Calls, AuditFails(c) PROVE TokenInv'
  BY <1>16 DEF AuditFails, Close, End, Goto, providerVars, brokerVars, TypeOK, TokenInv,
      HasToken, Turn
<1>17. ASSUME NEW c \in Calls, Validate(c) PROVE TokenInv'
  BY <1>17 DEF Validate, End, Goto, providerVars, brokerVars, TypeOK, TokenInv, HasToken,
      Turn
<1>18. CASE TokenAges
  BY <1>18 DEF TokenAges, callVars, TypeOK, TokenInv, NoToken, Tokens
<1>19. CASE TokenRevoked
  BY <1>19 DEF TokenRevoked, callVars, providerVars, TokenInv
<1>20. ASSUME NEW a \in Authorizations, Lapse(a) PROVE TokenInv'
  BY <1>20 DEF Lapse, callVars, providerVars, brokerVars, TokenInv
<1>21. CASE UNCHANGED vars
  BY <1>21 DEF vars, callVars, providerVars, brokerVars, TokenInv
<1>q. QED
  BY <1>1, <1>2, <1>3, <1>4, <1>5, <1>6, <1>7, <1>8, <1>9, <1>10, <1>11,
      <1>12, <1>13, <1>14, <1>15, <1>16, <1>17, <1>18, <1>19, <1>20, <1>21 DEF Next, Step

-----------------------------------------------------------------------------
\* What is cached and handed out is valid until somebody interferes.
LEMMA AloneStep ==
  ASSUME TypeOK, PhaseInv, IssueInv, TokenInv, AloneInv, [Next]_vars PROVE AloneInv'
<1> USE CallsAssumption, CallDataAssumption, MaxTokensAssumption
<1>1. ASSUME NEW c \in Calls, ConsumeAuthorization(c) PROVE AloneInv'
  BY <1>1 DEF ConsumeAuthorization, End, Goto, providerVars, brokerVars, TypeOK, AloneInv,
      AloneNeverDenied, HasToken, Turn
<1>2. ASSUME NEW c \in Calls, StoreIntent(c) PROVE AloneInv'
  BY <1>2 DEF StoreIntent, End, Goto, providerVars, brokerVars, TypeOK, AloneInv,
      AloneNeverDenied, HasToken, Turn
<1>3. ASSUME NEW c \in Calls, GetCachedToken(c) PROVE AloneInv'
  BY <1>3 DEF GetCachedToken, Goto, providerVars, brokerVars, TypeOK, AloneInv,
      AloneNeverDenied
<1>4. ASSUME NEW c \in Calls, JoinIssue(c) PROVE AloneInv'
  BY <1>4 DEF JoinIssue, Goto, providerVars, brokerVars, AloneInv, AloneNeverDenied,
      HasToken, Turn
<1>5. ASSUME NEW c \in Calls, BeginIssue(c) PROVE AloneInv'
  BY <1>5 DEF BeginIssue, Goto, brokerVars, AloneInv, AloneNeverDenied, HasToken, Turn
<1>6. ASSUME NEW c \in Calls, BrokerIssues(c) PROVE AloneInv'
  BY <1>6 DEF BrokerIssues, Goto, providerVars, TypeOK, IssueInv, AloneInv,
      AloneNeverDenied, HasToken, Turn
<1>7. ASSUME NEW c \in Calls, IssueSucceeds(c) PROVE AloneInv'
  BY <1>7 DEF IssueSucceeds, brokerVars, PhaseInv, AloneInv, AloneNeverDenied, NoToken
<1>8. ASSUME NEW c \in Calls, IssueFails(c) PROVE AloneInv'
  BY <1>8 DEF IssueFails, brokerVars, AloneInv, AloneNeverDenied, HasToken, Turn
<1>9. ASSUME NEW c \in Calls, Enqueue(c) PROVE AloneInv'
  BY <1>9 DEF Enqueue, Goto, providerVars, brokerVars, AloneInv, AloneNeverDenied, HasToken
<1>10. ASSUME NEW c \in Calls, Send(c) PROVE AloneInv'
  BY <1>10 DEF Send, SendAttempt, Goto, providerVars, AloneInv, AloneNeverDenied, HasToken,
      Turn
<1>11. ASSUME NEW c \in Calls, SendAgain(c) PROVE AloneInv'
  BY <1>11 DEF SendAgain, SendAttempt, Goto, providerVars, AloneInv, AloneNeverDenied,
      HasToken, Turn
<1>12. ASSUME NEW c \in Calls, BrokerAnswers(c) PROVE AloneInv'
  BY <1>12 DEF BrokerAnswers, providerVars, PhaseInv, AloneInv, AloneNeverDenied, HasToken,
      Turn, NoToken
<1>13. ASSUME NEW c \in Calls, Retry(c) PROVE AloneInv'
  BY <1>13 DEF Retry, Goto, providerVars, brokerVars, AloneInv, AloneNeverDenied, HasToken,
      Turn
<1>14. ASSUME NEW c \in Calls, Answer(c) PROVE AloneInv'
  BY <1>14 DEF Answer, Close, DropToken, Deliver, End, Goto, TypeOK, AloneInv,
      AloneNeverDenied, HasToken, Turn
<1>15. ASSUME NEW c \in Calls, TimeOut(c) PROVE AloneInv'
  BY <1>15 DEF TimeOut, Close, End, Goto, providerVars, brokerVars, TypeOK, AloneInv,
      AloneNeverDenied, HasToken, Turn
<1>16. ASSUME NEW c \in Calls, AuditFails(c) PROVE AloneInv'
  BY <1>16 DEF AuditFails, Close, End, Goto, providerVars, brokerVars, TypeOK, AloneInv,
      AloneNeverDenied, HasToken, Turn
<1>17. ASSUME NEW c \in Calls, Validate(c) PROVE AloneInv'
  BY <1>17 DEF Validate, End, Goto, providerVars, brokerVars, TypeOK, AloneInv,
      AloneNeverDenied, HasToken, Turn
<1>18. CASE TokenAges
  BY <1>18 DEF TokenAges, AloneInv, AloneNeverDenied
<1>19. CASE TokenRevoked
  BY <1>19 DEF TokenRevoked, AloneInv, AloneNeverDenied
<1>20. ASSUME NEW a \in Authorizations, Lapse(a) PROVE AloneInv'
  BY <1>20 DEF Lapse, callVars, providerVars, brokerVars, AloneInv, AloneNeverDenied
<1>21. CASE UNCHANGED vars
  BY <1>21 DEF vars, callVars, providerVars, brokerVars, AloneInv, AloneNeverDenied
<1>q. QED
  BY <1>1, <1>2, <1>3, <1>4, <1>5, <1>6, <1>7, <1>8, <1>9, <1>10, <1>11,
      <1>12, <1>13, <1>14, <1>15, <1>16, <1>17, <1>18, <1>19, <1>20, <1>21 DEF Next, Step

-----------------------------------------------------------------------------
\* A step that takes no call into the line or out of it.
LEMMA LineUntouched ==
  ASSUME TypeOK, QueueInv, UNCHANGED queueVars,
         \A d \in Calls : \/ pc'[d] = pc[d]
                          \/ pc[d] \notin Turn /\ pc'[d] \notin Turn
                          \/ pc[d] # "queued" /\ pc[d] \in Turn /\ pc'[d] # "queued" /\ pc'[d] \in Turn
  PROVE  QueueInv'
<1>1. \A d \in Calls : pc'[d] \in Turn <=> pc[d] \in Turn OBVIOUS
<1>2. \A d \in Calls : pc'[d] = "queued" <=> pc[d] = "queued" BY DEF Turn
<1>3. UNCHANGED <<holding, before, tail>> BY DEF queueVars
<1>4. \A g \in Groups : tail[g] # NoCall => tail[g] \in Calls BY DEF TypeOK
<1>q. QED BY <1>1, <1>2, <1>3, <1>4 DEF QueueInv

\* The call whose request is over leaves the line; if it was the last one,
\* nobody is left.
LEMMA LeavesLine ==
  ASSUME TypeOK, QueueInv, NEW c \in Calls, pc[c] = "sent", ReleaseSlot(c),
         pc'[c] \notin Turn, \A d \in Calls \ {c} : pc'[d] = pc[d]
  PROVE  QueueInv'
<1>1. c \in holding /\ before[c] = {} BY DEF QueueInv, Turn
<1>2. \A g \in Groups : tail'[g] = IF g = Group[c] /\ tail[g] = c THEN NoCall ELSE tail[g]
  BY CallData DEF ReleaseSlot, TypeOK
<1>3. \A d \in Calls : (d \in holding' <=> pc'[d] \in Turn) /\ (pc'[d] # "queued" => before'[d] = {})
  BY <1>1 DEF QueueInv, ReleaseSlot
<1>4. ASSUME NEW d \in Calls, pc'[d] \in Turn
      PROVE  tail'[Group[d]] # NoCall /\ (d # tail'[Group[d]] => d \in before'[tail'[Group[d]]])
  <2>1. d # c /\ pc[d] \in Turn /\ Group[d] \in Groups BY <1>4, CallData
  <2>2. tail[Group[d]] # c BY <1>1, <2>1 DEF QueueInv
  <2>3. tail'[Group[d]] = tail[Group[d]] BY <1>2, <2>1, <2>2
  <2>q. QED BY <2>1, <2>3 DEF QueueInv, ReleaseSlot
<1>5. \A g \in Groups : tail'[g] # NoCall => pc'[tail'[g]] \in Turn /\ Group[tail'[g]] = g
  BY <1>2 DEF QueueInv, TypeOK
<1>6. \A d, e \in Calls :
        d # e /\ Group[d] = Group[e] /\ pc'[d] \in Turn /\ pc'[e] \in Turn =>
          e \in before'[d] \/ d \in before'[e]
  BY DEF QueueInv, ReleaseSlot
<1>q. QED BY <1>3, <1>4, <1>5, <1>6 DEF QueueInv

LEMMA JoinsLine == ASSUME TypeOK, QueueInv, NEW c \in Calls, Enqueue(c) PROVE QueueInv'
<1> DEFINE last == tail[Group[c]]
<1>1. /\ Group[c] \in Groups /\ last \in Calls \cup {NoCall}
      /\ pc[c] \notin Turn /\ c \notin holding /\ before[c] = {}
  BY CallData DEF Enqueue, QueueInv, Turn, TypeOK
<1>2. /\ pc'[c] = "queued" /\ \A d \in Calls \ {c} : pc'[d] = pc[d]
      /\ \A d \in Calls \ {c} : before'[d] = before[d]
      /\ before'[c] = IF last = NoCall THEN {} ELSE before[last] \cup {last}
      /\ tail'[Group[c]] = c /\ \A g \in Groups \ {Group[c]} : tail'[g] = tail[g]
      /\ holding' = holding \cup {c}
  BY <1>1 DEF Enqueue, Goto, TypeOK
<1>3. \A d \in Calls : pc[d] \in Turn /\ Group[d] = Group[c] => d \in before'[c]
  BY <1>1, <1>2 DEF QueueInv
<1>4. \A d \in Calls : (d \in holding' <=> pc'[d] \in Turn) /\ (pc'[d] # "queued" => before'[d] = {})
  BY <1>1, <1>2 DEF QueueInv, Turn
<1>5. ASSUME NEW d \in Calls, pc'[d] \in Turn
      PROVE  tail'[Group[d]] # NoCall /\ (d # tail'[Group[d]] => d \in before'[tail'[Group[d]]])
  <2>1. CASE Group[d] = Group[c]
    <3>1. tail'[Group[d]] = c /\ c # NoCall BY <1>2, <2>1, CallsAssumption
    <3>2. d # c => d \in before'[c] BY <1>2, <1>3, <1>5, <2>1
    <3>q. QED BY <3>1, <3>2
  <2>2. CASE Group[d] # Group[c]
    <3>1. tail'[Group[d]] = tail[Group[d]] /\ pc[d] \in Turn BY <1>2, <1>5, <2>2, CallData
    <3>2. tail[Group[d]] # NoCall /\ (d # tail[Group[d]] => d \in before[tail[Group[d]]])
      BY <3>1 DEF QueueInv
    <3>3. tail[Group[d]] \in Calls \ {c}
      BY <1>1, <3>2, CallData DEF QueueInv, TypeOK
    <3>q. QED BY <1>2, <3>1, <3>2, <3>3
  <2>q. QED BY <2>1, <2>2
<1>6. \A g \in Groups : tail'[g] # NoCall => pc'[tail'[g]] \in Turn /\ Group[tail'[g]] = g
  BY <1>1, <1>2 DEF QueueInv, TypeOK, Turn
<1>7. \A d, e \in Calls :
        d # e /\ Group[d] = Group[e] /\ pc'[d] \in Turn /\ pc'[e] \in Turn =>
          e \in before'[d] \/ d \in before'[e]
  BY <1>2, <1>3 DEF QueueInv
<1>q. QED BY <1>4, <1>5, <1>6, <1>7 DEF QueueInv

\* Calls join the line at its end and leave it at its head.
LEMMA QueueStep ==
  ASSUME TypeOK, PhaseInv, QueueInv, [Next]_vars PROVE QueueInv'
<1> USE CallsAssumption, CallDataAssumption, MaxTokensAssumption
<1>1. ASSUME NEW c \in Calls, ConsumeAuthorization(c) PROVE QueueInv'
  BY <1>1, LineUntouched DEF ConsumeAuthorization, End, Goto, TypeOK, Turn
<1>2. ASSUME NEW c \in Calls, StoreIntent(c) PROVE QueueInv'
  BY <1>2, LineUntouched DEF StoreIntent, End, Goto, TypeOK, Turn
<1>3. ASSUME NEW c \in Calls, GetCachedToken(c) PROVE QueueInv'
  BY <1>3, LineUntouched DEF GetCachedToken, Goto, NeedsToken, Turn
<1>4. ASSUME NEW c \in Calls, JoinIssue(c) PROVE QueueInv'
  BY <1>4, LineUntouched DEF JoinIssue, Goto, NeedsToken, Turn
<1>5. ASSUME NEW c \in Calls, BeginIssue(c) PROVE QueueInv'
  BY <1>5, LineUntouched DEF BeginIssue, Goto, NeedsToken, Turn
<1>6. ASSUME NEW c \in Calls, BrokerIssues(c) PROVE QueueInv'
  BY <1>6, LineUntouched DEF BrokerIssues, Goto, Turn
<1>7. ASSUME NEW c \in Calls, IssueSucceeds(c) PROVE QueueInv'
  BY <1>7, LineUntouched DEF IssueSucceeds, Sharing, Turn
<1>8. ASSUME NEW c \in Calls, IssueFails(c) PROVE QueueInv'
  BY <1>8, LineUntouched DEF IssueFails, Sharing, Turn
<1>9. ASSUME NEW c \in Calls, Enqueue(c) PROVE QueueInv'
  BY <1>9, JoinsLine
<1>10. ASSUME NEW c \in Calls, Send(c) PROVE QueueInv'
  BY <1>10 DEF Send, SendAttempt, Goto, TypeOK, QueueInv, Turn
<1>11. ASSUME NEW c \in Calls, SendAgain(c) PROVE QueueInv'
  BY <1>11, LineUntouched DEF SendAgain, SendAttempt, Goto, Turn, queueVars
<1>12. ASSUME NEW c \in Calls, BrokerAnswers(c) PROVE QueueInv'
  BY <1>12, LineUntouched DEF BrokerAnswers
<1>13. ASSUME NEW c \in Calls, Retry(c) PROVE QueueInv'
  BY <1>13, LineUntouched DEF Retry, Goto, Turn
<1>14. ASSUME NEW c \in Calls, Answer(c) PROVE QueueInv'
  BY <1>14, LeavesLine DEF Answer, Deliver, End, Goto, Turn, TypeOK
<1>15. ASSUME NEW c \in Calls, TimeOut(c) PROVE QueueInv'
  BY <1>15, LeavesLine DEF TimeOut, End, Goto, Turn, TypeOK
<1>16. ASSUME NEW c \in Calls, AuditFails(c) PROVE QueueInv'
  BY <1>16, LeavesLine DEF AuditFails, End, Goto, Turn, TypeOK
<1>17. ASSUME NEW c \in Calls, Validate(c) PROVE QueueInv'
  BY <1>17, LineUntouched DEF Validate, End, Goto, TypeOK, Turn
<1>18. CASE TokenAges
  BY <1>18 DEF TokenAges, callVars, queueVars, QueueInv
<1>19. CASE TokenRevoked
  BY <1>19 DEF TokenRevoked, callVars, queueVars, QueueInv
<1>20. ASSUME NEW a \in Authorizations, Lapse(a) PROVE QueueInv'
  BY <1>20 DEF Lapse, callVars, queueVars, QueueInv
<1>21. CASE UNCHANGED vars
  BY <1>21 DEF vars, callVars, queueVars, QueueInv
<1>q. QED
  BY <1>1, <1>2, <1>3, <1>4, <1>5, <1>6, <1>7, <1>8, <1>9, <1>10, <1>11,
      <1>12, <1>13, <1>14, <1>15, <1>16, <1>17, <1>18, <1>19, <1>20, <1>21 DEF Next, Step

-----------------------------------------------------------------------------
LEMMA AnswerOfCall ==
  ASSUME TypeOK, PhaseInv, AnswerInv, NEW c \in Calls, Answer(c) PROVE AnswerInv'
<1> DEFINE result == IF reply[c] = "OK" THEN "SUCCEEDED" ELSE "FAILED"
<1>1. pc[c] = "sent" /\ took' = took /\ checks' = checks
  BY DEF Answer, AuditAttempt
<1>2. rows \subseteq rows' BY DEF Answer, AuditAttempt
<1>3. \A d \in Calls : \A r : OwnRow(d, r) => OwnRow(d, r)' BY <1>2 DEF OwnRow
<1>4. \E row \in rows' : row.call = c /\ row.op = Op[c] /\ row.result = result
  <2> DEFINE new == Row(Flow[c], Op[c], Number(c), attempt[c], c, result)
  <2>1. new \in rows' BY DEF Answer, AuditAttempt
  <2>2. new.call = c /\ new.op = Op[c] /\ new.result = result BY DEF Row
  <2> HIDE DEF new
  <2>q. QED BY <2>1, <2>2
<1> HIDE DEF result
<1>5. /\ \A d \in Calls \ {c} : pc'[d] = pc[d] /\ outcome'[d] = outcome[d] /\ reply'[d] = reply[d]
      /\ reply'[c] = "NONE"
  BY DEF Answer, Close, Deliver, End, Goto, TypeOK
<1>6. /\ reply[c] = "OK" => OwnRow(c, "SUCCEEDED")'
      /\ reply[c] # "OK" => OwnRow(c, "FAILED")'
  BY <1>4 DEF result, OwnRow
<1>7. CASE c \in Writes
  <2>1. pc'[c] = "ended" /\ outcome'[c] \in Meaning(reply[c])
    BY <1>7, CallDataAssumption DEF Answer, Deliver, End, Goto, TypeOK, Reads, SourceReads
  <2>2. outcome'[c] = "ACKNOWLEDGED" => reply[c] = "OK"
    BY <2>1 DEF Meaning
  <2>3. outcome'[c] = "REJECTED" => reply[c] = "REFUSED"
    BY <2>1 DEF Meaning
  <2>4. c \notin Reads BY <1>7 DEF Reads
  <2>5. outcome'[c] = "ACKNOWLEDGED" => c \in took /\ OwnRow(c, "SUCCEEDED")'
    BY <1>6, <1>7, <2>2 DEF AnswerInv
  <2>6. outcome'[c] = "REJECTED" => c \notin took /\ OwnRow(c, "FAILED")'
    BY <1>1, <1>6, <1>7, <2>3 DEF AnswerInv
  <2>q. QED
    BY <1>1, <1>3, <1>5, <2>1, <2>4, <2>5, <2>6, CallsAssumption
    DEF AnswerInv, CertainAnswersAreTrue, Reads, SourceReads
<1>8. CASE c \in Reads
  <2>1. pc'[c] = "answered" => OwnRow(c, "SUCCEEDED")'
    BY <1>6, <1>8 DEF Answer, Deliver, End, Goto, TypeOK, Reads
  <2>2. outcome'[c] = "VALUE" => OwnRow(c, "SUCCEEDED")' /\ c \notin SourceReads
    BY <1>1, <1>6, <1>8 DEF Answer, Deliver, Parsed, End, TypeOK, PhaseInv, Reads, SourceReads
  <2>q. QED
    BY <1>1, <1>3, <1>5, <1>8, <2>1, <2>2, CallsAssumption
      DEF AnswerInv, CertainAnswersAreTrue, Reads, SourceReads
<1>q. QED BY <1>7, <1>8 DEF Reads

\* Rows are only added, and the broker moves only for a call that waits.
LEMMA AnswerStep ==
  ASSUME TypeOK, PhaseInv, AnswerInv, [Next]_vars PROVE AnswerInv'
<1> USE CallsAssumption, CallDataAssumption, MaxTokensAssumption
<1>1. ASSUME NEW c \in Calls, ConsumeAuthorization(c) PROVE AnswerInv'
  BY <1>1 DEF ConsumeAuthorization, End, Goto, queueVars, auditVars, brokerVars, TypeOK,
      AnswerInv, CertainAnswersAreTrue, OwnRow, Reads, SourceReads
<1>2. ASSUME NEW c \in Calls, StoreIntent(c) PROVE AnswerInv'
  <2>1. /\ \A d \in Calls : outcome'[d] \in {outcome[d], "BLOCKED"}
        /\ \A d \in Calls \ {c} : pc'[d] = pc[d]
        /\ pc[c] = "intent" /\ pc'[c] \in {"armed", "ended"}
    BY <1>2 DEF StoreIntent, End, Goto, TypeOK
  <2>2. UNCHANGED <<reply, rows, checks, took>>
    BY <1>2 DEF StoreIntent, auditVars, brokerVars
  <2>q. QED BY <2>1, <2>2 DEF AnswerInv, CertainAnswersAreTrue, OwnRow, Reads, SourceReads
<1>3. ASSUME NEW c \in Calls, GetCachedToken(c) PROVE AnswerInv'
  BY <1>3 DEF GetCachedToken, Goto, NeedsToken, auditVars, brokerVars, AnswerInv,
      CertainAnswersAreTrue, OwnRow
<1>4. ASSUME NEW c \in Calls, JoinIssue(c) PROVE AnswerInv'
  BY <1>4 DEF JoinIssue, Goto, NeedsToken, auditVars, brokerVars, AnswerInv,
      CertainAnswersAreTrue, OwnRow
<1>5. ASSUME NEW c \in Calls, BeginIssue(c) PROVE AnswerInv'
  BY <1>5 DEF BeginIssue, Goto, NeedsToken, auditVars, brokerVars, AnswerInv,
      CertainAnswersAreTrue, OwnRow
<1>6. ASSUME NEW c \in Calls, BrokerIssues(c) PROVE AnswerInv'
  BY <1>6 DEF BrokerIssues, Goto, auditVars, AnswerInv, CertainAnswersAreTrue, OwnRow
<1>7. ASSUME NEW c \in Calls, IssueSucceeds(c) PROVE AnswerInv'
  BY <1>7 DEF IssueSucceeds, AuditIssue, Sharing, brokerVars, AnswerInv,
      CertainAnswersAreTrue, OwnRow, Reads, SourceReads
<1>8. ASSUME NEW c \in Calls, IssueFails(c) PROVE AnswerInv'
  BY <1>8 DEF IssueFails, AuditIssue, brokerVars, AnswerInv, CertainAnswersAreTrue, OwnRow,
      Reads, SourceReads
<1>9. ASSUME NEW c \in Calls, Enqueue(c) PROVE AnswerInv'
  BY <1>9 DEF Enqueue, Goto, auditVars, brokerVars, AnswerInv, CertainAnswersAreTrue, OwnRow
<1>10. ASSUME NEW c \in Calls, Send(c) PROVE AnswerInv'
  BY <1>10 DEF Send, SendAttempt, Goto, auditVars, AnswerInv, CertainAnswersAreTrue, OwnRow
<1>11. ASSUME NEW c \in Calls, SendAgain(c) PROVE AnswerInv'
  BY <1>11 DEF SendAgain, SendAttempt, Goto, auditVars, AnswerInv, CertainAnswersAreTrue,
      OwnRow
<1>12. ASSUME NEW c \in Calls, BrokerAnswers(c) PROVE AnswerInv'
  BY <1>12 DEF BrokerAnswers, auditVars, TypeOK, PhaseInv, AnswerInv, CertainAnswersAreTrue,
      OwnRow
<1>13. ASSUME NEW c \in Calls, Retry(c) PROVE AnswerInv'
  BY <1>13 DEF Retry, MayRetry, AuditAttempt, Goto, brokerVars, AnswerInv,
      CertainAnswersAreTrue, OwnRow
<1>14. ASSUME NEW c \in Calls, Answer(c) PROVE AnswerInv'
  BY <1>14, AnswerOfCall
<1>15. ASSUME NEW c \in Calls, TimeOut(c) PROVE AnswerInv'
  BY <1>15 DEF TimeOut, AuditAttempt, Close, End, Goto, brokerVars, TypeOK, AnswerInv,
      CertainAnswersAreTrue, OwnRow
<1>16. ASSUME NEW c \in Calls, AuditFails(c) PROVE AnswerInv'
  BY <1>16 DEF AuditFails, Close, End, Goto, auditVars, brokerVars, TypeOK, AnswerInv,
      CertainAnswersAreTrue, OwnRow
<1>17. ASSUME NEW c \in Calls, Validate(c) PROVE AnswerInv'
  <2>1. /\ \A d \in Calls \ {c} : pc'[d] = pc[d] /\ outcome'[d] = outcome[d]
        /\ pc[c] = "answered" /\ pc'[c] = "ended"
        /\ outcome'[c] \in {"VALUE", "FAILED"}
        /\ outcome'[c] = "VALUE" => c \in checks'
        /\ checks \subseteq checks'
    BY <1>17 DEF Validate, End, Goto, TypeOK
  <2>2. UNCHANGED <<reply, rows, took>>
    BY <1>17 DEF Validate, brokerVars
  <2>3. c \in SourceReads /\ c \notin Writes /\ OwnRow(c, "SUCCEEDED")
    BY <2>1 DEF PhaseInv, AnswerInv, Reads, SourceReads
  <2>q. QED BY <2>1, <2>2, <2>3 DEF AnswerInv, CertainAnswersAreTrue, OwnRow, Reads, SourceReads
<1>18. CASE TokenAges
  BY <1>18 DEF TokenAges, callVars, auditVars, AnswerInv, CertainAnswersAreTrue, OwnRow
<1>19. CASE TokenRevoked
  BY <1>19 DEF TokenRevoked, callVars, auditVars, AnswerInv, CertainAnswersAreTrue, OwnRow
<1>20. ASSUME NEW a \in Authorizations, Lapse(a) PROVE AnswerInv'
  BY <1>20 DEF Lapse, callVars, auditVars, brokerVars, AnswerInv, CertainAnswersAreTrue,
      OwnRow
<1>21. CASE UNCHANGED vars
  BY <1>21 DEF vars, callVars, auditVars, brokerVars, AnswerInv, CertainAnswersAreTrue,
      OwnRow
<1>q. QED
  BY <1>1, <1>2, <1>3, <1>4, <1>5, <1>6, <1>7, <1>8, <1>9, <1>10, <1>11,
      <1>12, <1>13, <1>14, <1>15, <1>16, <1>17, <1>18, <1>19, <1>20, <1>21 DEF Next, Step

-----------------------------------------------------------------------------
(* The invariant holds in every state.                                     *)

LEMMA InvInit == Init => Inv
<1> SUFFICES ASSUME Init PROVE Inv OBVIOUS
<1> USE CallsAssumption, CallDataAssumption, MaxTokensAssumption DEF Init
<1>1. /\ pc \in [Calls -> Pcs] /\ token \in [Calls -> Tokens \cup {NoToken}]
      /\ reply \in [Calls -> Replies] /\ outcome \in [Calls -> Outcomes]
      /\ attempt \in [Calls -> 1 .. 2] /\ posts \in [Writes -> 0 .. 2]
  BY DEF Pcs, Replies, Outcomes
<1>2. tail \in [Groups -> Calls \cup {NoCall}] /\ before \in [Calls -> SUBSET Calls]
  OBVIOUS
<1>3. ordinal \in [Calls -> Int] /\ next \in [Flows \X Ops -> Nat]
  OBVIOUS
<1>4. cached \in Tokens \cup {NoToken} /\ valid \in Tokens \cup {NoToken}
  OBVIOUS
<1>5. disturbed \in BOOLEAN
  OBVIOUS
<1>6. issued \in 0 .. MaxTokens
  BY MaxTokensAssumption
<1>7. TypeOK BY <1>1, <1>2, <1>3, <1>4, <1>5, <1>6 DEF TypeOK
<1>8. PhaseInv /\ SendInv BY DEF PhaseInv, SendInv, Spending, HasToken, Turn
<1>9. IssueInv /\ TokenInv BY DEF IssueInv, TokenInv, NoToken
<1>10. AloneInv BY DEF AloneInv, AloneNeverDenied
<1>11. QueueInv BY DEF QueueInv, Turn
<1>12. AnswerInv BY DEF AnswerInv, CertainAnswersAreTrue, Reads, SourceReads
<1>q. QED BY <1>7, <1>8, <1>9, <1>10, <1>11, <1>12 DEF Inv

LEMMA InvStep == Inv /\ [Next]_vars => Inv'
BY TypeStep, PhaseStep, SendStep, IssueStep, TokenStep, AloneStep, QueueStep, AnswerStep
  DEF Inv

LEMMA InvHolds == Spec => []Inv
BY InvInit, InvStep, PTL DEF Spec

\* The types of all variables, for any calls, workflows, groups and tokens.
THEOREM TossTypeCorrect == Spec => []TypeOK
<1>1. Inv => TypeOK BY DEF Inv
<1>q. QED BY <1>1, InvHolds, PTL

\* Calls that share a provider never invalidate each other's token: it is
\* denied only after it has aged or somebody else has taken one.
THEOREM TokenIsShared == Spec => []AloneNeverDenied
<1>1. Inv => AloneNeverDenied BY DEF Inv, AloneInv
<1>q. QED BY <1>1, InvHolds, PTL

\* A token that was answered with a 401 is never handed out again.
THEOREM DeniedIsDropped == Spec => []DeniedTokenIsDropped
<1>1. Inv => DeniedTokenIsDropped BY DEF Inv, TokenInv, DeniedTokenIsDropped
<1>q. QED BY <1>1, InvHolds, PTL

\* The requests of a group go out one at a time, however many calls queue.
THEOREM GroupInTurn == Spec => []OneRequestPerGroup
<1>1. Inv => OneRequestPerGroup BY DEF Inv, QueueInv, OneRequestPerGroup, Turn
<1>q. QED BY <1>1, InvHolds, PTL

\* Whoever waits, for a token or in the queue, waits for a call under way.
THEOREM WaitsForSomebody == Spec => []NobodyWaitsInVain
<1>1. Inv => NobodyWaitsInVain
  BY DEF Inv, IssueInv, QueueInv, TypeOK, NobodyWaitsInVain, Turn
<1>q. QED BY <1>1, InvHolds, PTL

\* However many writes present one authorization, it sends one order.
THEOREM SentOncePerAuthorization == Spec => []OneSendPerAuthorization
<1>1. Inv => OneSendPerAuthorization
  BY DEF Inv, SendInv, Spending, TypeOK, OneSendPerAuthorization
<1>q. QED BY <1>1, InvHolds, PTL

\* What a caller is told for certain is true at the broker and audited.
THEOREM CertainIsTrue == Spec => []CertainAnswersAreTrue
<1>1. Inv => CertainAnswersAreTrue BY DEF Inv, AnswerInv
<1>q. QED BY <1>1, InvHolds, PTL
=============================================================================
