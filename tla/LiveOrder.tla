----------------------------- MODULE LiveOrder -----------------------------
(***************************************************************************)
(* The life of the LIVE orders of one broker account: the order ledger in  *)
(* PostgreSQL with its guard triggers, the engine's requests that work on  *)
(* it (execute, reconcile, cancel, operator recovery), and the broker at   *)
(* the other end of an unreliable HTTP connection.                         *)
(*                                                                         *)
(* A worker is one HTTP request being served by the engine.  Each of its   *)
(* steps is one database transaction or one exchange with the broker; what *)
(* it read before (its memo) may be stale by then.  Nothing ties a worker  *)
(* to an order but its memory: when it is abandoned (an exception, a lost  *)
(* reply, a crash of the process) only the database remains.               *)
(***************************************************************************)
EXTENDS OrderStates

CONSTANTS
  Orders,        \* plan orders; the database lets each have one ledger row
  NoOrder,       \* the order of an idle worker
  Workers,       \* requests the engine can serve at the same time
  Requests,      \* the kinds of requests that arrive
  Qty,           \* ordered quantity of every order, also its reservation
  FreshBinding   \* FALSE: as coded, every account check of an order is audited
                 \* under the order's own id, so the audit row of the second
                 \* one is refused.  TRUE: under an id of its own.

ASSUME NoOrderAssumption == NoOrder \notin Orders
ASSUME QtyAssumption == Qty \in Nat \ {0}
ASSUME FreshBindingAssumption == FreshBinding \in BOOLEAN

VARIABLES
  state,     \* normalized_state of the last order_state_history row
  fill,      \* its cumulative filled_quantity
  bound,     \* its broker_order_id is known
  released,  \* released part of daily_trade_reservation
  rows,      \* the append-only audit rows written for the order
  kill,      \* state of the last kill_switch_event
  expired,   \* orders whose authorization or pre-trade evidence has expired
  aged,      \* orders claimed longer ago than the recovery windows
  status,    \* the broker's own state of the order
  done,      \* the broker's cumulative fill
  late,      \* orders the broker accepted outside the dispatch window
  sent,      \* submit requests that left the engine
  wire,      \* submit requests that have not reached the broker yet
  csent,     \* cancel requests that left the engine
  creq,      \* the order's last cancel request, as the broker has it
  pc,        \* what each worker does next
  job,       \* the order each worker is serving
  memo       \* what each worker remembers

ledgerVars == <<state, fill, bound, released, rows>>
policyVars == <<kill, expired, aged>>
brokerVars == <<status, done, late, sent, wire, csent, creq>>
workerVars == <<pc, job, memo>>
vars == <<ledgerVars, policyVars, brokerVars, workerVars>>

RowKinds == {"AUTHORIZATION", "CLAIM", "SUBMIT_EVIDENCE", "NON_DISPATCH",
             "PRE_AUTH_NON_DISPATCH", "CANCEL_CLAIM", "CANCEL_ACTION",
             "RECONCILE_BINDING", "CANCEL_BINDING"}

Kinds == {"EXECUTE", "RECONCILE", "CANCEL", "RECOVER"}

BrokerOpen == {"PENDING", "PARTIAL_FILLED", "PENDING_CANCEL"}
Statuses == BrokerOpen \cup Terminal \cup {"ABSENT", "REFUSED", "REPLACED"}

\* The broker holds an order it will still tell about.
Accepted == Statuses \ {"ABSENT", "REFUSED"}

Pcs == {"idle", "gated", "created", "authorized", "armed", "waiting", "replied",
        "read", "proving", "look", "checked", "observed",
        "cgated", "cchecked", "cauthorized", "carmed", "cwaiting"}

(***************************************************************************)
(* What a worker remembers.  seen is a ledger state or a broker status,    *)
(* id whether it knows the broker order id, saw the audit rows it relies   *)
(* on, by the actor it will write.                                         *)
(***************************************************************************)
Memos == [seen : States \cup Statuses \cup {None}, qty : 0 .. Qty, id : BOOLEAN,
          saw : SUBSET {"CLAIM", "CANCEL_ACTION"},
          by : {"EXECUTOR", "RECONCILER", "OPERATOR"}]

Blank == [seen |-> None, qty |-> 0, id |-> FALSE, saw |-> {},
          by |-> "EXECUTOR"]

LedgerTypeOK ==
  /\ state \in [Orders -> States \cup {None}]
  /\ fill \in [Orders -> 0 .. Qty]
  /\ bound \in [Orders -> BOOLEAN]
  /\ released \in [Orders -> 0 .. Qty]
  /\ rows \in [Orders -> SUBSET RowKinds]

PolicyTypeOK ==
  kill \in {"ENGAGED", "DISENGAGED"} /\ expired \in SUBSET Orders /\ aged \in SUBSET Orders

BrokerTypeOK ==
  /\ status \in [Orders -> Statuses]
  /\ done \in [Orders -> 0 .. Qty]
  /\ late \in SUBSET Orders /\ wire \in SUBSET Orders
  /\ sent \in [Orders -> Nat] /\ csent \in [Orders -> Nat]
  /\ creq \in [Orders -> {"NONE", "SENT", "ACCEPTED", "REFUSED"}]

\* An idle worker, and no other, is without an order.
WorkerTypeOK ==
  /\ pc \in [Workers -> Pcs]
  /\ job \in [Workers -> Orders \cup {NoOrder}]
  /\ \A w \in Workers : pc[w] = "idle" <=> job[w] = NoOrder
  /\ memo \in [Workers -> Memos]

\* The types of all variables.
TypeOK == LedgerTypeOK /\ PolicyTypeOK /\ BrokerTypeOK /\ WorkerTypeOK

\* A kill switch without events counts as engaged: its first event must be.
Init ==
  /\ state = [o \in Orders |-> None]
  /\ fill = [o \in Orders |-> 0]
  /\ bound = [o \in Orders |-> FALSE]
  /\ released = [o \in Orders |-> 0]
  /\ rows = [o \in Orders |-> {}]
  /\ kill = "ENGAGED" /\ expired = {} /\ aged = {}
  /\ status = [o \in Orders |-> "ABSENT"]
  /\ done = [o \in Orders |-> 0]
  /\ late = {} /\ wire = {}
  /\ sent = [o \in Orders |-> 0] /\ csent = [o \in Orders |-> 0]
  /\ creq = [o \in Orders |-> "NONE"]
  /\ pc = [w \in Workers |-> "idle"]
  /\ job = [w \in Workers |-> NoOrder]
  /\ memo = [w \in Workers |-> Blank]

-----------------------------------------------------------------------------
(***************************************************************************)
(* Steps of a worker.                                                      *)
(***************************************************************************)

\* An idle worker takes a request for order o.
Begin(w, kind, o, next, m) ==
  /\ pc[w] = "idle" /\ kind \in Requests
  /\ pc' = [pc EXCEPT ![w] = next]
  /\ job' = [job EXCEPT ![w] = o]
  /\ memo' = [memo EXCEPT ![w] = m]

\* Worker w goes on with the same order.
Go(w, here, next, m) ==
  /\ pc[w] = here
  /\ pc' = [pc EXCEPT ![w] = next]
  /\ memo' = [memo EXCEPT ![w] = m]
  /\ UNCHANGED job

\* Worker w has answered its request.
Finish(w, here) ==
  /\ pc[w] = here
  /\ pc' = [pc EXCEPT ![w] = "idle"]
  /\ job' = [job EXCEPT ![w] = NoOrder]
  /\ memo' = [memo EXCEPT ![w] = Blank]

\* Mutants of Append: the order of moves is not checked; a closed order
\* releases all of its reservation.
AppendAnyMove(o, s, f, id) ==
  /\ FillsAgree(s, fill[o], f, Qty)
  /\ bound[o] => id
  /\ state' = [state EXCEPT ![o] = s]
  /\ fill' = [fill EXCEPT ![o] = f]
  /\ bound' = [bound EXCEPT ![o] = id]
  /\ released' = [released EXCEPT ![o] = IF s \in Terminal THEN Qty - f ELSE @]

AppendReleasesAll(o, s, f, id) ==
  /\ MayMove(state[o], s)
  /\ FillsAgree(s, fill[o], f, Qty)
  /\ bound[o] => id
  /\ state' = [state EXCEPT ![o] = s]
  /\ fill' = [fill EXCEPT ![o] = f]
  /\ bound' = [bound EXCEPT ![o] = id]
  /\ released' = [released EXCEPT ![o] = IF s \in Terminal THEN Qty ELSE @]

\* A row of order_state_history that passes its guard, and the reservation
\* update the guard makes with it.
Append(o, s, f, id) ==
  /\ MayMove(state[o], s)
  /\ FillsAgree(s, fill[o], f, Qty)
  /\ bound[o] => id
  /\ state' = [state EXCEPT ![o] = s]
  /\ fill' = [fill EXCEPT ![o] = f]
  /\ bound' = [bound EXCEPT ![o] = id]
  /\ released' = [released EXCEPT ![o] = IF s \in Terminal THEN Qty - f ELSE @]

AddRow(o, row) == rows' = [rows EXCEPT ![o] = @ \cup {row}]

\* Mutant of NoOtherExposed: an order just authorized is forgotten.
NoOtherAnswered(o) == \A p \in Orders \ {o} : state[p] \notin Exposed \ {"SUBMITTING"}

\* No other order of the account may still be at the broker.
NoOtherExposed(o) == \A p \in Orders \ {o} : state[p] \notin Exposed

(***************************************************************************)
(* executeLive.  The gate reads the context in one transaction; the ledger *)
(* row, the authorization (which consumes the approval) and the dispatch   *)
(* claim are three later transactions, each with its own guard.            *)
(***************************************************************************)
evaluateExistingOrders == \A p \in Orders : state[p] \notin Unresolved

Gate(w, o) ==
  /\ Begin(w, "EXECUTE", o, "gated", Blank)
  /\ kill = "DISENGAGED"
  /\ evaluateExistingOrders
  /\ UNCHANGED <<ledgerVars, policyVars, brokerVars>>

\* createLivePreSubmitEvidenceAndLedger: one ledger row per plan order.
CreateLedger(w) ==
  LET o == job[w] IN
  /\ Go(w, "gated", "created", Blank)
  /\ state[o] = None
  /\ state' = [state EXCEPT ![o] = "PLANNED"]
  /\ UNCHANGED <<fill, bound, released, rows, policyVars, brokerVars>>

\* guard_order_submission_authorization
MayAuthorize(o) ==
  /\ state[o] = "PLANNED" /\ kill = "DISENGAGED"
  /\ o \notin expired
  /\ "PRE_AUTH_NON_DISPATCH" \notin rows[o]
  /\ NoOtherExposed(o)

\* prepareLiveSubmission: authorization A and the SUBMITTING row.
Authorize(w) ==
  LET o == job[w] IN
  /\ Go(w, "created", "authorized", Blank)
  /\ MayAuthorize(o)
  /\ Append(o, "SUBMITTING", 0, FALSE)
  /\ AddRow(o, "AUTHORIZATION")
  /\ UNCHANGED <<policyVars, brokerVars>>

\* Mutant of Claim: a second claim of the same order is not refused.
ClaimAgain(w) ==
  LET o == job[w] IN
  /\ pc[w] \in {"authorized", "waiting"}
  /\ Go(w, pc[w], "armed", Blank)
  /\ state[o] = "SUBMITTING" /\ kill = "DISENGAGED"
  /\ o \notin expired
  /\ "AUTHORIZATION" \in rows[o] /\ "NON_DISPATCH" \notin rows[o]
  /\ AddRow(o, "CLAIM")
  /\ UNCHANGED <<state, fill, bound, released, policyVars, brokerVars>>

\* guard_order_dispatch_claim
MayClaim(o) ==
  /\ state[o] = "SUBMITTING" /\ kill = "DISENGAGED"
  /\ o \notin expired
  /\ "AUTHORIZATION" \in rows[o]
  /\ rows[o] \cap {"CLAIM", "NON_DISPATCH"} = {}

\* claimLiveDispatch: the one-time claim B, written by the adapter's audit
\* callback; without it the adapter does not send.
Claim(w) ==
  LET o == job[w] IN
  /\ Go(w, "authorized", "armed", Blank)
  /\ MayClaim(o)
  /\ AddRow(o, "CLAIM")
  /\ UNCHANGED <<state, fill, bound, released, policyVars, brokerVars>>

\* The single POST of the order.
Send(w) ==
  LET o == job[w] IN
  /\ Go(w, "armed", "waiting", Blank)
  /\ sent' = [sent EXCEPT ![o] = @ + 1]
  /\ wire' = wire \cup {o}
  /\ UNCHANGED <<ledgerVars, policyVars, status, done, late, csent, creq>>

\* The answer as the adapter classifies it, and the state it stands for.
Reply(w, s, id) == Go(w, "waiting", "replied", [Blank EXCEPT !.seen = s, !.id = id])

\* Mutant of ReceiveReply: a submit that times out counts as rejected.
TimeoutRejects(w) ==
  LET o == job[w] IN
  /\ pc[w] = "waiting"
  /\ \/ status[o] \in Accepted /\ Reply(w, "PENDING", TRUE)
     \/ Reply(w, "REJECTED", FALSE)
  /\ UNCHANGED <<ledgerVars, policyVars, brokerVars>>

\* classifySubmitResponse and classifySubmitError: acknowledged and refused
\* answers are certain; anything else may come at any time, with an id only
\* if the broker has the order.
ReceiveReply(w) ==
  LET o == job[w] IN
  /\ pc[w] = "waiting"
  /\ \/ status[o] \in Accepted /\ Reply(w, "PENDING", TRUE)
     \/ status[o] = "REFUSED" /\ Reply(w, "REJECTED", FALSE)
     \/ \E s \in {"UNKNOWN", "UNKNOWN_BLOCKED"}, id \in BOOLEAN :
          /\ id => status[o] \in Accepted
          /\ Reply(w, s, id)
  /\ UNCHANGED <<ledgerVars, policyVars, brokerVars>>

\* The token call or the request audit fails: the order has not been sent,
\* but the adapter cannot always tell.
FailBeforeSend(w) ==
  /\ \E s \in {"UNKNOWN", "UNKNOWN_BLOCKED"} :
       Go(w, "armed", "replied", [Blank EXCEPT !.seen = s])
  /\ UNCHANGED <<ledgerVars, policyVars, brokerVars>>

\* recordSubmitOutcome: only while the order is still SUBMITTING.  With a
\* broker id the request goes on to reconcile the order.
RecordOutcome(w) ==
  LET o == job[w]  s == memo[w].seen  id == memo[w].id IN
  /\ IF id
     THEN Go(w, "replied", "look", [Blank EXCEPT !.id = TRUE, !.by = "RECONCILER"])
     ELSE Finish(w, "replied")
  /\ state[o] = "SUBMITTING" /\ "CLAIM" \in rows[o]
  /\ Append(o, s, 0, id)
  /\ AddRow(o, "SUBMIT_EVIDENCE")
  /\ UNCHANGED <<policyVars, brokerVars>>

-----------------------------------------------------------------------------
(***************************************************************************)
(* reconcile and recoverUnknown.                                           *)
(***************************************************************************)

liveOrderContext(o) ==
  [Blank EXCEPT !.seen = state[o], !.id = bound[o],
                !.saw = rows[o] \cap {"CLAIM", "CANCEL_ACTION"}]

\* reconcile chooses what to do by what it reads here; a closed order needs
\* nothing.
ReadContext(w, o) ==
  /\ state[o] \in Unresolved
  /\ Begin(w, "RECONCILE", o, "read", [liveOrderContext(o) EXCEPT !.by = "RECONCILER"])
  /\ UNCHANGED <<ledgerVars, policyVars, brokerVars>>

\* Mutant of NeverAuthorized: what the request has read is taken for granted.
NeverAuthorizedWhenRead(o) == TRUE

\* guard_order_pre_auth_non_dispatch_evidence
NeverAuthorized(o) == state[o] = "PLANNED" /\ "AUTHORIZATION" \notin rows[o]

\* recoverPlannedOrderWithoutAuthorization
RecoverPlanned(w) ==
  LET o == job[w] IN
  /\ memo[w].seen = "PLANNED"
  /\ Finish(w, "read")
  /\ NeverAuthorized(o)
  /\ Append(o, "REJECTED", 0, FALSE)
  /\ AddRow(o, "PRE_AUTH_NON_DISPATCH")
  /\ UNCHANGED <<policyVars, brokerVars>>

\* Mutants of BlockUnknown: an unknown order is closed after ten minutes; an
\* order whose outcome was never recorded is left as it is.
CloseUnknown(w) ==
  LET o == job[w]  m == memo[w] IN
  /\ m.seen \in {"SUBMITTING", "UNKNOWN"} /\ "CLAIM" \in m.saw /\ ~m.id
  /\ o \in aged
  /\ Finish(w, "read")
  /\ state[o] \in {"SUBMITTING", "UNKNOWN"}
  /\ m.seen = "SUBMITTING" <=> "SUBMIT_EVIDENCE" \notin rows[o]
  /\ Append(o, "REJECTED", fill[o], FALSE)
  /\ UNCHANGED <<rows, policyVars, brokerVars>>

BlockOnlyUnknown(w) ==
  LET o == job[w]  m == memo[w] IN
  /\ m.seen = "UNKNOWN" /\ "CLAIM" \in m.saw /\ ~m.id
  /\ o \in aged
  /\ Finish(w, "read")
  /\ state[o] = "UNKNOWN"
  /\ Append(o, "UNKNOWN_BLOCKED", fill[o], FALSE)
  /\ UNCHANGED <<rows, policyVars, brokerVars>>

\* recordUnknownBlocked takes the claim's outcome from the request's context.
MayBlock(o, seen) ==
  /\ state[o] \in {"SUBMITTING", "UNKNOWN"}
  /\ seen = "SUBMITTING" <=> "SUBMIT_EVIDENCE" \notin rows[o]

\* Ten minutes after the claim.
BlockUnknown(w) ==
  LET o == job[w]  m == memo[w] IN
  /\ m.seen \in {"SUBMITTING", "UNKNOWN"} /\ "CLAIM" \in m.saw /\ ~m.id
  /\ o \in aged
  /\ Finish(w, "read")
  /\ MayBlock(o, m.seen)
  /\ Append(o, "UNKNOWN_BLOCKED", fill[o], FALSE)
  /\ UNCHANGED <<rows, policyVars, brokerVars>>

\* recoverAuthorizedOrderWithoutDispatch takes its snapshot ...
BeginRecovery(w) ==
  LET o == job[w]  m == memo[w] IN
  /\ m.seen = "SUBMITTING" /\ "CLAIM" \notin m.saw /\ ~m.id
  /\ Go(w, "read", "proving", [m EXCEPT !.saw = rows[o] \cap {"CLAIM"}])
  /\ UNCHANGED <<ledgerVars, policyVars, brokerVars>>

\* guard_order_non_dispatch_evidence: it counts the claims in the snapshot of
\* its Serializable transaction, which is older than its locks.
ProvedUnsent(o, saw) ==
  /\ state[o] = "SUBMITTING"
  /\ "CLAIM" \notin saw
  /\ "SUBMIT_EVIDENCE" \notin rows[o]

\* ... and, once it has the locks, closes the order.  A history row another
\* transaction has added meanwhile makes it fail; a claim does not.
CommitRecovery(w) ==
  LET o == job[w] IN
  /\ Finish(w, "proving")
  /\ ProvedUnsent(o, memo[w].saw)
  /\ Append(o, "REJECTED", 0, FALSE)
  /\ AddRow(o, "NON_DISPATCH")
  /\ UNCHANGED <<policyVars, brokerVars>>

\* recoverUnknown: the operator names the broker order.
RecoverUnknown(w, o) ==
  /\ state[o] = "UNKNOWN_BLOCKED"
  /\ bound[o] \/ "CLAIM" \in rows[o]
  /\ Begin(w, "RECOVER", o, "look", [Blank EXCEPT !.id = TRUE, !.by = "OPERATOR"])
  /\ UNCHANGED <<ledgerVars, policyVars, brokerVars>>

\* requireBoundBrokerAccount: the account list is read again, and its answer
\* used, only if its audit row is new (UNIQUE (workflow, correlation,
\* operation, ordinal, attempt)).
AuditBinding(o, row) ==
  IF FreshBinding THEN UNCHANGED rows ELSE row \notin rows[o] /\ AddRow(o, row)

CheckAccount(w) ==
  /\ pc[w] \in {"read", "look"} /\ memo[w].id
  /\ Go(w, pc[w], "checked", memo[w])
  /\ AuditBinding(job[w], "RECONCILE_BINDING")
  /\ UNCHANGED <<state, fill, bound, released, policyVars, brokerVars>>

\* normalizeOrder: what the request keeps of the broker's answer.
normalizeOrder(o, m) ==
  [m EXCEPT !.seen = status[o], !.qty = done[o], !.saw = @ \ {"CLAIM"}]

\* getOrder, when the broker answers it.
GetOrder(w) ==
  /\ pc[w] = "checked" /\ status[job[w]] \in Accepted
  /\ Go(w, "checked", "observed", normalizeOrder(job[w], memo[w]))
  /\ UNCHANGED <<ledgerVars, policyVars, brokerVars>>

\* normalizeStatus of the adapter ...
Normalized(raw, f) ==
  IF raw = "PENDING_CANCEL" THEN IF f > 0 THEN "PARTIAL_FILLED" ELSE "PENDING"
  ELSE IF raw = "REPLACED" THEN "UNKNOWN_BLOCKED"
  ELSE raw

\* ... and expected_broker_normalized_state, which the evidence must match.
Sealed(raw) ==
  IF raw = "PENDING_CANCEL" THEN "PENDING"
  ELSE IF raw = "REPLACED" THEN "UNKNOWN_BLOCKED"
  ELSE raw

\* Mutant of Record: anybody may unblock.
RecordByAnyone(w) ==
  LET o == job[w]
      m == memo[w]
      s == Normalized(m.seen, m.qty)
      changed == s # state[o] \/ (s = "PARTIAL_FILLED" /\ m.qty > fill[o])
  IN
  /\ Finish(w, "observed")
  /\ o \notin late
  /\ s = Sealed(m.seen)
  /\ IF changed
     THEN /\ state[o] # "SUBMITTING"
          /\ "CANCEL_ACTION" \in m.saw => s = "CANCELED"
          /\ Append(o, s, m.qty, TRUE)
     ELSE UNCHANGED <<state, fill, bound, released>>
  /\ UNCHANGED <<rows, policyVars, brokerVars>>

isObservationInDispatchWindow(o) == o \notin late

\* recordReconciliation: the evidence always, a state row if it says more.
recordReconciliation(o, s, m) ==
  IF s # state[o] \/ (s = "PARTIAL_FILLED" /\ m.qty > fill[o])
  THEN /\ state[o] # "SUBMITTING"
       /\ m.by = "OPERATOR" <=> state[o] = "UNKNOWN_BLOCKED"
       /\ "CANCEL_ACTION" \in m.saw => s = "CANCELED"
       /\ Append(o, s, m.qty, TRUE)
  ELSE UNCHANGED <<state, fill, bound, released>>

Record(w) ==
  LET o == job[w]
      m == memo[w]
      s == Normalized(m.seen, m.qty)
  IN
  /\ Finish(w, "observed")
  /\ isObservationInDispatchWindow(o)
  /\ s = Sealed(m.seen)
  /\ m.by = "OPERATOR" => s \in Resolved
  /\ recordReconciliation(o, s, m)
  /\ UNCHANGED <<rows, policyVars, brokerVars>>

-----------------------------------------------------------------------------
(***************************************************************************)
(* cancel: one claim per order ever, against the state the operator saw.   *)
(***************************************************************************)
GateCancel(w, o) ==
  /\ state[o] \in {"PENDING", "PARTIAL_FILLED"} /\ bound[o]
  /\ Begin(w, "CANCEL", o, "cgated", [Blank EXCEPT !.seen = state[o]])
  /\ UNCHANGED <<ledgerVars, policyVars, brokerVars>>

CheckCancelAccount(w) ==
  /\ pc[w] = "cgated"
  /\ Go(w, "cgated", "cchecked", memo[w])
  /\ AuditBinding(job[w], "CANCEL_BINDING")
  /\ UNCHANGED <<state, fill, bound, released, policyVars, brokerVars>>

\* createCancelOperatorAuthorization: its guard looks at the state of now,
\* and the request goes by the one it has read.
AuthorizeCancel(w) ==
  /\ Go(w, "cchecked", "cauthorized", memo[w])
  /\ state[job[w]] \in {"PENDING", "PARTIAL_FILLED"}
  /\ UNCHANGED <<ledgerVars, policyVars, brokerVars>>

\* Neither the kill switch nor the configuration can block a cancel.
evaluateCancelRiskGate(seen) == seen \in {"PENDING", "PARTIAL_FILLED"}

\* Mutant of MayClaimCancel: a second cancel of the same order is not refused.
MayClaimCancelAgain(o, seen) == state[o] = seen

\* guard_order_cancel_dispatch_claim
MayClaimCancel(o, seen) == state[o] = seen /\ "CANCEL_CLAIM" \notin rows[o]

ClaimCancel(w) ==
  LET o == job[w] IN
  /\ Go(w, "cauthorized", "carmed", Blank)
  /\ evaluateCancelRiskGate(memo[w].seen)
  /\ MayClaimCancel(o, memo[w].seen)
  /\ AddRow(o, "CANCEL_CLAIM")
  /\ UNCHANGED <<state, fill, bound, released, policyVars, brokerVars>>

SendCancel(w) ==
  /\ Go(w, "carmed", "cwaiting", Blank)
  /\ csent' = [csent EXCEPT ![job[w]] = @ + 1]
  /\ creq' = [creq EXCEPT ![job[w]] = "SENT"]
  /\ UNCHANGED <<ledgerVars, policyVars, status, done, late, sent, wire>>

\* Mutant of RecordCancel: an accepted cancel counts as a canceled order.
AcceptedIsCanceled(w) ==
  LET o == job[w] IN
  /\ Finish(w, "cwaiting")
  /\ creq[o] = "ACCEPTED"
  /\ Append(o, "CANCELED", fill[o], TRUE)
  /\ AddRow(o, "CANCEL_ACTION")
  /\ UNCHANGED <<policyVars, brokerVars>>

\* classifyCancelResponse: an answer is certain or it is not.
Acknowledged(o) == creq[o] = "ACCEPTED"

\* recordCancelOutcome: an action, or evidence that nothing reads.
recordCancelOutcome(o, acknowledged) ==
  IF acknowledged THEN AddRow(o, "CANCEL_ACTION") ELSE UNCHANGED rows

\* After an acknowledged cancel the request goes on to reconcile with the
\* action.
RecordCancel(w) ==
  /\ \/ /\ Go(w, "cwaiting", "look",
              [Blank EXCEPT !.id = TRUE, !.saw = {"CANCEL_ACTION"}, !.by = "RECONCILER"])
        /\ Acknowledged(job[w])
        /\ recordCancelOutcome(job[w], TRUE)
     \/ Finish(w, "cwaiting") /\ recordCancelOutcome(job[w], FALSE)
  /\ UNCHANGED <<state, fill, bound, released, policyVars, brokerVars>>

\* The request ends early: a refused transaction, an error, a timeout, or a
\* crash of the process that serves it.
Abandon(w) ==
  /\ pc[w] # "idle"
  /\ Finish(w, pc[w])
  /\ UNCHANGED <<ledgerVars, policyVars, brokerVars>>

-----------------------------------------------------------------------------
(***************************************************************************)
(* The operator's kill switch, the clock, and the broker.                  *)
(***************************************************************************)
TurnKillSwitch ==
  /\ kill' = IF kill = "ENGAGED" THEN "DISENGAGED" ELSE "ENGAGED"
  /\ UNCHANGED <<ledgerVars, expired, aged, brokerVars, workerVars>>

\* Evidence, approval and authorization live for thirty seconds.
Expire(o) ==
  /\ state[o] \in {"PLANNED", "SUBMITTING"} /\ "CLAIM" \notin rows[o]
  /\ expired' = expired \cup {o}
  /\ UNCHANGED <<ledgerVars, kill, aged, brokerVars, workerVars>>

\* The dispatch window (five minutes) and the idempotency window (ten) pass.
Age(o) ==
  /\ "CLAIM" \in rows[o]
  /\ aged' = aged \cup {o}
  /\ UNCHANGED <<ledgerVars, kill, expired, brokerVars, workerVars>>

BrokerMove(o, s) == status' = [status EXCEPT ![o] = s]

\* A submit request reaches the broker, or is lost on the way.
Deliver(o) ==
  /\ o \in wire
  /\ wire' = wire \ {o}
  /\ \/ status[o] = "ABSENT" /\ BrokerMove(o, "PENDING")
        /\ late' = IF o \in aged THEN late \cup {o} ELSE late
     \/ status[o] = "ABSENT" /\ BrokerMove(o, "REFUSED") /\ UNCHANGED late
     \/ UNCHANGED <<status, late>>
  /\ UNCHANGED <<ledgerVars, policyVars, done, sent, csent, creq, workerVars>>

BrokerFill(o) ==
  /\ status[o] \in BrokerOpen
  /\ done' = [done EXCEPT ![o] = @ + 1]
  /\ BrokerMove(o, IF done[o] + 1 = Qty THEN "FILLED"
                   ELSE IF status[o] = "PENDING_CANCEL" THEN "PENDING_CANCEL"
                   ELSE "PARTIAL_FILLED")
  /\ UNCHANGED <<ledgerVars, policyVars, late, sent, wire, csent, creq, workerVars>>

\* A cancel request reaches the broker.
DeliverCancel(o) ==
  /\ creq[o] = "SENT"
  /\ \/ /\ status[o] \in {"PENDING", "PARTIAL_FILLED"}
        /\ BrokerMove(o, "PENDING_CANCEL")
        /\ creq' = [creq EXCEPT ![o] = "ACCEPTED"]
     \/ /\ creq' = [creq EXCEPT ![o] = "REFUSED"]
        /\ UNCHANGED status
  /\ UNCHANGED <<ledgerVars, policyVars, done, late, sent, wire, csent, workerVars>>

\* The broker closes or withdraws the order by itself: the exchange rejects
\* it, the day ends, the cancel wins or fails, or somebody replaces the
\* order in the broker's own application.
BrokerDecide(o) ==
  /\ \/ status[o] = "PENDING" /\ BrokerMove(o, "REJECTED")
     \/ status[o] \in BrokerOpen /\ BrokerMove(o, "CANCELED")
     \/ status[o] = "PENDING_CANCEL"
        /\ BrokerMove(o, IF done[o] > 0 THEN "PARTIAL_FILLED" ELSE "PENDING")
     \/ status[o] \in {"PENDING", "PARTIAL_FILLED"} /\ BrokerMove(o, "REPLACED")
  /\ UNCHANGED <<ledgerVars, policyVars, done, late, sent, wire, csent, creq, workerVars>>

-----------------------------------------------------------------------------
Execute(w) ==
  \/ \E o \in Orders : Gate(w, o)
  \/ CreateLedger(w) \/ Authorize(w) \/ Claim(w) \/ Send(w)
  \/ ReceiveReply(w) \/ FailBeforeSend(w) \/ RecordOutcome(w)

Reconcile(w) ==
  \/ \E o \in Orders : ReadContext(w, o) \/ RecoverUnknown(w, o)
  \/ RecoverPlanned(w) \/ BlockUnknown(w)
  \/ BeginRecovery(w) \/ CommitRecovery(w)
  \/ CheckAccount(w) \/ GetOrder(w) \/ Record(w)

Cancel(w) ==
  \/ \E o \in Orders : GateCancel(w, o)
  \/ CheckCancelAccount(w) \/ AuthorizeCancel(w) \/ ClaimCancel(w)
  \/ SendCancel(w) \/ RecordCancel(w)

Environment ==
  \/ TurnKillSwitch
  \/ \E o \in Orders : \/ Expire(o) \/ Age(o)
                       \/ Deliver(o) \/ BrokerFill(o)
                       \/ DeliverCancel(o) \/ BrokerDecide(o)

Next ==
  \/ \E w \in Workers : Execute(w) \/ Reconcile(w) \/ Cancel(w) \/ Abandon(w)
  \/ Environment

Spec == Init /\ [][Next]_vars

=============================================================================
