-------------------------- MODULE LiveOrderProofs --------------------------
(***************************************************************************)
(* Proofs about the live order path, for any sets of orders and workers    *)
(* and any ordered quantity.                                               *)
(***************************************************************************)
EXTENDS LiveOrderSafety, TLAPS

\* What a worker remembers of the broker was so when it was told, and is so
\* still where the broker cannot change it.
MemoOK(w) ==
  LET o == job[w]  m == memo[w] IN
  /\ pc[w] \notin {"idle", "gated"} => state[o] # None
  /\ pc[w] = "replied" =>
       /\ m.seen \in {"PENDING", "REJECTED", "UNKNOWN", "UNKNOWN_BLOCKED"}
       /\ m.id => m.seen # "REJECTED" /\ status[o] \in Accepted
       /\ m.seen = "REJECTED" => status[o] = "REFUSED"
  /\ pc[w] = "observed" =>
       /\ m.seen \in Accepted /\ status[o] \in Accepted
       /\ m.qty <= done[o]
       /\ m.seen \in Terminal => status[o] = m.seen /\ m.qty = done[o]

MemoInv == \A w \in Workers : MemoOK(w)

\* An order at the broker is open exactly as long as it can trade, and has
\* traded only if the broker took it.
BrokerInv ==
  \A o \in Orders :
    /\ status[o] \in BrokerOpen => done[o] < Qty
    /\ status[o] = "FILLED" => done[o] = Qty
    /\ status[o] \in {"ABSENT", "REFUSED"} => done[o] = 0

TypeInv == TypeOK /\ BrokerInv /\ MemoInv

-----------------------------------------------------------------------------
LEMMA LegalMoves ==
  ASSUME NEW s, NEW t, MayMove(s, t)
  PROVE  /\ s \in States \ Terminal /\ t \in States
         /\ t # "PLANNED"
         /\ t \in Exposed => s \in Exposed \/ t = "SUBMITTING"
BY DEF MayMove, States, Unresolved, Exposed, Terminal, Resolved

LEMMA BlankIsMemo == Blank \in Memos
BY QtyAssumption DEF Blank, Memos, None

LEMMA BeginTypes ==
  ASSUME WorkerTypeOK, NEW w \in Workers, NEW kind, NEW o \in Orders,
         NEW next \in Pcs \ {"idle"}, NEW m \in Memos, Begin(w, kind, o, next, m)
  PROVE  WorkerTypeOK'
BY NoOrderAssumption DEF WorkerTypeOK, Begin

LEMMA GoTypes ==
  ASSUME WorkerTypeOK, NEW w \in Workers, NEW here \in Pcs \ {"idle"},
         NEW next \in Pcs \ {"idle"}, NEW m \in Memos, Go(w, here, next, m)
  PROVE  WorkerTypeOK' /\ job[w] \in Orders
BY DEF WorkerTypeOK, Go

LEMMA FinishTypes ==
  ASSUME WorkerTypeOK, NEW w \in Workers, NEW here \in Pcs \ {"idle"}, Finish(w, here)
  PROVE  WorkerTypeOK' /\ job[w] \in Orders
BY BlankIsMemo DEF WorkerTypeOK, Finish, Pcs

LEMMA AppendTypes ==
  ASSUME LedgerTypeOK, NEW o \in Orders, NEW s, NEW f, NEW id \in BOOLEAN,
         Append(o, s, f, id)
  PROVE  /\ s \in States /\ f \in 0 .. Qty
         /\ state' \in [Orders -> States \cup {None}] /\ fill' \in [Orders -> 0 .. Qty]
         /\ bound' \in [Orders -> BOOLEAN] /\ released' \in [Orders -> 0 .. Qty]
<1>1. s \in States
  BY LegalMoves DEF Append
<1>2. f \in 0 .. Qty
  BY QtyAssumption DEF Append, FillsAgree, LedgerTypeOK
<1> QED BY <1>1, <1>2, QtyAssumption DEF Append, LedgerTypeOK

LEMMA AddRowTypes ==
  ASSUME LedgerTypeOK, NEW o \in Orders, NEW row \in RowKinds, AddRow(o, row)
  PROVE  rows' \in [Orders -> SUBSET RowKinds]
BY DEF LedgerTypeOK, AddRow

-----------------------------------------------------------------------------
LEMMA TypeStep == TypeInv /\ [Next]_vars => TypeOK'
<1> SUFFICES ASSUME TypeInv, [Next]_vars PROVE TypeOK'
  OBVIOUS
<1> USE QtyAssumption, BlankIsMemo DEF TypeInv, TypeOK, ledgerVars, policyVars, brokerVars, workerVars,
      LedgerTypeOK, PolicyTypeOK, BrokerTypeOK
<1>1. ASSUME NEW w \in Workers, NEW o \in Orders, Gate(w, o) PROVE TypeOK'
  <2>1. WorkerTypeOK'
    BY <1>1, BeginTypes DEF Gate, Pcs
  <2> QED BY <1>1, <2>1 DEF Gate
<1>2. ASSUME NEW w \in Workers, CreateLedger(w) PROVE TypeOK'
  BY <1>2, GoTypes, BlankIsMemo DEF CreateLedger, Pcs, States, Unresolved
<1>3. ASSUME NEW w \in Workers, Authorize(w) PROVE TypeOK'
  BY <1>3, GoTypes, AppendTypes, AddRowTypes DEF Authorize, Pcs, RowKinds
<1>4. ASSUME NEW w \in Workers, Claim(w) PROVE TypeOK'
  BY <1>4, GoTypes, AddRowTypes DEF Claim, Pcs, RowKinds
<1>5. ASSUME NEW w \in Workers, Send(w) PROVE TypeOK'
  BY <1>5, GoTypes DEF Send, Pcs
<1>6. ASSUME NEW w \in Workers, ReceiveReply(w) PROVE TypeOK'
  <2>1. \E s \in {"PENDING", "REJECTED", "UNKNOWN", "UNKNOWN_BLOCKED"}, id \in BOOLEAN : Reply(w, s, id)
    BY <1>6 DEF ReceiveReply
  <2>2. PICK s \in {"PENDING", "REJECTED", "UNKNOWN", "UNKNOWN_BLOCKED"}, id \in BOOLEAN : Reply(w, s, id)
    BY <2>1
  <2>3. [Blank EXCEPT !.seen = s, !.id = id] \in Memos
    BY BlankIsMemo DEF Memos, States, Unresolved, Exposed, Terminal
  <2>4. WorkerTypeOK'
    BY <2>2, <2>3, GoTypes DEF Reply, Pcs
  <2> QED BY <1>6, <2>4 DEF ReceiveReply
<1>7. ASSUME NEW w \in Workers, FailBeforeSend(w) PROVE TypeOK'
  <2>1. PICK s \in {"UNKNOWN", "UNKNOWN_BLOCKED"} : Go(w, "armed", "replied", [Blank EXCEPT !.seen = s])
    BY <1>7 DEF FailBeforeSend
  <2>2. [Blank EXCEPT !.seen = s] \in Memos
    BY BlankIsMemo DEF Memos, States, Unresolved, Exposed, Terminal
  <2>3. WorkerTypeOK'
    BY <2>1, <2>2, GoTypes DEF Pcs
  <2> QED BY <1>7, <2>3 DEF FailBeforeSend
<1>8. ASSUME NEW w \in Workers, RecordOutcome(w) PROVE TypeOK'
  <2>1. job[w] \in Orders /\ memo[w] \in Memos /\ pc[w] = "replied"
    BY <1>8, GoTypes, FinishTypes DEF RecordOutcome, WorkerTypeOK, Go, Finish
  <2>2. [Blank EXCEPT !.id = TRUE, !.by = "RECONCILER"] \in Memos
    BY BlankIsMemo DEF Memos
  <2>3. WorkerTypeOK'
    BY <1>8, <2>2, GoTypes, FinishTypes DEF RecordOutcome, Pcs
  <2>4. LedgerTypeOK'
    BY <1>8, <2>1, AppendTypes, AddRowTypes DEF RecordOutcome, RowKinds, Memos
  <2> QED BY <1>8, <2>3, <2>4 DEF RecordOutcome
<1>9. ASSUME NEW w \in Workers, NEW o \in Orders, ReadContext(w, o) PROVE TypeOK'
  <2>1. [liveOrderContext(o) EXCEPT !.by = "RECONCILER"] \in Memos
    BY DEF liveOrderContext, Memos, Blank
  <2>2. WorkerTypeOK'
    BY <1>9, <2>1, BeginTypes DEF ReadContext, Pcs
  <2> QED BY <1>9, <2>2 DEF ReadContext
<1>10. ASSUME NEW w \in Workers, NEW o \in Orders, RecoverUnknown(w, o) PROVE TypeOK'
  <2>1. [Blank EXCEPT !.id = TRUE, !.by = "OPERATOR"] \in Memos
    BY DEF Memos, Blank
  <2>2. WorkerTypeOK'
    BY <1>10, <2>1, BeginTypes DEF RecoverUnknown, Pcs
  <2> QED BY <1>10, <2>2 DEF RecoverUnknown
<1>11. ASSUME NEW w \in Workers, RecoverPlanned(w) PROVE TypeOK'
  BY <1>11, FinishTypes, AppendTypes, AddRowTypes DEF RecoverPlanned, Pcs, RowKinds
<1>12. ASSUME NEW w \in Workers, BlockUnknown(w) PROVE TypeOK'
  BY <1>12, FinishTypes, AppendTypes DEF BlockUnknown, Pcs
<1>13. ASSUME NEW w \in Workers, BeginRecovery(w) PROVE TypeOK'
  <2>1. [memo[w] EXCEPT !.saw = rows[job[w]] \cap {"CLAIM"}] \in Memos
    BY DEF Memos, WorkerTypeOK
  <2>2. WorkerTypeOK'
    BY <1>13, <2>1, GoTypes DEF BeginRecovery, Pcs
  <2> QED BY <1>13, <2>2 DEF BeginRecovery
<1>14. ASSUME NEW w \in Workers, CommitRecovery(w) PROVE TypeOK'
  BY <1>14, FinishTypes, AppendTypes, AddRowTypes DEF CommitRecovery, Pcs, RowKinds
<1>15. ASSUME NEW w \in Workers, GetOrder(w) PROVE TypeOK'
  <2>1. pc[w] # "idle" /\ job[w] \in Orders
    BY <1>15 DEF GetOrder, WorkerTypeOK
  <2>2. normalizeOrder(job[w], memo[w]) \in Memos
    BY <2>1 DEF normalizeOrder, Memos, WorkerTypeOK, BrokerTypeOK
  <2>3. WorkerTypeOK'
    BY <1>15, <2>1, <2>2, GoTypes DEF GetOrder, WorkerTypeOK, Pcs
  <2> QED BY <1>15, <2>3 DEF GetOrder
<1>16. ASSUME NEW w \in Workers, Record(w) PROVE TypeOK'
  <2>1. WorkerTypeOK' /\ job[w] \in Orders
    BY <1>16, FinishTypes DEF Record, Pcs
  <2>2. LedgerTypeOK'
    BY <1>16, <2>1, AppendTypes DEF Record, recordReconciliation
  <2> QED BY <1>16, <2>1, <2>2 DEF Record, recordReconciliation
<1>17. ASSUME NEW w \in Workers, NEW o \in Orders, GateCancel(w, o) PROVE TypeOK'
  <2>1. [Blank EXCEPT !.seen = state[o]] \in Memos
    BY DEF Memos, Blank
  <2>2. WorkerTypeOK'
    BY <1>17, <2>1, BeginTypes DEF GateCancel, Pcs
  <2> QED BY <1>17, <2>2 DEF GateCancel
<1>18. ASSUME NEW w \in Workers, ClaimCancel(w) PROVE TypeOK'
  BY <1>18, GoTypes, AddRowTypes DEF ClaimCancel, Pcs, RowKinds
<1>19. ASSUME NEW w \in Workers, SendCancel(w) PROVE TypeOK'
  BY <1>19, GoTypes DEF SendCancel, Pcs
<1>20. ASSUME NEW w \in Workers, RecordCancel(w) PROVE TypeOK'
  <2>1. [Blank EXCEPT !.id = TRUE, !.saw = {"CANCEL_ACTION"}, !.by = "RECONCILER"] \in Memos
    BY DEF Memos
  <2>2. WorkerTypeOK' /\ job[w] \in Orders
    BY <1>20, <2>1, GoTypes, FinishTypes DEF RecordCancel, Pcs
  <2> QED BY <1>20, <2>2, AddRowTypes DEF RecordCancel, recordCancelOutcome, RowKinds
<1>21. ASSUME NEW w \in Workers, Abandon(w) PROVE TypeOK'
  BY <1>21, FinishTypes DEF Abandon, WorkerTypeOK
<1>22. ASSUME TurnKillSwitch PROVE TypeOK'
  BY <1>22 DEF TurnKillSwitch, WorkerTypeOK
<1>23. ASSUME NEW o \in Orders, Expire(o) PROVE TypeOK'
  BY <1>23 DEF Expire, WorkerTypeOK
<1>24. ASSUME NEW o \in Orders, Age(o) PROVE TypeOK'
  BY <1>24 DEF Age, WorkerTypeOK
<1>25. ASSUME NEW o \in Orders, Deliver(o) PROVE TypeOK'
  BY <1>25 DEF Deliver, BrokerMove, Statuses, BrokerOpen, Terminal, WorkerTypeOK
<1>26. ASSUME NEW o \in Orders, BrokerFill(o) PROVE TypeOK'
  BY <1>26 DEF BrokerFill, BrokerMove, BrokerInv, Statuses, BrokerOpen, Terminal, WorkerTypeOK
<1>27. ASSUME NEW o \in Orders, DeliverCancel(o) PROVE TypeOK'
  BY <1>27 DEF DeliverCancel, BrokerMove, Statuses, BrokerOpen, WorkerTypeOK
<1>28. ASSUME NEW o \in Orders, BrokerDecide(o) PROVE TypeOK'
  BY <1>28 DEF BrokerDecide, BrokerMove, Statuses, BrokerOpen, Terminal, WorkerTypeOK
<1>29. ASSUME NEW w \in Workers, CheckAccount(w) \/ CheckCancelAccount(w) PROVE TypeOK'
  <2>1. job[w] \in Orders /\ memo[w] \in Memos
    BY <1>29 DEF CheckAccount, CheckCancelAccount, WorkerTypeOK
  <2>2. WorkerTypeOK'
    BY <1>29, <2>1, GoTypes DEF CheckAccount, CheckCancelAccount, Pcs
  <2>3. UNCHANGED rows \/ \E row \in RowKinds : AddRow(job[w], row)
    BY <1>29 DEF CheckAccount, CheckCancelAccount, AuditBinding, RowKinds
  <2>4. rows' \in [Orders -> SUBSET RowKinds]
    BY <2>1, <2>3, AddRowTypes
  <2> QED BY <1>29, <2>2, <2>4 DEF CheckAccount, CheckCancelAccount
<1>30. ASSUME NEW w \in Workers, AuthorizeCancel(w) PROVE TypeOK'
  <2>1. memo[w] \in Memos
    BY <1>30 DEF AuthorizeCancel, WorkerTypeOK
  <2>2. WorkerTypeOK'
    BY <1>30, <2>1, GoTypes DEF AuthorizeCancel, Pcs
  <2> QED BY <1>30, <2>2 DEF AuthorizeCancel
<1> QED
  BY <1>1, <1>2, <1>3, <1>4, <1>5, <1>6, <1>7, <1>8, <1>9, <1>10,
     <1>11, <1>12, <1>13, <1>14, <1>15, <1>16, <1>17, <1>18, <1>19, <1>20,
     <1>21, <1>22, <1>23, <1>24, <1>25, <1>26, <1>27, <1>28, <1>29, <1>30
  DEF Next, Execute, Reconcile, Cancel, Environment, vars, WorkerTypeOK


-----------------------------------------------------------------------------
(***************************************************************************)
(* What no step can undo.                                                  *)
(***************************************************************************)

\* Workers never touch the broker's own variables, except to send.
LEMMA BrokerStep ==
  ASSUME TypeInv, [Next]_vars, NEW o \in Orders
  PROVE  /\ status[o] \in Accepted => status'[o] \in Accepted
         /\ status[o] \in Terminal \cup {"REFUSED"} =>
              status'[o] = status[o] /\ done'[o] = done[o]
         /\ done'[o] >= done[o]
         /\ status'[o] \in BrokerOpen => done'[o] < Qty
         /\ status'[o] = "FILLED" => done'[o] = Qty
         /\ status'[o] \in {"ABSENT", "REFUSED"} => done'[o] = 0
<1> USE QtyAssumption DEF TypeInv, TypeOK, BrokerInv, BrokerTypeOK, brokerVars
<1>1. CASE UNCHANGED <<status, done>>
  BY <1>1 DEF Statuses, BrokerOpen
<1>2. ASSUME NEW p \in Orders, Deliver(p) PROVE UNCHANGED done
  BY <1>2 DEF Deliver
<1>3. ASSUME NEW p \in Orders, Deliver(p) \/ BrokerFill(p) \/ DeliverCancel(p) \/ BrokerDecide(p)
      PROVE  /\ status[o] \in Accepted => status'[o] \in Accepted
             /\ status[o] \in Terminal \cup {"REFUSED"} =>
                  status'[o] = status[o] /\ done'[o] = done[o]
             /\ done'[o] >= done[o]
             /\ status'[o] \in BrokerOpen => done'[o] < Qty
             /\ status'[o] = "FILLED" => done'[o] = Qty
             /\ status'[o] \in {"ABSENT", "REFUSED"} => done'[o] = 0
  BY <1>3 DEF Deliver, BrokerFill, DeliverCancel, BrokerDecide, BrokerMove, Accepted, Statuses,
              BrokerOpen, Terminal
<1>4. ASSUME NEW w \in Workers, Execute(w) \/ Reconcile(w) \/ Cancel(w) \/ Abandon(w)
      PROVE  UNCHANGED <<status, done>>
  BY <1>4 DEF Execute, Reconcile, Cancel, Abandon, Gate, CreateLedger, Authorize, Claim, Send,
              ReceiveReply, FailBeforeSend, RecordOutcome, ReadContext, RecoverUnknown, RecoverPlanned,
              BlockUnknown, BeginRecovery, CommitRecovery, CheckAccount, CheckCancelAccount, GetOrder,
              Record, GateCancel, AuthorizeCancel, ClaimCancel, SendCancel,
              RecordCancel, recordCancelOutcome
<1> QED
  BY <1>1, <1>3, <1>4 DEF Next, Environment, vars, TurnKillSwitch, Expire, Age

\* A history row moves one order, and never a closed one.
LEMMA AppendStep ==
  ASSUME LedgerTypeOK, NEW p \in Orders, NEW s, NEW f, NEW id \in BOOLEAN, Append(p, s, f, id),
         NEW o \in Orders
  PROVE  /\ state'[o] = IF o = p THEN s ELSE state[o]
         /\ fill'[o] = IF o = p THEN f ELSE fill[o]
         /\ bound'[o] = IF o = p THEN id ELSE bound[o]
         /\ released'[o] = IF o = p /\ s \in Terminal THEN Qty - f ELSE released[o]
         /\ MayMove(state[p], s) /\ FillsAgree(s, fill[p], f, Qty)
         /\ f \in Nat /\ f >= fill[p] /\ f <= Qty
         /\ bound[p] => id
<1>1. f \in Nat /\ f >= fill[p] /\ f <= Qty
  BY QtyAssumption DEF Append, FillsAgree, LedgerTypeOK
<1> QED BY <1>1 DEF Append, LedgerTypeOK

\* The steps that add a row to order_state_history.
Moves(w, o) ==
  /\ job[w] = o
  /\ \/ CreateLedger(w) \/ Authorize(w) \/ RecordOutcome(w) \/ RecoverPlanned(w)
     \/ BlockUnknown(w) \/ CommitRecovery(w) \/ Record(w)

LEMMA OnlyMoversMove ==
  ASSUME TypeInv, [Next]_vars
  PROVE  \/ UNCHANGED <<state, fill, bound, released>>
         \/ \E w \in Workers : job[w] \in Orders /\ pc[w] # "idle" /\ Moves(w, job[w])
<1>1. ASSUME NEW w \in Workers, Execute(w) \/ Reconcile(w) \/ Cancel(w) \/ Abandon(w)
      PROVE  \/ UNCHANGED <<state, fill, bound, released>>
             \/ pc[w] # "idle" /\ Moves(w, job[w])
  BY <1>1 DEF Execute, Reconcile, Cancel, Abandon, Moves, ledgerVars, Gate, CreateLedger, Authorize,
              Claim, Send, ReceiveReply, FailBeforeSend, RecordOutcome, ReadContext, RecoverUnknown,
              RecoverPlanned, BlockUnknown, BeginRecovery, CommitRecovery, CheckAccount,
              CheckCancelAccount, GetOrder, Record, GateCancel, AuthorizeCancel, ClaimCancel, SendCancel,
              RecordCancel, recordCancelOutcome,
              Go, Finish
<1>2. ASSUME Environment PROVE UNCHANGED <<state, fill, bound, released>>
  BY <1>2 DEF Environment, TurnKillSwitch, Expire, Age, Deliver, BrokerFill, DeliverCancel,
              BrokerDecide, ledgerVars
<1>3. \A w \in Workers : pc[w] # "idle" => job[w] \in Orders
  BY DEF TypeInv, TypeOK, WorkerTypeOK
<1> QED BY <1>1, <1>2, <1>3 DEF Next, vars, ledgerVars

\* The effect of such a step on an order.
LEMMA MoveStep ==
  ASSUME TypeInv, NEW w \in Workers, job[w] \in Orders, Moves(w, job[w]), NEW o \in Orders
  PROVE  /\ state[o] # None => state'[o] # None
         /\ state[o] \notin {None, "PLANNED"} => state'[o] # "PLANNED"
         /\ state[o] \in Terminal =>
              /\ state'[o] = state[o] /\ fill'[o] = fill[o] /\ released'[o] = released[o]
              /\ bound'[o] = bound[o]
         /\ fill'[o] >= fill[o]
         /\ bound[o] => bound'[o]
         /\ state'[o] \in Exposed /\ state[o] \notin Exposed =>
              NoOtherExposed(o) /\ \A p \in Orders \ {o} : state'[p] = state[p]
<1> USE DEF TypeInv, TypeOK
<1>1. CASE CreateLedger(w)
  BY <1>1 DEF CreateLedger, LedgerTypeOK, States, Unresolved, Exposed, Terminal, None
<1>2. CASE Authorize(w)
  <2>1. /\ state[job[w]] = "PLANNED" /\ NoOtherExposed(job[w])
        /\ Append(job[w], "SUBMITTING", 0, FALSE)
    BY <1>2 DEF Authorize, MayAuthorize
  <2>2. /\ \A p \in Orders : state'[p] = IF p = job[w] THEN "SUBMITTING" ELSE state[p]
        /\ released'[o] = released[o] /\ fill'[o] >= fill[o]
        /\ bound[o] => bound'[o]
        /\ o # job[w] => fill'[o] = fill[o] /\ bound'[o] = bound[o]
    <3>1. fill[o] \in Nat
      BY QtyAssumption DEF LedgerTypeOK
    <3>2. 0 >= fill[job[w]]
      BY <2>1, QtyAssumption DEF Append, FillsAgree, LedgerTypeOK
    <3>3. (bound[o] => bound'[o]) /\ (o # job[w] => bound'[o] = bound[o])
      BY <2>1 DEF Append, LedgerTypeOK
    <3>4. \A p \in Orders : state'[p] = IF p = job[w] THEN "SUBMITTING" ELSE state[p]
      BY <2>1 DEF Append, LedgerTypeOK
    <3>5. released'[o] = released[o]
      BY <2>1 DEF Append, LedgerTypeOK, Terminal
    <3>6. fill'[o] >= fill[o] /\ (o # job[w] => fill'[o] = fill[o])
      BY <2>1, <3>1, <3>2 DEF Append, LedgerTypeOK
    <3> QED BY <3>3, <3>4, <3>5, <3>6
  <2> QED BY <2>1, <2>2 DEF Exposed, Terminal, None
<1>3. ASSUME NEW s, NEW f, NEW id \in BOOLEAN, Append(job[w], s, f, id), s # "SUBMITTING"
      PROVE  /\ state[o] # None => state'[o] # None
             /\ state[o] \notin {None, "PLANNED"} => state'[o] # "PLANNED"
             /\ state[o] \in Terminal =>
                  /\ state'[o] = state[o] /\ fill'[o] = fill[o] /\ released'[o] = released[o]
                  /\ bound'[o] = bound[o]
             /\ fill'[o] >= fill[o]
             /\ bound[o] => bound'[o]
             /\ state'[o] \in Exposed => state[o] \in Exposed
  <2>1. s \in States \ {None, "PLANNED"} /\ state[job[w]] \notin Terminal
    BY <1>3, AppendStep, LegalMoves DEF States, Unresolved, Exposed, Terminal, None
  <2>2. s \in Exposed => state[job[w]] \in Exposed
    BY <1>3, AppendStep, LegalMoves
  <2>3. fill[o] \in Nat
    BY QtyAssumption DEF LedgerTypeOK
  <2> QED BY <1>3, <2>1, <2>2, <2>3, AppendStep
<1>4. CASE RecordOutcome(w)
  BY <1>3, <1>4 DEF RecordOutcome, MemoInv, MemoOK, WorkerTypeOK, Memos, Go, Finish
<1>5. CASE RecoverPlanned(w)
  BY <1>3, <1>5 DEF RecoverPlanned
<1>6. CASE BlockUnknown(w)
  BY <1>3, <1>6 DEF BlockUnknown
<1>7. CASE CommitRecovery(w)
  BY <1>3, <1>7 DEF CommitRecovery
<1>8. CASE Record(w)
  <2>1. UNCHANGED <<state, fill, bound, released>> \/
          Append(job[w], Normalized(memo[w].seen, memo[w].qty), memo[w].qty, TRUE)
    BY <1>8 DEF Record, recordReconciliation
  <2>2. Normalized(memo[w].seen, memo[w].qty) # "SUBMITTING"
    BY <1>8 DEF Record, Normalized, Finish, MemoInv, MemoOK, Accepted, Statuses, BrokerOpen, Terminal
  <2>3. fill[o] \in Nat
    BY QtyAssumption DEF LedgerTypeOK
  <2>4. CASE UNCHANGED <<state, fill, bound, released>>
    BY <2>3, <2>4
  <2>5. CASE Append(job[w], Normalized(memo[w].seen, memo[w].qty), memo[w].qty, TRUE)
    BY <1>3, <2>2, <2>5
  <2> QED BY <2>1, <2>4, <2>5
<1> QED BY <1>1, <1>2, <1>4, <1>5, <1>6, <1>7, <1>8 DEF Moves

LEMMA LedgerStep ==
  ASSUME TypeInv, [Next]_vars, NEW o \in Orders
  PROVE  /\ state[o] # None => state'[o] # None
         /\ state[o] \notin {None, "PLANNED"} => state'[o] # "PLANNED"
         /\ state[o] \in Terminal =>
              /\ state'[o] = state[o] /\ fill'[o] = fill[o] /\ released'[o] = released[o]
              /\ bound'[o] = bound[o]
         /\ fill'[o] >= fill[o]
         /\ bound[o] => bound'[o]
         /\ state'[o] \in Exposed /\ state[o] \notin Exposed =>
              NoOtherExposed(o) /\ \A p \in Orders \ {o} : state'[p] = state[p]
<1>1. fill[o] \in Nat
  BY QtyAssumption DEF TypeInv, TypeOK, LedgerTypeOK
<1> QED BY <1>1, OnlyMoversMove, MoveStep

-----------------------------------------------------------------------------
(***************************************************************************)
(* Memories stay true, and with them the types.                            *)
(***************************************************************************)
LEMMA BystandersKeepMemo ==
  ASSUME TypeInv, [Next]_vars, NEW w \in Workers,
         pc'[w] = pc[w], job'[w] = job[w], memo'[w] = memo[w]
  PROVE  MemoOK(w)'
<1>1. CASE pc[w] = "idle"
  BY <1>1 DEF MemoOK
<1>2. CASE pc[w] # "idle"
  <2>1. job[w] \in Orders
    BY <1>2 DEF TypeInv, TypeOK, WorkerTypeOK
  <2>2. state[job[w]] # None => state'[job[w]] # None
    BY <2>1, LedgerStep
  <2>3. /\ status[job[w]] \in Accepted => status'[job[w]] \in Accepted
        /\ status[job[w]] \in Terminal \cup {"REFUSED"} =>
             status'[job[w]] = status[job[w]] /\ done'[job[w]] = done[job[w]]
        /\ done'[job[w]] >= done[job[w]]
    BY <2>1, BrokerStep
  <2>4. memo[w].qty \in Nat /\ done[job[w]] \in Nat /\ done'[job[w]] \in Nat
    BY <2>1, TypeStep, QtyAssumption
       DEF TypeInv, TypeOK, BrokerTypeOK, WorkerTypeOK, Memos
  <2> QED BY <2>2, <2>3, <2>4 DEF TypeInv, MemoInv, MemoOK
<1> QED BY <1>1, <1>2

LEMMA ActorsKeepMemo ==
  ASSUME TypeInv, [Next]_vars, NEW w \in Workers,
         Execute(w) \/ Reconcile(w) \/ Cancel(w) \/ Abandon(w)
  PROVE  MemoOK(w)'
<1> USE DEF TypeInv, TypeOK, MemoInv
<1>1. CASE \E o \in Orders : Gate(w, o) \/ ReadContext(w, o) \/ RecoverUnknown(w, o) \/ GateCancel(w, o)
  BY <1>1 DEF Gate, ReadContext, RecoverUnknown, GateCancel, Begin, WorkerTypeOK, MemoOK, ledgerVars,
              Unresolved, Exposed, None
<1>2. CASE CreateLedger(w)
  BY <1>2 DEF CreateLedger, Go, MemoOK, WorkerTypeOK, LedgerTypeOK, None
<1>3. ASSUME pc[w] \notin {"idle", "gated"}, job'[w] = job[w]
      PROVE  state'[job[w]] # None
  BY <1>3, LedgerStep DEF MemoOK, WorkerTypeOK
<1>4. CASE ReceiveReply(w)
  <2> DEFINE o == job[w]
  <2>1. ASSUME NEW s \in {"PENDING", "REJECTED", "UNKNOWN", "UNKNOWN_BLOCKED"}, NEW id \in BOOLEAN,
               Reply(w, s, id), id => s # "REJECTED" /\ status[o] \in Accepted,
               s = "REJECTED" => status[o] = "REFUSED"
        PROVE  MemoOK(w)'
    BY <1>3, <1>4, <2>1 DEF ReceiveReply, Reply, Go, MemoOK, WorkerTypeOK, Blank, brokerVars
  <2>2. CASE status[o] \in Accepted /\ Reply(w, "PENDING", TRUE)
    BY <2>1, <2>2
  <2>3. CASE status[o] = "REFUSED" /\ Reply(w, "REJECTED", FALSE)
    BY <2>1, <2>3
  <2>4. CASE \E s \in {"UNKNOWN", "UNKNOWN_BLOCKED"}, id \in BOOLEAN :
               (id => status[o] \in Accepted) /\ Reply(w, s, id)
    BY <2>1, <2>4
  <2> QED BY <1>4, <2>2, <2>3, <2>4 DEF ReceiveReply
<1>5. CASE FailBeforeSend(w)
  BY <1>3, <1>5 DEF FailBeforeSend, Go, MemoOK, WorkerTypeOK, Blank, brokerVars
<1>6. CASE GetOrder(w)
  <2>1. memo[w] \in Memos /\ job[w] \in Orders /\ done[job[w]] \in Nat
    BY <1>6, QtyAssumption DEF GetOrder, WorkerTypeOK, BrokerTypeOK
  <2> QED BY <1>3, <1>6, <2>1 DEF GetOrder, normalizeOrder, Go, MemoOK, WorkerTypeOK, Memos, brokerVars
<1>7. CASE \/ Authorize(w) \/ Claim(w) \/ Send(w) \/ BeginRecovery(w)
           \/ AuthorizeCancel(w) \/ ClaimCancel(w) \/ SendCancel(w) \/ RecordCancel(w)
  BY <1>3, <1>7 DEF Authorize, Claim, Send, BeginRecovery, AuthorizeCancel, ClaimCancel, SendCancel,
                    RecordCancel, Go, Finish, MemoOK, WorkerTypeOK
<1>8. CASE RecordOutcome(w)
  BY <1>3, <1>8 DEF RecordOutcome, Go, Finish, MemoOK, WorkerTypeOK
<1>9. CASE RecoverPlanned(w) \/ BlockUnknown(w) \/ CommitRecovery(w) \/ Record(w) \/ Abandon(w)
  BY <1>9 DEF RecoverPlanned, BlockUnknown, CommitRecovery, Record, Abandon, Finish, MemoOK, WorkerTypeOK
<1>10. CASE CheckAccount(w) \/ CheckCancelAccount(w)
  BY <1>3, <1>10 DEF CheckAccount, CheckCancelAccount, Go, MemoOK, WorkerTypeOK
<1> QED
  BY <1>1, <1>2, <1>4, <1>5, <1>6, <1>7, <1>8, <1>9, <1>10 DEF Execute, Reconcile, Cancel

LEMMA MemoStep == TypeInv /\ [Next]_vars => MemoInv'
<1> SUFFICES ASSUME TypeInv, [Next]_vars, NEW w \in Workers PROVE MemoOK(w)'
  BY DEF MemoInv
<1>1. ASSUME NEW v \in Workers, v # w, Execute(v) \/ Reconcile(v) \/ Cancel(v) \/ Abandon(v)
      PROVE  pc'[w] = pc[w] /\ job'[w] = job[w] /\ memo'[w] = memo[w]
  BY <1>1 DEF TypeInv, TypeOK, WorkerTypeOK, Execute, Reconcile, Cancel, Abandon, Gate, CreateLedger,
              Authorize, Claim, Send, ReceiveReply, Reply, FailBeforeSend, RecordOutcome, ReadContext,
              RecoverUnknown, RecoverPlanned, BlockUnknown, BeginRecovery, CommitRecovery, CheckAccount,
              CheckCancelAccount, GetOrder, Record, GateCancel, AuthorizeCancel, ClaimCancel, SendCancel,
              RecordCancel, recordCancelOutcome,
              Begin, Go, Finish
<1>2. ASSUME Environment PROVE pc'[w] = pc[w] /\ job'[w] = job[w] /\ memo'[w] = memo[w]
  BY <1>2 DEF Environment, TurnKillSwitch, Expire, Age, Deliver, BrokerFill, DeliverCancel,
              BrokerDecide, workerVars
<1>3. UNCHANGED vars => pc'[w] = pc[w] /\ job'[w] = job[w] /\ memo'[w] = memo[w]
  BY DEF vars, workerVars
<1> QED BY <1>1, <1>2, <1>3, BystandersKeepMemo, ActorsKeepMemo DEF Next

LEMMA InitTypes == Init => TypeInv
<1> SUFFICES ASSUME Init PROVE TypeInv
  OBVIOUS
<1>1. TypeOK
  BY BlankIsMemo, QtyAssumption DEF Init, TypeOK, LedgerTypeOK, PolicyTypeOK, BrokerTypeOK,
     WorkerTypeOK, Statuses, Pcs
<1>2. BrokerInv
  BY DEF Init, BrokerInv, BrokerOpen
<1>3. MemoInv
  BY DEF Init, MemoInv, MemoOK
<1> QED BY <1>1, <1>2, <1>3 DEF TypeInv

LEMMA TypeInvStep == TypeInv /\ [Next]_vars => TypeInv'
<1> SUFFICES ASSUME TypeInv, [Next]_vars PROVE TypeInv'
  OBVIOUS
<1>1. BrokerInv'
  BY BrokerStep DEF BrokerInv
<1> QED BY <1>1, TypeStep, MemoStep DEF TypeInv

(***************************************************************************)
(* Every variable keeps its type; in particular the released part of a     *)
(* reservation and the fills stay between nothing and the whole order.     *)
(***************************************************************************)
THEOREM TypeCorrect == Spec => []TypeOK
<1>1. TypeInv => TypeOK
  BY DEF TypeInv
<1> QED BY <1>1, InitTypes, TypeInvStep, PTL DEF Spec

LEMMA TypeInvariant == Spec => []TypeInv
BY InitTypes, TypeInvStep, PTL DEF Spec

(***************************************************************************)
(* A closed order stays closed, whatever late workers do.                  *)
(***************************************************************************)
THEOREM FinalStaysFinal == Spec => FinalIsFinal
<1>1. ASSUME TypeInv, [Next]_vars
      PROVE  \A o \in Orders :
               /\ state[o] \in Terminal =>
                    state'[o] = state[o] /\ fill'[o] = fill[o] /\ released'[o] = released[o]
               /\ fill'[o] >= fill[o]
               /\ bound[o] => bound'[o]
  BY <1>1, LedgerStep
<1> QED BY <1>1, TypeInvariant, PTL DEF Spec, FinalIsFinal

(***************************************************************************)
(* At most one order of the account is in a state it may be exposed in:    *)
(* only an authorization exposes an order, and it sees all the others.     *)
(***************************************************************************)
THEOREM OneOrderIsExposed == Spec => []OneOrderExposed
<1>1. Init => OneOrderExposed
  BY DEF Init, OneOrderExposed, Exposed, None
<1>2. TypeInv /\ OneOrderExposed /\ [Next]_vars => OneOrderExposed'
  <2> SUFFICES ASSUME TypeInv, OneOrderExposed, [Next]_vars, NEW o \in Orders, NEW p \in Orders,
                      state'[o] \in Exposed, state'[p] \in Exposed, o # p
               PROVE  FALSE
    BY DEF OneOrderExposed
  <2>1. CASE state[o] \in Exposed /\ state[p] \in Exposed
    BY <2>1 DEF OneOrderExposed
  <2>2. CASE state[o] \notin Exposed
    BY <2>2, LedgerStep DEF NoOtherExposed
  <2>3. CASE state[p] \notin Exposed
    BY <2>3, LedgerStep DEF NoOtherExposed
  <2> QED BY <2>1, <2>2, <2>3
<1> QED BY <1>1, <1>2, TypeInvariant, PTL DEF Spec

-----------------------------------------------------------------------------
(***************************************************************************)
(* The claim is a token: a worker is armed with it once, and spends it.    *)
(***************************************************************************)
\* A step of one worker leaves the others where they are.
LEMMA OthersStay ==
  ASSUME TypeInv, NEW w \in Workers, Execute(w) \/ Reconcile(w) \/ Cancel(w) \/ Abandon(w)
  PROVE  \A v \in Workers \ {w} : pc'[v] = pc[v] /\ job'[v] = job[v]
BY DEF TypeInv, TypeOK, WorkerTypeOK, Execute, Reconcile, Cancel, Abandon, Gate, CreateLedger,
       Authorize, Claim, Send, ReceiveReply, Reply, FailBeforeSend, RecordOutcome, ReadContext,
       RecoverUnknown, RecoverPlanned, BlockUnknown, BeginRecovery, CommitRecovery, CheckAccount,
       CheckCancelAccount, GetOrder, Record, GateCancel, AuthorizeCancel, ClaimCancel, SendCancel,
       RecordCancel, Begin, Go, Finish

LEMMA OnlyClaimArms ==
  ASSUME TypeInv, NEW w \in Workers, ~ Claim(w),
         Execute(w) \/ Reconcile(w) \/ Cancel(w) \/ Abandon(w)
  PROVE  pc'[w] # "armed"
<1> USE DEF TypeInv, TypeOK, WorkerTypeOK, Begin, Go, Finish
<1>1. CASE Execute(w)
  BY <1>1 DEF Execute, Gate, CreateLedger, Authorize, Send, ReceiveReply, Reply, FailBeforeSend,
              RecordOutcome
<1>2. CASE Reconcile(w) \/ Abandon(w)
  BY <1>2 DEF Reconcile, Abandon, ReadContext, RecoverUnknown, RecoverPlanned, BlockUnknown,
              BeginRecovery, CommitRecovery, CheckAccount, GetOrder, Record
<1>3. CASE Cancel(w)
  BY <1>3 DEF Cancel, GateCancel, CheckCancelAccount, AuthorizeCancel, ClaimCancel, SendCancel,
              RecordCancel
<1> QED BY <1>1, <1>2, <1>3

LEMMA TokenStep ==
  ASSUME TypeInv, DispatchToken, [Next]_vars
  PROVE  DispatchToken'
<1> USE DEF TypeInv, TypeOK, LedgerTypeOK, BrokerTypeOK, WorkerTypeOK, ledgerVars, brokerVars, workerVars
<1>1. CASE UNCHANGED <<rows, sent, pc, job>>
  BY <1>1 DEF DispatchToken, SentAtMostOnce, Armed
<1>2. ASSUME NEW w \in Workers, Claim(w) PROVE DispatchToken'
  BY <1>2 DEF DispatchToken, SentAtMostOnce, Armed, Claim, MayClaim, Go, AddRow
<1>3. ASSUME NEW w \in Workers, Send(w) PROVE DispatchToken'
  BY <1>3 DEF DispatchToken, SentAtMostOnce, Armed, Send, Go
<1>4. ASSUME NEW w \in Workers, UNCHANGED sent, pc'[w] # "armed",
             \A o \in Orders : rows[o] \subseteq rows'[o],
             \A v \in Workers \ {w} : pc'[v] = pc[v] /\ job'[v] = job[v]
      PROVE  DispatchToken'
  BY <1>4 DEF DispatchToken, SentAtMostOnce, Armed
<1>5. ASSUME NEW w \in Workers, Execute(w) \/ Reconcile(w) \/ Cancel(w) \/ Abandon(w),
             ~ Claim(w), ~ Send(w)
      PROVE  /\ UNCHANGED sent /\ pc'[w] # "armed"
             /\ \A o \in Orders : rows[o] \subseteq rows'[o]
             /\ \A v \in Workers \ {w} : pc'[v] = pc[v] /\ job'[v] = job[v]
  <2>1. UNCHANGED sent
    BY <1>5 DEF Execute, Reconcile, Cancel, Abandon, Gate, CreateLedger, Authorize, ReceiveReply, Reply,
                FailBeforeSend, RecordOutcome, ReadContext, RecoverUnknown, RecoverPlanned,
                BlockUnknown, BeginRecovery, CommitRecovery, CheckAccount, CheckCancelAccount, GetOrder,
                Record, GateCancel, AuthorizeCancel, ClaimCancel, SendCancel,
              RecordCancel, recordCancelOutcome
  <2>3. UNCHANGED rows \/ \E row : AddRow(job[w], row)
    BY <1>5 DEF Execute, Reconcile, Cancel, Abandon, Gate, CreateLedger, Authorize, ReceiveReply, Reply,
                FailBeforeSend, RecordOutcome, ReadContext, RecoverUnknown, RecoverPlanned,
                BlockUnknown, BeginRecovery, CommitRecovery, CheckAccount, CheckCancelAccount, GetOrder,
                Record, GateCancel, AuthorizeCancel, ClaimCancel, SendCancel,
              RecordCancel, recordCancelOutcome,
                AuditBinding
  <2>4. \A o \in Orders : rows[o] \subseteq rows'[o]
    BY <2>3 DEF AddRow
  <2>2. pc'[w] # "armed" /\ \A v \in Workers \ {w} : pc'[v] = pc[v] /\ job'[v] = job[v]
    BY <1>5, OnlyClaimArms, OthersStay
  <2> QED BY <2>1, <2>2, <2>4
<1>6. CASE Environment
  BY <1>1, <1>6 DEF Environment, TurnKillSwitch, Expire, Age, Deliver, BrokerFill, DeliverCancel,
              BrokerDecide
<1>7. UNCHANGED vars => UNCHANGED <<rows, sent, pc, job>>
  BY DEF vars
<1> QED BY <1>1, <1>2, <1>3, <1>4, <1>5, <1>6, <1>7 DEF Next

(***************************************************************************)
(* At most one submit request ever leaves the engine for an order, and     *)
(* never without its claim: DispatchToken is what makes it inductive.      *)
(***************************************************************************)
THEOREM DispatchedAtMostOnce == Spec => []DispatchToken
<1>1. Init => DispatchToken
  BY DEF Init, DispatchToken, SentAtMostOnce, Armed
<1> QED BY <1>1, TokenStep, TypeInvariant, PTL DEF Spec

-----------------------------------------------------------------------------
(***************************************************************************)
(* What the ledger says of the broker is true.                             *)
(***************************************************************************)
LEMMA FollowStep ==
  ASSUME TypeInv, LedgerFollowsBroker, [Next]_vars
  PROVE  LedgerFollowsBroker'
<1> USE DEF TypeInv, TypeOK
<1> SUFFICES ASSUME NEW o \in Orders
             PROVE  /\ fill'[o] <= done'[o]
                    /\ bound'[o] => status'[o] \in Accepted
                    /\ state'[o] \in {"FILLED", "CANCELED"} =>
                         status'[o] = state'[o] /\ fill'[o] = done'[o]
  BY DEF LedgerFollowsBroker
<1>0. /\ fill[o] \in Nat /\ done[o] \in Nat /\ done'[o] \in Nat
      /\ fill[o] <= done[o] /\ (bound[o] => status[o] \in Accepted)
      /\ state[o] \in {"FILLED", "CANCELED"} => status[o] = state[o] /\ fill[o] = done[o]
  BY TypeStep, QtyAssumption DEF LedgerTypeOK, BrokerTypeOK, LedgerFollowsBroker
<1>1. CASE UNCHANGED <<state, fill, bound, released>>
  BY <1>0, <1>1, BrokerStep DEF Terminal
<1>2. ASSUME NEW w \in Workers, job[w] \in Orders, UNCHANGED <<status, done>>, NEW s, NEW f,
             NEW id \in BOOLEAN, Append(job[w], s, f, id),
             f <= done[job[w]], id => status[job[w]] \in Accepted,
             s \in {"FILLED", "CANCELED"} => status[job[w]] = s /\ f = done[job[w]]
      PROVE  /\ fill'[o] <= done'[o]
             /\ bound'[o] => status'[o] \in Accepted
             /\ state'[o] \in {"FILLED", "CANCELED"} =>
                  status'[o] = state'[o] /\ fill'[o] = done'[o]
  BY <1>0, <1>2, AppendStep
<1>3. ASSUME NEW w \in Workers, pc[w] # "idle", job[w] \in Orders, Moves(w, job[w])
      PROVE  /\ fill'[o] <= done'[o]
             /\ bound'[o] => status'[o] \in Accepted
             /\ state'[o] \in {"FILLED", "CANCELED"} =>
                  status'[o] = state'[o] /\ fill'[o] = done'[o]
  <2>0. UNCHANGED <<status, done>> /\ done[job[w]] \in Nat /\ memo[w] \in Memos
    <3>1. UNCHANGED <<status, done>>
      BY <1>3 DEF Moves, CreateLedger, Authorize, RecordOutcome, RecoverPlanned, BlockUnknown,
                  CommitRecovery, Record, brokerVars
    <3> QED BY <1>3, <3>1, QtyAssumption DEF BrokerTypeOK, WorkerTypeOK
  <2>1. CASE CreateLedger(w)
    BY <1>0, <2>0, <2>1 DEF CreateLedger, LedgerTypeOK
  <2>2. CASE Authorize(w) \/ RecoverPlanned(w) \/ CommitRecovery(w)
    <3>1. \E s \in {"SUBMITTING", "REJECTED"} : Append(job[w], s, 0, FALSE)
      BY <2>2 DEF Authorize, RecoverPlanned, CommitRecovery
    <3>2. 0 <= done[job[w]]
      BY <2>0
    <3> QED BY <1>2, <1>3, <2>0, <3>1, <3>2
  <2>3. CASE RecordOutcome(w)
    <3>1. /\ Append(job[w], memo[w].seen, 0, memo[w].id) /\ memo[w].id \in BOOLEAN
          /\ memo[w].seen \notin {"FILLED", "CANCELED"}
          /\ memo[w].id => status[job[w]] \in Accepted
      BY <1>3, <2>0, <2>3 DEF RecordOutcome, Go, Finish, MemoInv, MemoOK, Memos
    <3>2. 0 <= done[job[w]]
      BY <2>0
    <3> QED BY <1>2, <1>3, <2>0, <3>1, <3>2
  <2>4. CASE BlockUnknown(w)
    <3>1. Append(job[w], "UNKNOWN_BLOCKED", fill[job[w]], FALSE) /\ fill[job[w]] <= done[job[w]]
      BY <1>3, <2>4 DEF BlockUnknown, LedgerFollowsBroker
    <3> QED BY <1>2, <1>3, <2>0, <3>1
  <2>5. CASE Record(w)
    <3> DEFINE s == Normalized(memo[w].seen, memo[w].qty)
    <3>1. /\ status[job[w]] \in Accepted
          /\ memo[w].qty <= done[job[w]]
          /\ memo[w].seen \in Terminal => status[job[w]] = memo[w].seen /\ memo[w].qty = done[job[w]]
      BY <1>3, <2>5 DEF Record, Finish, MemoInv, MemoOK
    <3>2. s \in {"FILLED", "CANCELED"} => memo[w].seen = s
      BY DEF Normalized
    <3>3. UNCHANGED <<state, fill, bound, released>> \/ Append(job[w], s, memo[w].qty, TRUE)
      BY <2>5 DEF Record, recordReconciliation
    <3>4. CASE Append(job[w], s, memo[w].qty, TRUE)
      <4> HIDE DEF s
      <4> QED BY <1>2, <1>3, <2>0, <3>1, <3>2, <3>4 DEF Terminal
    <3> QED BY <1>1, <3>3, <3>4
  <2> QED BY <1>3, <2>1, <2>2, <2>3, <2>4, <2>5 DEF Moves
<1> QED BY <1>1, <1>3, OnlyMoversMove

(***************************************************************************)
(* The ledger never runs ahead of the broker, never names a broker order   *)
(* that does not exist, and closes an order only as the broker closed it.  *)
(***************************************************************************)
THEOREM LedgerIsTrue == Spec => []LedgerFollowsBroker
<1>1. Init => LedgerFollowsBroker
  BY DEF Init, LedgerFollowsBroker, None
<1> QED BY <1>1, FollowStep, TypeInvariant, PTL DEF Spec

-----------------------------------------------------------------------------
(***************************************************************************)
(* An order leaves UNKNOWN_BLOCKED only by the last step of an operator's  *)
(* own request, and the broker holds the order then: the guard of the      *)
(* ledger compares the actor with the state, and the memory of such a      *)
(* request is true.                                                        *)
(***************************************************************************)
THEOREM OperatorUnblocks == Spec => OnlyOperatorUnblocks
<1>1. ASSUME TypeInv, [Next]_vars, NEW o \in Orders,
             state[o] = "UNKNOWN_BLOCKED", state'[o] # state[o]
      PROVE  /\ status[o] \in Accepted
             /\ \E w \in Workers : /\ job[w] = o /\ memo[w].by = "OPERATOR"
                                   /\ pc[w] = "observed" /\ pc'[w] = "idle"
  <2> USE DEF TypeInv, TypeOK, LedgerTypeOK, WorkerTypeOK
  <2>1. PICK w \in Workers : job[w] \in Orders /\ pc[w] # "idle" /\ Moves(w, job[w])
    BY <1>1, OnlyMoversMove
  <2>2. ASSUME NEW s, NEW f, NEW id, Append(job[w], s, f, id) PROVE o = job[w]
    BY <1>1, <2>1, <2>2 DEF Append
  <2>3. CASE CreateLedger(w)
    BY <1>1, <2>1, <2>3 DEF CreateLedger, None
  <2>4. CASE Authorize(w) \/ RecoverPlanned(w)
    BY <1>1, <2>2, <2>4 DEF Authorize, MayAuthorize, RecoverPlanned, NeverAuthorized
  <2>5. CASE RecordOutcome(w) \/ BlockUnknown(w) \/ CommitRecovery(w)
    BY <1>1, <2>2, <2>5 DEF RecordOutcome, BlockUnknown, MayBlock, CommitRecovery, ProvedUnsent
  <2>6. CASE Record(w)
    <3>1. /\ memo[w].by = "OPERATOR" <=> state[job[w]] = "UNKNOWN_BLOCKED"
          /\ Append(job[w], Normalized(memo[w].seen, memo[w].qty), memo[w].qty, TRUE)
      BY <1>1, <2>6 DEF Record, recordReconciliation
    <3>2. o = job[w]
      BY <2>2, <3>1
    <3>3. status[job[w]] \in Accepted /\ pc[w] = "observed" /\ pc'[w] = "idle"
      BY <1>1, <2>1, <2>6 DEF Record, Finish, MemoInv, MemoOK
    <3> QED BY <1>1, <3>1, <3>2, <3>3
  <2> QED BY <2>1, <2>3, <2>4, <2>5, <2>6 DEF Moves
<1>2. ASSUME TypeInv, [Next]_vars
      PROVE  \A o \in Orders :
               state[o] = "UNKNOWN_BLOCKED" /\ state'[o] # state[o] =>
                 /\ status[o] \in Accepted
                 /\ \E w \in Workers : /\ job[w] = o /\ memo[w].by = "OPERATOR"
                                       /\ pc[w] = "observed" /\ pc'[w] = "idle"
  BY <1>1, <1>2
<1> QED BY <1>2, TypeInvariant, PTL DEF Spec, OnlyOperatorUnblocks

-----------------------------------------------------------------------------
(***************************************************************************)
(* The cancel claim is a token as well: written once for an order, it arms *)
(* one worker, who sends the only cancel request there is.                 *)
(***************************************************************************)
LEMMA CancelTokenStep ==
  ASSUME TypeInv, CancelToken, [Next]_vars
  PROVE  CancelToken'
<1> USE DEF TypeInv, TypeOK, LedgerTypeOK, BrokerTypeOK, WorkerTypeOK, ledgerVars, brokerVars, workerVars
<1>1. CASE UNCHANGED <<rows, csent, pc, job>>
  BY <1>1 DEF CancelToken, CancelArmed
<1>2. ASSUME NEW w \in Workers, ClaimCancel(w) PROVE CancelToken'
  BY <1>2 DEF CancelToken, CancelArmed, ClaimCancel, MayClaimCancel, Go, AddRow
<1>3. ASSUME NEW w \in Workers, SendCancel(w) PROVE CancelToken'
  BY <1>3 DEF CancelToken, CancelArmed, SendCancel, Go
<1>4. ASSUME NEW w \in Workers, UNCHANGED csent, pc'[w] # "carmed",
             \A o \in Orders : rows[o] \subseteq rows'[o],
             \A v \in Workers \ {w} : pc'[v] = pc[v] /\ job'[v] = job[v]
      PROVE  CancelToken'
  BY <1>4 DEF CancelToken, CancelArmed
<1>5. ASSUME NEW w \in Workers, Execute(w) \/ Reconcile(w) \/ Cancel(w) \/ Abandon(w),
             ~ ClaimCancel(w), ~ SendCancel(w)
      PROVE  /\ UNCHANGED csent /\ pc'[w] # "carmed"
             /\ \A o \in Orders : rows[o] \subseteq rows'[o]
             /\ \A v \in Workers \ {w} : pc'[v] = pc[v] /\ job'[v] = job[v]
  <2>1. UNCHANGED csent
    BY <1>5 DEF Execute, Reconcile, Cancel, Abandon, Gate, CreateLedger, Authorize, Claim, Send,
                ReceiveReply, Reply, FailBeforeSend, RecordOutcome, ReadContext, RecoverUnknown,
                RecoverPlanned, BlockUnknown, BeginRecovery, CommitRecovery, CheckAccount,
                CheckCancelAccount, GetOrder, Record, GateCancel, AuthorizeCancel, RecordCancel
  <2>2. UNCHANGED rows \/ \E row : AddRow(job[w], row)
    BY <1>5 DEF Execute, Reconcile, Cancel, Abandon, Gate, CreateLedger, Authorize, Claim, Send,
                ReceiveReply, Reply, FailBeforeSend, RecordOutcome, ReadContext, RecoverUnknown,
                RecoverPlanned, BlockUnknown, BeginRecovery, CommitRecovery, CheckAccount,
                CheckCancelAccount, GetOrder, Record, GateCancel, AuthorizeCancel, RecordCancel,
                recordCancelOutcome, AuditBinding
  <2>3. \A o \in Orders : rows[o] \subseteq rows'[o]
    BY <2>2 DEF AddRow
  <2>4. pc'[w] # "carmed" /\ \A v \in Workers \ {w} : pc'[v] = pc[v] /\ job'[v] = job[v]
    BY <1>5 DEF Execute, Reconcile, Cancel, Abandon, Gate, CreateLedger, Authorize, Claim, Send,
                ReceiveReply, Reply, FailBeforeSend, RecordOutcome, ReadContext, RecoverUnknown,
                RecoverPlanned, BlockUnknown, BeginRecovery, CommitRecovery, CheckAccount,
                CheckCancelAccount, GetOrder, Record, GateCancel, AuthorizeCancel, RecordCancel,
                Begin, Go, Finish
  <2> QED BY <2>1, <2>3, <2>4
<1>6. CASE Environment
  BY <1>1, <1>6 DEF Environment, TurnKillSwitch, Expire, Age, Deliver, BrokerFill, DeliverCancel,
                    BrokerDecide
<1>7. UNCHANGED vars => UNCHANGED <<rows, csent, pc, job>>
  BY DEF vars
<1> QED BY <1>1, <1>2, <1>3, <1>4, <1>5, <1>6, <1>7 DEF Next

(***************************************************************************)
(* At most one cancel request ever leaves the engine for an order, and     *)
(* never without its claim, whether the first was answered or not.         *)
(***************************************************************************)
THEOREM CanceledAtMostOnce == Spec => []CancelToken
<1>1. Init => CancelToken
  BY DEF Init, CancelToken, CancelArmed
<1> QED BY <1>1, CancelTokenStep, TypeInvariant, PTL DEF Spec

-----------------------------------------------------------------------------
(***************************************************************************)
(* The account's promise, with the recovery as it is coded: it may close   *)
(* an order whose claim its snapshot misses, and no other step may.        *)
(***************************************************************************)

\* A submit request is on the wire before the broker has the order.
WireInv ==
  \A o \in Orders :
    /\ o \in wire => sent[o] = 1 /\ status[o] = "ABSENT"
    /\ status[o] # "ABSENT" => sent[o] = 1 /\ o \notin wire

\* Claims are written for authorized orders only, outcomes for claimed ones;
\* an order closed as never sent has no outcome, and one closed before its
\* authorization will never have one.
RowInv ==
  \A o \in Orders :
    /\ "CLAIM" \in rows[o] => "AUTHORIZATION" \in rows[o] /\ state[o] \notin {None, "PLANNED"}
    /\ "SUBMIT_EVIDENCE" \in rows[o] => "CLAIM" \in rows[o]
    /\ "PRE_AUTH_NON_DISPATCH" \in rows[o] => "AUTHORIZATION" \notin rows[o]
    /\ rows[o] \cap {"NON_DISPATCH", "PRE_AUTH_NON_DISPATCH"} # {} =>
         "SUBMIT_EVIDENCE" \notin rows[o] /\ ~ bound[o] /\ state[o] = "REJECTED"

\* A closed order that no recovery has overlooked is no exposure any more
\* and keeps what it traded; an open one keeps all of its reservation.
CloseInv ==
  \A o \in Orders :
    /\ state[o] \in Terminal /\ ~ Overlooked(o) =>
         ~ Exposure(o) /\ released[o] = Qty - done[o]
    /\ state[o] \notin Terminal => released[o] = 0

PromiseInv == TypeInv /\ DispatchToken /\ OneOrderExposed /\ WireInv /\ RowInv /\ CloseInv

-----------------------------------------------------------------------------
LEMMA WireStep ==
  ASSUME TypeInv, DispatchToken, WireInv, [Next]_vars
  PROVE  WireInv'
<1> USE DEF TypeInv, TypeOK, BrokerTypeOK, brokerVars
<1>1. CASE UNCHANGED <<wire, sent, status>>
  BY <1>1 DEF WireInv
<1>2. ASSUME NEW w \in Workers, Send(w) PROVE WireInv'
  BY <1>2 DEF WireInv, Send, Go, DispatchToken, Armed, WorkerTypeOK
<1>3. ASSUME NEW w \in Workers, Execute(w) \/ Reconcile(w) \/ Cancel(w) \/ Abandon(w), ~ Send(w)
      PROVE  UNCHANGED <<wire, sent, status>>
  BY <1>3 DEF Execute, Reconcile, Cancel, Abandon, Gate, CreateLedger, Authorize, Claim, ReceiveReply,
              FailBeforeSend, RecordOutcome, ReadContext, RecoverUnknown, RecoverPlanned, BlockUnknown,
              BeginRecovery, CommitRecovery, CheckAccount, CheckCancelAccount, GetOrder, Record,
              GateCancel, AuthorizeCancel, ClaimCancel, SendCancel,
              RecordCancel, recordCancelOutcome
<1>4. ASSUME NEW p \in Orders, Deliver(p) \/ BrokerFill(p) \/ DeliverCancel(p) \/ BrokerDecide(p)
      PROVE  WireInv'
  BY <1>4 DEF Deliver, BrokerFill, DeliverCancel, BrokerDecide, BrokerMove, WireInv, BrokerOpen
<1> QED
  BY <1>1, <1>2, <1>3, <1>4 DEF Next, Environment, vars, TurnKillSwitch, Expire, Age

\* The audit rows the invariant is about.
DispatchRows == {"AUTHORIZATION", "CLAIM", "SUBMIT_EVIDENCE", "NON_DISPATCH", "PRE_AUTH_NON_DISPATCH"}

\* The steps that write one of them.
Rows(w, o) ==
  /\ job[w] = o
  /\ Authorize(w) \/ Claim(w) \/ RecordOutcome(w) \/ RecoverPlanned(w) \/ CommitRecovery(w)

LEMMA RowsStep ==
  ASSUME TypeInv, [Next]_vars, NEW o \in Orders
  PROVE  \/ rows'[o] \cap DispatchRows = rows[o] \cap DispatchRows
         \/ \E w \in Workers : Rows(w, o)
<1> USE DEF TypeInv, TypeOK, LedgerTypeOK, ledgerVars
<1>1. CASE UNCHANGED rows
  BY <1>1
<1>2. ASSUME NEW w \in Workers, NEW row \in RowKinds \ DispatchRows, AddRow(job[w], row)
      PROVE  rows'[o] \cap DispatchRows = rows[o] \cap DispatchRows
  BY <1>2 DEF AddRow
<1>3. ASSUME NEW w \in Workers, Rows(w, job[w]), job[w] # o
      PROVE  rows'[o] = rows[o]
  BY <1>3 DEF Rows, Authorize, Claim, RecordOutcome, RecoverPlanned, CommitRecovery, AddRow
<1>4. ASSUME NEW w \in Workers,
             ClaimCancel(w) \/ RecordCancel(w) \/ CheckAccount(w) \/ CheckCancelAccount(w)
      PROVE  UNCHANGED rows \/ \E row \in RowKinds \ DispatchRows : AddRow(job[w], row)
  BY <1>4 DEF ClaimCancel, RecordCancel, CheckAccount, CheckCancelAccount,
              recordCancelOutcome, AuditBinding, RowKinds, DispatchRows
<1>5. ASSUME NEW w \in Workers, Execute(w) \/ Reconcile(w) \/ Cancel(w) \/ Abandon(w),
             ~ Rows(w, job[w]),
             ~ (ClaimCancel(w) \/ RecordCancel(w) \/ CheckAccount(w) \/ CheckCancelAccount(w))
      PROVE  UNCHANGED rows
  BY <1>5 DEF Rows, Execute, Reconcile, Cancel, Abandon, Gate, CreateLedger, Send,
              ReceiveReply, FailBeforeSend, ReadContext, RecoverUnknown,
              BlockUnknown, BeginRecovery, GetOrder, Record, GateCancel, AuthorizeCancel, SendCancel
<1>6. Environment \/ UNCHANGED vars => UNCHANGED rows
  BY DEF Environment, TurnKillSwitch, Expire, Age, Deliver, BrokerFill, DeliverCancel, BrokerDecide, vars
<1>7. \A w \in Workers : Rows(w, job[w]) /\ job[w] = o => Rows(w, o)
  OBVIOUS
<1> QED BY <1>1, <1>2, <1>3, <1>4, <1>5, <1>6, <1>7 DEF Next

LEMMA RowStep ==
  ASSUME TypeInv, RowInv, [Next]_vars
  PROVE  RowInv'
<1> USE DEF TypeInv, TypeOK, LedgerTypeOK
<1> DEFINE
  Good(rs, s, b) ==
    /\ "CLAIM" \in rs => "AUTHORIZATION" \in rs /\ s \notin {None, "PLANNED"}
    /\ "SUBMIT_EVIDENCE" \in rs => "CLAIM" \in rs
    /\ "PRE_AUTH_NON_DISPATCH" \in rs => "AUTHORIZATION" \notin rs
    /\ rs \cap {"NON_DISPATCH", "PRE_AUTH_NON_DISPATCH"} # {} =>
         "SUBMIT_EVIDENCE" \notin rs /\ ~ b /\ s = "REJECTED"
<1> SUFFICES ASSUME NEW o \in Orders PROVE Good(rows'[o], state'[o], bound'[o])
  BY DEF RowInv
<1>0. Good(rows[o], state[o], bound[o])
  BY DEF RowInv
<1>1. CASE rows'[o] \cap DispatchRows = rows[o] \cap DispatchRows
  <2>1. \A row \in DispatchRows : row \in rows'[o] <=> row \in rows[o]
    BY <1>1
  <2>2. state[o] \notin {None, "PLANNED"} => state'[o] \notin {None, "PLANNED"}
    BY LedgerStep
  <2>3. state[o] = "REJECTED" => state'[o] = "REJECTED" /\ bound'[o] = bound[o]
    BY LedgerStep DEF Terminal
  <2> QED BY <1>0, <2>1, <2>2, <2>3 DEF DispatchRows
<1>2. ASSUME NEW w \in Workers, job[w] = o, Authorize(w)
      PROVE  Good(rows'[o], state'[o], bound'[o])
  <2>1. /\ rows'[o] = rows[o] \cup {"AUTHORIZATION"} /\ state'[o] = "SUBMITTING"
        /\ state[o] = "PLANNED" /\ "PRE_AUTH_NON_DISPATCH" \notin rows[o]
    BY <1>2 DEF Authorize, MayAuthorize, AddRow, Append
  <2> QED BY <1>0, <2>1 DEF None
<1>3. ASSUME NEW w \in Workers, job[w] = o, Claim(w)
      PROVE  Good(rows'[o], state'[o], bound'[o])
  <2>1. /\ rows'[o] = rows[o] \cup {"CLAIM"} /\ state'[o] = "SUBMITTING"
        /\ "AUTHORIZATION" \in rows[o] /\ state[o] = "SUBMITTING"
    BY <1>3 DEF Claim, MayClaim, AddRow
  <2> QED BY <1>0, <2>1 DEF None
<1>4. ASSUME NEW w \in Workers, job[w] = o, RecordOutcome(w)
      PROVE  Good(rows'[o], state'[o], bound'[o])
  <2>1. /\ rows'[o] = rows[o] \cup {"SUBMIT_EVIDENCE"} /\ "CLAIM" \in rows[o]
        /\ state[o] = "SUBMITTING"
    BY <1>4 DEF RecordOutcome, AddRow
  <2>2. state'[o] \notin {None, "PLANNED"}
    BY <2>1, LedgerStep DEF None
  <2> QED BY <1>0, <2>1, <2>2
<1>5. ASSUME NEW w \in Workers, job[w] = o, RecoverPlanned(w)
      PROVE  Good(rows'[o], state'[o], bound'[o])
  <2>1. /\ rows'[o] = rows[o] \cup {"PRE_AUTH_NON_DISPATCH"} /\ state'[o] = "REJECTED"
        /\ ~ bound'[o] /\ "AUTHORIZATION" \notin rows[o]
    BY <1>5 DEF RecoverPlanned, NeverAuthorized, AddRow, Append
  <2> QED BY <1>0, <2>1
<1>6. ASSUME NEW w \in Workers, job[w] = o, CommitRecovery(w)
      PROVE  Good(rows'[o], state'[o], bound'[o])
  <2>1. /\ rows'[o] = rows[o] \cup {"NON_DISPATCH"} /\ state'[o] = "REJECTED"
        /\ ~ bound'[o] /\ "SUBMIT_EVIDENCE" \notin rows[o]
    BY <1>6 DEF CommitRecovery, ProvedUnsent, AddRow, Append
  <2> QED BY <1>0, <2>1 DEF None
<1> HIDE DEF Good
<1> QED BY <1>1, <1>2, <1>3, <1>4, <1>5, <1>6, RowsStep DEF Rows

-----------------------------------------------------------------------------
\* Once the broker has closed an order, or while it was never claimed,
\* nothing about it can trade.
LEMMA QuietOrders ==
  ASSUME TypeInv, DispatchToken, WireInv, NEW o \in Orders,
         status[o] \in Terminal \cup {"REFUSED"} \/ "CLAIM" \notin rows[o]
  PROVE  ~ Exposure(o) /\ ("CLAIM" \notin rows[o] => done[o] = 0)
<1> USE DEF Exposure, DispatchToken, SentAtMostOnce, WireInv, Armed
<1>1. CASE status[o] \in Terminal \cup {"REFUSED"}
  BY <1>1 DEF BrokerOpen, Terminal
<1>2. CASE "CLAIM" \notin rows[o]
  <2>1. sent[o] \in Nat /\ ~ (sent[o] > 0)
    BY <1>2 DEF TypeInv, TypeOK, BrokerTypeOK
  <2>2. o \notin wire /\ status[o] = "ABSENT"
    BY <2>1
  <2> QED BY <1>2, <2>2 DEF TypeInv, BrokerInv, BrokerOpen
<1>3. "CLAIM" \notin rows[o] => status[o] = "ABSENT"
  BY DEF TypeInv, TypeOK, BrokerTypeOK
<1> QED BY <1>1, <1>2, <1>3 DEF TypeInv, BrokerInv

\* Only a claim exposes an order.
LEMMA ExposureStep ==
  ASSUME TypeInv, [Next]_vars, NEW o \in Orders, ~ Exposure(o)
  PROVE  \/ ~ Exposure(o)' /\ done'[o] = done[o]
         \/ \E w \in Workers : job[w] = o /\ Claim(w)
<1> USE DEF TypeInv, TypeOK, BrokerTypeOK, WorkerTypeOK, brokerVars, workerVars
<1>1. /\ o \notin wire /\ status[o] \notin BrokerOpen \cup {"REPLACED"}
      /\ \A w \in Workers : ~ (pc[w] = "armed" /\ job[w] = o)
  BY DEF Exposure, Armed
<1>2. CASE UNCHANGED <<wire, status, done, pc, job>>
  BY <1>1, <1>2 DEF Exposure, Armed
<1>3. ASSUME NEW p \in Orders, Deliver(p) \/ BrokerFill(p) \/ DeliverCancel(p) \/ BrokerDecide(p)
      PROVE  ~ Exposure(o)' /\ done'[o] = done[o]
  BY <1>1, <1>3 DEF Deliver, BrokerFill, DeliverCancel, BrokerDecide, BrokerMove, BrokerOpen, Exposure, Armed
<1>4. ASSUME NEW w \in Workers, Send(w) PROVE ~ Exposure(o)' /\ done'[o] = done[o]
  BY <1>1, <1>4 DEF Send, Go, Exposure, Armed
<1>5. ASSUME NEW w \in Workers, Claim(w), job[w] # o PROVE ~ Exposure(o)' /\ done'[o] = done[o]
  BY <1>1, <1>5 DEF Claim, Go, Exposure, Armed
<1>6. ASSUME NEW w \in Workers, Execute(w) \/ Reconcile(w) \/ Cancel(w) \/ Abandon(w),
             ~ Send(w), ~ Claim(w)
      PROVE  ~ Exposure(o)' /\ done'[o] = done[o]
  <2>1. UNCHANGED <<wire, status, done>>
    BY <1>6 DEF Execute, Reconcile, Cancel, Abandon, Gate, CreateLedger, Authorize, ReceiveReply,
                FailBeforeSend, RecordOutcome, ReadContext, RecoverUnknown, RecoverPlanned,
                BlockUnknown, BeginRecovery, CommitRecovery, CheckAccount, CheckCancelAccount, GetOrder,
                Record, GateCancel, AuthorizeCancel, ClaimCancel, SendCancel,
              RecordCancel, recordCancelOutcome
  <2>2. pc'[w] # "armed" /\ \A v \in Workers \ {w} : pc'[v] = pc[v] /\ job'[v] = job[v]
    BY <1>6, OnlyClaimArms, OthersStay
  <2> QED BY <1>1, <2>1, <2>2 DEF Exposure, Armed
<1> QED
  BY <1>2, <1>3, <1>4, <1>5, <1>6 DEF Next, Environment, vars, TurnKillSwitch, Expire, Age

\* The ways an order's ledger moves: the last is the race of the recovery.
LEMMA MoveShapes ==
  ASSUME PromiseInv, NEW w \in Workers, pc[w] # "idle", job[w] \in Orders, Moves(w, job[w])
  PROVE  LET o == job[w] IN
         \/ UNCHANGED <<state, released>>
         \/ /\ state[o] = None /\ state' = [state EXCEPT ![o] = "PLANNED"]
            /\ UNCHANGED released
         \/ /\ state[o] = "PLANNED" /\ NoOtherExposed(o)
            /\ state' = [state EXCEPT ![o] = "SUBMITTING"] /\ UNCHANGED released
         \/ \E s \in Exposed : /\ state[o] \in Exposed
                               /\ state' = [state EXCEPT ![o] = s] /\ UNCHANGED released
         \/ \E s \in Terminal : /\ state[o] \in Exposed \cup {"PLANNED"}
                                /\ state' = [state EXCEPT ![o] = s]
                                /\ ~ Exposure(o)
                                /\ released' = [released EXCEPT ![o] = Qty - done[o]]
         \/ CommitRecovery(w) /\ "CLAIM" \in rows[o]
<1> DEFINE o == job[w]
<1> USE DEF PromiseInv, TypeInv, TypeOK
<1>1. CASE CreateLedger(w)
  BY <1>1 DEF CreateLedger
<1>2. ASSUME NEW s, NEW f, NEW id \in BOOLEAN, Append(o, s, f, id), s # "SUBMITTING",
             s \in Terminal => ~ Exposure(o) /\ f = done[o]
      PROVE  \/ \E t \in Exposed : /\ state[o] \in Exposed
                                   /\ state' = [state EXCEPT ![o] = t] /\ UNCHANGED released
             \/ \E t \in Terminal : /\ state[o] \in Exposed \cup {"PLANNED"}
                                    /\ state' = [state EXCEPT ![o] = t]
                                    /\ ~ Exposure(o)
                                    /\ released' = [released EXCEPT ![o] = Qty - done[o]]
  <2>1. state[o] \in Exposed \cup {"PLANNED"} /\ s \in Exposed \cup Terminal
    BY <1>2, LegalMoves DEF Append, States, Unresolved
  <2>2. s \in Exposed => state[o] \in Exposed
    BY <1>2, LegalMoves DEF Append
  <2>3. s \notin Terminal => UNCHANGED released
    BY <1>2 DEF Append, LedgerTypeOK
  <2> QED BY <1>2, <2>1, <2>2, <2>3 DEF Append
<1>3. CASE Authorize(w)
  <2>1. Append(o, "SUBMITTING", 0, FALSE) /\ state[o] = "PLANNED" /\ NoOtherExposed(o)
    BY <1>3 DEF Authorize, MayAuthorize
  <2> QED BY <2>1 DEF Append, Terminal, LedgerTypeOK
<1>4. CASE RecordOutcome(w)
  <2>1. /\ Append(o, memo[w].seen, 0, memo[w].id) /\ memo[w].id \in BOOLEAN
        /\ memo[w].seen \in {"PENDING", "REJECTED", "UNKNOWN", "UNKNOWN_BLOCKED"}
        /\ memo[w].seen = "REJECTED" => status[o] = "REFUSED"
    BY <1>4 DEF RecordOutcome, Go, Finish, MemoInv, MemoOK, WorkerTypeOK, Memos
  <2>2. status[o] = "REFUSED" => ~ Exposure(o) /\ done[o] = 0
    BY QuietOrders DEF BrokerInv
  <2> QED BY <1>2, <2>1, <2>2 DEF Terminal
<1>5. CASE RecoverPlanned(w)
  <2>1. Append(o, "REJECTED", 0, FALSE) /\ "CLAIM" \notin rows[o]
    BY <1>5 DEF RecoverPlanned, NeverAuthorized, RowInv
  <2> QED BY <1>2, <2>1, QuietOrders
<1>6. CASE CommitRecovery(w) /\ "CLAIM" \notin rows[o]
  <2>1. Append(o, "REJECTED", 0, FALSE)
    BY <1>6 DEF CommitRecovery
  <2> QED BY <1>2, <1>6, <2>1, QuietOrders
<1>7. CASE BlockUnknown(w)
  <2>1. Append(o, "UNKNOWN_BLOCKED", fill[o], FALSE)
    BY <1>7 DEF BlockUnknown
  <2> QED BY <1>2, <2>1 DEF Terminal
<1>8. CASE Record(w)
  <2> DEFINE s == Normalized(memo[w].seen, memo[w].qty)
  <2>1. UNCHANGED <<state, released>> \/ Append(o, s, memo[w].qty, TRUE)
    BY <1>8 DEF Record, recordReconciliation
  <2>2. /\ memo[w].seen \in Accepted
        /\ memo[w].seen \in Terminal => status[o] = memo[w].seen /\ memo[w].qty = done[o]
    BY <1>8 DEF Record, Finish, MemoInv, MemoOK
  <2>3. s # "SUBMITTING" /\ (s \in Terminal => memo[w].seen = s)
    BY <2>2 DEF Normalized, Terminal, Accepted, Statuses, BrokerOpen
  <2>4. s \in Terminal => ~ Exposure(o) /\ memo[w].qty = done[o]
    BY <2>2, <2>3, QuietOrders
  <2> HIDE DEF s
  <2> QED BY <1>2, <2>1, <2>3, <2>4
<1> QED BY <1>1, <1>3, <1>4, <1>5, <1>6, <1>7, <1>8 DEF Moves

LEMMA CloseStep ==
  ASSUME PromiseInv, [Next]_vars
  PROVE  CloseInv'
<1> USE DEF PromiseInv, TypeInv, TypeOK, LedgerTypeOK
<1> DEFINE
  Closed(o) == /\ state'[o] \in Terminal /\ ~ Overlooked(o)' =>
                    ~ Exposure(o)' /\ released'[o] = Qty - done'[o]
               /\ state'[o] \notin Terminal => released'[o] = 0
<1> SUFFICES ASSUME NEW o \in Orders PROVE Closed(o)
  BY DEF CloseInv
<1>0. Overlooked(o) => Overlooked(o)'
  <2>1. \A row \in DispatchRows : row \in rows[o] => row \in rows'[o]
    <3>1. ASSUME NEW w \in Workers, Rows(w, o) PROVE rows[o] \subseteq rows'[o]
      <4>1. \E row : AddRow(o, row)
        BY <3>1 DEF Rows, Authorize, Claim, RecordOutcome, RecoverPlanned, CommitRecovery
      <4> QED BY <4>1 DEF AddRow
    <3> QED BY <3>1, RowsStep
  <2> QED BY <2>1 DEF Overlooked, DispatchRows
<1>1. ASSUME ~ Exposure(o), state[o] # "SUBMITTING"
      PROVE  ~ Exposure(o)' /\ done'[o] = done[o]
  BY <1>1, ExposureStep DEF Claim, MayClaim
<1>2. CASE state'[o] = state[o] /\ released'[o] = released[o]
  BY <1>0, <1>1, <1>2 DEF CloseInv, Terminal
<1>3. ASSUME NEW w \in Workers, pc[w] # "idle", job[w] \in Orders, Moves(w, job[w]),
             ~ (state'[o] = state[o] /\ released'[o] = released[o])
      PROVE  Closed(o)
  <2>1. \/ UNCHANGED <<state, released>>
        \/ /\ state[job[w]] = None /\ state' = [state EXCEPT ![job[w]] = "PLANNED"]
           /\ UNCHANGED released
        \/ /\ state[job[w]] = "PLANNED"
           /\ state' = [state EXCEPT ![job[w]] = "SUBMITTING"] /\ UNCHANGED released
        \/ \E s \in Exposed : /\ state[job[w]] \in Exposed
                              /\ state' = [state EXCEPT ![job[w]] = s] /\ UNCHANGED released
        \/ \E s \in Terminal : /\ state[job[w]] \in Exposed \cup {"PLANNED"}
                               /\ state' = [state EXCEPT ![job[w]] = s]
                               /\ ~ Exposure(job[w])
                               /\ released' = [released EXCEPT ![job[w]] = Qty - done[job[w]]]
        \/ CommitRecovery(w) /\ "CLAIM" \in rows[job[w]]
    BY <1>3, MoveShapes
  <2>2. CASE CommitRecovery(w) /\ "CLAIM" \in rows[job[w]]
    <3>1. /\ state' = [state EXCEPT ![job[w]] = "REJECTED"]
          /\ \A p \in Orders : p # job[w] => released'[p] = released[p]
          /\ rows' = [rows EXCEPT ![job[w]] = @ \cup {"NON_DISPATCH"}]
      BY <2>2 DEF CommitRecovery, Append, AddRow
    <3>2. o = job[w]
      BY <1>3, <3>1
    <3>3. state'[o] \in Terminal /\ Overlooked(o)'
      BY <2>2, <3>1, <3>2 DEF Overlooked, Terminal
    <3> QED BY <3>3
  <2>3. CASE ~ CommitRecovery(w) \/ "CLAIM" \notin rows[job[w]]
    <3>1. o = job[w] /\ state[o] \notin Terminal
      BY <1>3, <2>1, <2>3 DEF Terminal, Exposed, None
    <3>2. CASE UNCHANGED released /\ state'[o] \notin Terminal
      BY <3>1, <3>2 DEF CloseInv
    <3>3. CASE \E s \in Terminal : /\ state' = [state EXCEPT ![o] = s]
                                   /\ ~ Exposure(o)
                                   /\ released' = [released EXCEPT ![o] = Qty - done[o]]
      <4>1. UNCHANGED done
        BY <1>3 DEF Moves, CreateLedger, Authorize, RecordOutcome, RecoverPlanned, BlockUnknown,
                    CommitRecovery, Record, brokerVars
      <4>2. ~ Exposure(o)'
        BY <3>3, ExposureStep DEF Claim, MayClaim, Terminal
      <4> QED BY <3>1, <3>3, <4>1, <4>2
    <3>4. "PLANNED" \notin Terminal /\ "SUBMITTING" \notin Terminal /\ Exposed \cap Terminal = {}
      BY DEF Terminal, Exposed
    <3> QED BY <1>3, <2>1, <2>3, <3>1, <3>2, <3>3, <3>4
  <2> QED BY <2>2, <2>3
<1> QED BY <1>2, <1>3, OnlyMoversMove

LEMMA PromiseInvariant == Spec => []PromiseInv
<1>1. Init => WireInv /\ RowInv /\ CloseInv
  BY DEF Init, WireInv, RowInv, CloseInv, Terminal, None
<1>2. TypeInv /\ DispatchToken /\ OneOrderExposed /\ WireInv /\ RowInv /\ CloseInv /\ [Next]_vars
        => WireInv' /\ RowInv' /\ CloseInv'
  BY WireStep, RowStep, CloseStep DEF PromiseInv
<1> QED
  BY <1>1, <1>2, TypeInvariant, DispatchedAtMostOnce, OneOrderIsExposed, PTL DEF Spec, PromiseInv

LEMMA ExposureIsClaimed ==
  ASSUME PromiseInv, NEW o \in Orders, Exposure(o), ~ Overlooked(o)
  PROVE  state[o] \in Exposed
<1>1. "CLAIM" \in rows[o]
  BY QuietOrders DEF PromiseInv
<1>2. state[o] \notin {None, "PLANNED"} /\ state[o] \notin Terminal
  BY <1>1 DEF PromiseInv, RowInv, CloseInv
<1> QED BY <1>2 DEF PromiseInv, TypeInv, TypeOK, LedgerTypeOK, States, Unresolved

(***************************************************************************)
(* Closing an order as never sent excludes its other ends: what was closed *)
(* before its authorization is never authorized, claimed or sent, and no   *)
(* recorded answer belongs to an order closed either way.                  *)
(***************************************************************************)
THEOREM NonDispatchExcludes == Spec => []NonDispatchIsExclusive
<1>1. PromiseInv => NonDispatchIsExclusive
  <2> SUFFICES ASSUME PromiseInv, NEW o \in Orders
               PROVE  /\ "PRE_AUTH_NON_DISPATCH" \in rows[o] =>
                           rows[o] \cap {"AUTHORIZATION", "CLAIM"} = {} /\ sent[o] = 0
                      /\ rows[o] \cap {"NON_DISPATCH", "PRE_AUTH_NON_DISPATCH"} # {} =>
                           "SUBMIT_EVIDENCE" \notin rows[o] /\ ~ bound[o] /\ state[o] = "REJECTED"
    BY DEF NonDispatchIsExclusive
  <2>1. "CLAIM" \notin rows[o] => sent[o] = 0
    BY DEF PromiseInv, TypeInv, TypeOK, BrokerTypeOK, DispatchToken, SentAtMostOnce
  <2> QED BY <2>1 DEF PromiseInv, RowInv
<1> QED BY <1>1, PromiseInvariant, PTL

(***************************************************************************)
(* Nothing of a reservation is released while the broker could still trade *)
(* the order, and what is kept afterwards is what was traded; except for   *)
(* an order a recovery has overlooked.                                     *)
(***************************************************************************)
THEOREM ReservationsCover == Spec => []ReservationCoversExposure
<1>1. PromiseInv => ReservationCoversExposure
  <2> SUFFICES ASSUME PromiseInv, NEW o \in Orders, ~ Overlooked(o)
               PROVE  /\ Exposure(o) => state[o] \in Exposed /\ released[o] = 0
                      /\ released[o] > 0 => Qty - released[o] = done[o]
    BY DEF ReservationCoversExposure
  <2>1. done[o] \in Int /\ Qty \in Int
    BY QtyAssumption DEF PromiseInv, TypeInv, TypeOK, BrokerTypeOK
  <2> QED BY <2>1, ExposureIsClaimed DEF PromiseInv, CloseInv, Exposed, Terminal
<1> QED BY <1>1, PromiseInvariant, PTL

(***************************************************************************)
(* Of the orders no recovery has overlooked at most one is, or can still   *)
(* become, executable at the broker.                                       *)
(***************************************************************************)
THEOREM OneExposureAtBroker == Spec => []OneBrokerExposure
<1>1. PromiseInv => OneBrokerExposure
  BY ExposureIsClaimed DEF PromiseInv, OneOrderExposed, OneBrokerExposure
<1> QED BY <1>1, PromiseInvariant, PTL

-----------------------------------------------------------------------------
(***************************************************************************)
(* The implementation of the promise.                                      *)
(***************************************************************************)
PhaseMap == [o \in Orders |-> Phase(state[o])]
KeptMap == [o \in Orders |-> IF state[o] = None THEN 0 ELSE Qty - released[o]]

LEMMA MoveKeepsPromise ==
  ASSUME PromiseInv, NEW w \in Workers, pc[w] # "idle", job[w] \in Orders,
         Moves(w, job[w]), UNCHANGED done
  PROVE  Promise!Next \/ RecoveryRace \/ UNCHANGED <<PhaseMap, KeptMap>>
<1> DEFINE o == job[w]
<1> USE DEF PhaseMap, KeptMap, Promise!Next
<1>1. /\ state \in [Orders -> States \cup {None}] /\ released \in [Orders -> 0 .. Qty]
      /\ done \in [Orders -> 0 .. Qty] /\ Qty \in Nat
  BY QtyAssumption DEF PromiseInv, TypeInv, TypeOK, LedgerTypeOK, BrokerTypeOK
<1>2. CASE UNCHANGED <<state, released>>
  BY <1>2
<1>3. CASE state[o] = None /\ state' = [state EXCEPT ![o] = "PLANNED"] /\ UNCHANGED released
  <2>1. released[o] = 0
    BY <1>3 DEF PromiseInv, CloseInv, Terminal, None
  <2>2. PhaseMap' = [PhaseMap EXCEPT ![o] = "reserved"] /\ PhaseMap[o] = "new"
    BY <1>1, <1>3 DEF Phase, None
  <2>3. KeptMap' = [KeptMap EXCEPT ![o] = Qty]
    <3>1. Qty - released[o] = Qty /\ released' = released /\ state'[o] # None
      BY <1>1, <1>3, <2>1 DEF None
    <3> QED BY <1>1, <1>3, <3>1
  <2> QED BY <2>2, <2>3 DEF Promise!Reserve, Promise!Move
<1>4. CASE /\ state[o] = "PLANNED" /\ NoOtherExposed(o)
           /\ state' = [state EXCEPT ![o] = "SUBMITTING"] /\ UNCHANGED released
  <2>1. PhaseMap' = [PhaseMap EXCEPT ![o] = "live"] /\ PhaseMap[o] = "reserved"
    BY <1>1, <1>4 DEF Phase, None, Exposed
  <2>2. \A p \in Orders : PhaseMap[p] # "live"
    BY <1>4, <2>1 DEF Phase, NoOtherExposed
  <2>3. KeptMap' = KeptMap
    BY <1>1, <1>4 DEF None
  <2> QED BY <2>1, <2>2, <2>3 DEF Promise!Dispatch, Promise!Move
<1>5. ASSUME NEW s \in Exposed, state[o] \in Exposed, state' = [state EXCEPT ![o] = s], UNCHANGED released
      PROVE  UNCHANGED <<PhaseMap, KeptMap>>
  BY <1>1, <1>5 DEF Phase, None, Exposed
<1>6. ASSUME NEW s \in Terminal, state[o] \in Exposed \cup {"PLANNED"},
             state' = [state EXCEPT ![o] = s], released' = [released EXCEPT ![o] = Qty - done[o]]
      PROVE  Promise!Next
  <2>1. PhaseMap' = [PhaseMap EXCEPT ![o] = "closed"] /\ PhaseMap[o] \in {"reserved", "live"}
    BY <1>1, <1>6 DEF Phase, None, Exposed, Terminal
  <2>2. released'[o] = Qty - done[o] /\ Qty - (Qty - done[o]) = done[o] /\ state'[o] # None
    BY <1>1, <1>6 DEF Terminal, None
  <2>3. KeptMap' = [KeptMap EXCEPT ![o] = done[o]]
    BY <1>1, <1>6, <2>2
  <2> QED BY <2>1, <2>3 DEF Promise!Close, Promise!Move
<1>7. CASE CommitRecovery(w) /\ "CLAIM" \in rows[o]
  BY <1>7 DEF RecoveryRace
<1> QED BY <1>2, <1>3, <1>4, <1>5, <1>6, <1>7, MoveShapes

LEMMA BrokerKeepsPromise ==
  ASSUME PromiseInv, [Next]_vars, UNCHANGED <<state, released>>
  PROVE  Promise!Next \/ RecoveryRace \/ UNCHANGED <<PhaseMap, done, KeptMap>>
<1> USE DEF PhaseMap, KeptMap
<1>1. CASE UNCHANGED done
  BY <1>1
<1>2. ASSUME NEW o \in Orders, BrokerFill(o), ~ Overlooked(o) PROVE Promise!Trade(o)
  <2>1. state[o] \in Exposed
    BY <1>2, ExposureIsClaimed DEF BrokerFill, Exposure
  <2>2. PhaseMap[o] = "live"
    BY <2>1 DEF Phase, Exposed, None
  <2>3. done \in [Orders -> 0 .. Qty] /\ done[o] < Qty
    BY <1>2 DEF BrokerFill, PromiseInv, TypeInv, TypeOK, BrokerTypeOK, BrokerInv
  <2>4. done[o] + 1 \in done[o] + 1 .. Qty
    BY <2>3, QtyAssumption
  <2>5. done' = [done EXCEPT ![o] = done[o] + 1]
    BY <1>2 DEF BrokerFill
  <2> QED BY <2>2, <2>4, <2>5 DEF Promise!Trade
<1>3. ASSUME NEW w \in Workers, Execute(w) \/ Reconcile(w) \/ Cancel(w) \/ Abandon(w) PROVE UNCHANGED done
  BY <1>3 DEF Execute, Reconcile, Cancel, Abandon, Gate, CreateLedger, Authorize, Claim, Send,
              ReceiveReply, FailBeforeSend, RecordOutcome, ReadContext, RecoverUnknown, RecoverPlanned,
              BlockUnknown, BeginRecovery, CommitRecovery, CheckAccount, CheckCancelAccount, GetOrder,
              Record, GateCancel, AuthorizeCancel, ClaimCancel, SendCancel,
              RecordCancel, recordCancelOutcome, brokerVars
<1>4. ASSUME Environment, \A o \in Orders : ~ BrokerFill(o) PROVE UNCHANGED done
  BY <1>4 DEF Environment, TurnKillSwitch, Expire, Age, Deliver, DeliverCancel, BrokerDecide, brokerVars
<1>5. ASSUME NEW o \in Orders, BrokerFill(o), Overlooked(o) PROVE RecoveryRace
  BY <1>5 DEF RecoveryRace
<1> QED BY <1>1, <1>2, <1>3, <1>4, <1>5 DEF Next, vars, brokerVars, Promise!Next

(***************************************************************************)
(* The live order path implements the account's promise: every step of a   *)
(* request, of the broker or of the clock is a step of the promise, or     *)
(* none, or belongs to the race of the recovery.                           *)
(***************************************************************************)
THEOREM PromiseIsKept == Spec => KeepsPromise
<1>1. Init => Promise!Init
  <2> SUFFICES ASSUME Init PROVE Promise!Init
    OBVIOUS
  <2>1. [o \in Orders |-> Phase(state[o])] = [o \in Orders |-> "new"]
    BY DEF Init, Phase, None
  <2>2. [o \in Orders |-> IF state[o] = None THEN 0 ELSE Qty - released[o]] = [o \in Orders |-> 0]
    BY DEF Init
  <2> QED BY <2>1, <2>2 DEF Init, Promise!Init
<1>2. PromiseInv /\ [Next]_vars => [Promise!Next \/ RecoveryRace]_(Promise!vars)
  <2> SUFFICES ASSUME PromiseInv, [Next]_vars
               PROVE  Promise!Next \/ RecoveryRace \/ UNCHANGED <<PhaseMap, done, KeptMap>>
    BY DEF Promise!vars, PhaseMap, KeptMap
  <2>1. CASE UNCHANGED <<state, fill, bound, released>>
    BY <2>1, BrokerKeepsPromise
  <2>2. ASSUME NEW w \in Workers, pc[w] # "idle", job[w] \in Orders, Moves(w, job[w])
        PROVE  Promise!Next \/ RecoveryRace \/ UNCHANGED <<PhaseMap, done, KeptMap>>
    <3>1. UNCHANGED done
      BY <2>2 DEF Moves, CreateLedger, Authorize, RecordOutcome, RecoverPlanned, BlockUnknown,
                  CommitRecovery, Record, brokerVars
    <3> QED BY <2>2, <3>1, MoveKeepsPromise
  <2> QED BY <2>1, <2>2, OnlyMoversMove DEF PromiseInv
<1> QED BY <1>1, <1>2, PromiseInvariant, PTL DEF KeepsPromise, Spec

=============================================================================
