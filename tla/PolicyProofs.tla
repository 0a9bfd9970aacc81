---------------------------- MODULE PolicyProofs ----------------------------
(***************************************************************************)
(* For every number of requests and executions: no claim outside the       *)
(* policy in force, switches that alternate, activations that advance, and *)
(* no return of a superseded configuration.                                *)
(*                                                                         *)
(* ClaimInv says who holds the account row and what a checked claim knows; *)
(* LogInv relates the four logs to each other and every snapshot to the    *)
(* logs it is a prefix of.                                                 *)
(***************************************************************************)
EXTENDS SafetyPolicy, TLAPS

(* Rows are appended to one log, and they are rows of that log.            *)
LEMMA LatestType ==
  ASSUME NEW S, NEW rows \in Seq(S), rows # <<>>
  PROVE  Latest(rows) \in S
BY DEF Latest

LEMMA ActiveType ==
  ASSUME NEW l \in Log PROVE Active(l) \in Nat
<1>1. l.activations \in Seq(Nat \ {0}) BY DEF Log
<1>2. CASE l.activations = <<>> BY <1>2 DEF Active
<1>3. CASE l.activations # <<>> BY <1>1, <1>3, LatestType DEF Active
<1>q. QED BY <1>2, <1>3

LEMMA OneRow ==
  ASSUME NEW S, NEW x \in S, NEW y \in S
  PROVE  <<>> \in Seq(S) /\ <<x>> \in Seq(S) /\ <<x, y>> \in Seq(S)
OBVIOUS

LEMMA SavedType ==
  ASSUME NEW l, NEW c \in Contents PROVE SavedRows(c, l) \in Seq(Contents)
<1>1. SavedRows(c, l) = <<>> \/ SavedRows(c, l) = <<c>> BY Zenon DEF SavedRows
<1>q. QED BY <1>1, OneRow

LEMMA ActivatedType ==
  ASSUME NEW l, NEW v \in Nat \ {0} PROVE ActivatedRows(v, l) \in Seq(Nat \ {0})
<1>1. ActivatedRows(v, l) = <<>> \/ ActivatedRows(v, l) = <<v>> BY Zenon DEF ActivatedRows
<1>q. QED BY <1>1, OneRow

LEMMA PromotedType ==
  ASSUME NEW l \in Log, NEW s \in {"GRANTED", "REVOKED"}
  PROVE  PromotedRows(s, l) \in Seq(PromotionRows)
<1> DEFINE row(x) == [state |-> x, config |-> Active(l)]
<1>1. \/ PromotedRows(s, l) = <<>>
      \/ Active(l) # 0 /\ PromotedRows(s, l) = <<row(s)>>
      \/ Active(l) # 0 /\ PromotedRows(s, l) = <<row("REVOKED"), row("GRANTED")>>
  BY Zenon DEF PromotedRows
<1>2. Active(l) # 0 => row("GRANTED") \in PromotionRows /\ row("REVOKED") \in PromotionRows
  BY ActiveType DEF PromotionRows
<1>3. Active(l) # 0 /\ PromotedRows(s, l) = <<row(s)>>
        => PromotedRows(s, l) \in Seq(PromotionRows)
  BY <1>2, OneRow
<1>4. Active(l) # 0 /\ PromotedRows(s, l) = <<row("REVOKED"), row("GRANTED")>>
        => PromotedRows(s, l) \in Seq(PromotionRows)
  BY <1>2, OneRow
<1>5. <<>> \in Seq(PromotionRows) OBVIOUS
<1> HIDE DEF row
<1>q. QED BY <1>1, <1>3, <1>4, <1>5

LEMMA KilledType ==
  ASSUME NEW l, NEW k \in KillStates PROVE KilledRows(k, l) \in Seq(KillStates)
<1>1. \/ KilledRows(k, l) = <<>> \/ KilledRows(k, l) = <<k>>
      \/ KilledRows(k, l) = <<"ENGAGED", "DISENGAGED">>
  BY Zenon DEF KilledRows
<1>q. QED BY <1>1, OneRow DEF KillStates

LEMMA CommandKinds ==
  ASSUME NEW cmd \in Commands
  PROVE  \/ cmd.op = "SAVE" /\ cmd.arg \in Contents
         \/ cmd.op = "ACTIVATE" /\ cmd.arg \in Nat \ {0}
         \/ cmd.op = "PROMOTE" /\ cmd.arg \in {"GRANTED", "REVOKED"}
         \/ cmd.op = "KILL" /\ cmd.arg \in KillStates
BY DEF Commands, CommandsOn

LEMMA RowsByKind ==
  ASSUME NEW cmd, NEW l
  PROVE  /\ cmd.op = "SAVE" => LogOf(cmd) = "versions" /\ Rows(cmd, l) = SavedRows(cmd.arg, l)
         /\ cmd.op = "ACTIVATE" =>
              LogOf(cmd) = "activations" /\ Rows(cmd, l) = ActivatedRows(cmd.arg, l)
         /\ cmd.op = "PROMOTE" =>
              LogOf(cmd) = "promotions" /\ Rows(cmd, l) = PromotedRows(cmd.arg, l)
         /\ cmd.op = "KILL" => LogOf(cmd) = "kills" /\ Rows(cmd, l) = KilledRows(cmd.arg, l)
BY DEF LogOf, Rows

-----------------------------------------------------------------------------
LEMMA JobTypes ==
  ASSUME TypeOK, NEW r \in Requests, job[r].phase \in {"WAITING", "HOLDING"}
  PROVE  job[r] \in [phase : JobPhases, cmd : Commands, snap : Log]
BY DEF TypeOK, Job

LEMMA Appended ==
  ASSUME NEW S, NEW s \in Seq(S), NEW t \in Seq(S) PROVE s \o t \in Seq(S)
OBVIOUS

\* Two rows of one log stay rows of that log.
LEMMA LogGrows ==
  ASSUME TypeOK, NEW r \in Requests, CommitCommand(r)
  PROVE  /\ log' \in Log /\ job[r].cmd \in Commands /\ job[r].snap \in Log
         /\ log' = [log EXCEPT ![LogOf(job[r].cmd)] = @ \o Rows(job[r].cmd, job[r].snap)]
<1> DEFINE cmd == job[r].cmd
           snap == job[r].snap
<1>1. cmd \in Commands /\ snap \in Log BY JobTypes DEF CommitCommand
<1>2. log' = [log EXCEPT ![LogOf(cmd)] = @ \o Rows(cmd, snap)] BY DEF CommitCommand
<1>3. log \in Log BY DEF TypeOK
<1> HIDE DEF cmd, snap
<1>4. ASSUME cmd.op = "SAVE" PROVE log' \in Log
  <2>1. LogOf(cmd) = "versions" BY <1>4, RowsByKind
  <2>2. Rows(cmd, snap) \in Seq(Contents) BY <1>1, <1>4, RowsByKind, CommandKinds, SavedType
  <2>3. log.versions \o Rows(cmd, snap) \in Seq(Contents) BY <1>3, <2>2, Appended DEF Log
  <2>4. log' = [log EXCEPT !.versions = log.versions \o Rows(cmd, snap)] BY <1>2, <2>1, Zenon
  <2>5. \A x \in Seq(Contents) : [log EXCEPT !.versions = x] \in Log BY <1>3 DEF Log
  <2>q. QED BY <2>3, <2>4, <2>5
<1>5. ASSUME cmd.op = "ACTIVATE" PROVE log' \in Log
  <2>1. LogOf(cmd) = "activations" BY <1>5, RowsByKind
  <2>2. Rows(cmd, snap) \in Seq(Nat \ {0}) BY <1>1, <1>5, RowsByKind, CommandKinds, ActivatedType
  <2>3. log.activations \o Rows(cmd, snap) \in Seq(Nat \ {0}) BY <1>3, <2>2, Appended DEF Log
  <2>4. log' = [log EXCEPT !.activations = log.activations \o Rows(cmd, snap)] BY <1>2, <2>1, Zenon
  <2>5. \A x \in Seq(Nat \ {0}) : [log EXCEPT !.activations = x] \in Log BY <1>3 DEF Log
  <2>q. QED BY <2>3, <2>4, <2>5
<1>6. ASSUME cmd.op = "PROMOTE" PROVE log' \in Log
  <2>1. LogOf(cmd) = "promotions" BY <1>6, RowsByKind
  <2>2. Rows(cmd, snap) \in Seq(PromotionRows) BY <1>1, <1>6, RowsByKind, CommandKinds, PromotedType
  <2>3. log.promotions \o Rows(cmd, snap) \in Seq(PromotionRows) BY <1>3, <2>2, Appended DEF Log
  <2>4. log' = [log EXCEPT !.promotions = log.promotions \o Rows(cmd, snap)] BY <1>2, <2>1, Zenon
  <2>5. \A x \in Seq(PromotionRows) : [log EXCEPT !.promotions = x] \in Log BY <1>3 DEF Log
  <2>q. QED BY <2>3, <2>4, <2>5
<1>7. ASSUME cmd.op = "KILL" PROVE log' \in Log
  <2>1. LogOf(cmd) = "kills" BY <1>7, RowsByKind
  <2>2. Rows(cmd, snap) \in Seq(KillStates) BY <1>1, <1>7, RowsByKind, CommandKinds, KilledType
  <2>3. log.kills \o Rows(cmd, snap) \in Seq(KillStates) BY <1>3, <2>2, Appended DEF Log
  <2>4. log' = [log EXCEPT !.kills = log.kills \o Rows(cmd, snap)] BY <1>2, <2>1, Zenon
  <2>5. \A x \in Seq(KillStates) : [log EXCEPT !.kills = x] \in Log BY <1>3 DEF Log
  <2>q. QED BY <2>3, <2>4, <2>5
<1>8. log' \in Log BY <1>1, <1>4, <1>5, <1>6, <1>7, CommandKinds
<1>q. QED BY <1>1, <1>2, <1>8 DEF cmd, snap

LEMMA AnswerType ==
  ASSUME TypeOK, NEW r \in Requests, NEW o \in Ops, NEW w \in BOOLEAN, NEW a \in Answers,
         Answer(r, o, w, a)
  PROVE  job' \in [Requests -> Job]
BY DEF TypeOK, Answer, Job

LEMMA CommitsType ==
  ASSUME TypeOK, NEW r \in Requests, job[r].cmd.op \in Ops, NEW w \in BOOLEAN, Commits(r, w)
  PROVE  job' \in [Requests -> Job]
BY DEF TypeOK, Commits, Job

LEMMA TypeStep == TypeOK /\ [Next]_vars => TypeOK'
<1> SUFFICES ASSUME TypeOK, [Next]_vars PROVE TypeOK' OBVIOUS
<1>1. ASSUME NEW r \in Requests, BeginCommand(r) PROVE TypeOK'
  <2>1. PICK cmd \in CommandsOn(DOMAIN log.versions) :
          job' = [job EXCEPT ![r] = [phase |-> "WAITING", cmd |-> cmd, snap |-> log]]
    BY <1>1 DEF BeginCommand
  <2>2. log.versions \in Seq(Contents) /\ log \in Log BY DEF TypeOK, Log
  <2>3. DOMAIN log.versions \subseteq Nat \ {0} BY <2>2
  <2>4. cmd \in Commands BY <2>1, <2>3 DEF CommandsOn, Commands
  <2>5. [phase |-> "WAITING", cmd |-> cmd, snap |-> log] \in Job
    BY <2>2, <2>4 DEF Job, JobPhases
  <2>q. QED BY <1>1, <2>1, <2>5 DEF TypeOK, BeginCommand
<1>2. ASSUME NEW r \in Requests, LockAccount(r) PROVE TypeOK'
  <2>1. job[r] \in [phase : JobPhases, cmd : Commands, snap : Log]
    BY <1>2, JobTypes DEF LockAccount
  <2>2. [job[r] EXCEPT !.phase = "HOLDING"] \in Job BY <2>1 DEF Job, JobPhases
  <2>q. QED BY <1>2, <2>2 DEF TypeOK, LockAccount
<1>3. ASSUME NEW r \in Requests, CommitCommand(r) PROVE TypeOK'
  <2>1. job[r] \in [phase : JobPhases, cmd : Commands, snap : Log]
    BY <1>3, JobTypes DEF CommitCommand
  <2>2. job[r].cmd.op \in Ops BY <2>1, CommandKinds DEF Ops
  <2>3. \/ Answer(r, job[r].cmd.op, FALSE, "REFUSED")
        \/ Commits(r, Rows(job[r].cmd, job[r].snap) # <<>>)
    BY <1>3 DEF CommitCommand
  <2>w. FALSE \in BOOLEAN /\ (Rows(job[r].cmd, job[r].snap) # <<>>) \in BOOLEAN
    BY Zenon
  <2>r. "REFUSED" \in Answers BY DEF Answers
  <2>4. job' \in [Requests -> Job]
    <3>1. CASE Answer(r, job[r].cmd.op, FALSE, "REFUSED")
      BY <1>3, <2>2, <2>w, <2>r, <3>1, AnswerType
    <3>2. CASE Commits(r, Rows(job[r].cmd, job[r].snap) # <<>>)
      BY <1>3, <2>2, <2>w, <3>2, CommitsType
    <3>q. QED BY <2>3, <3>1, <3>2
  <2>q. QED BY <1>3, <2>4, LogGrows DEF TypeOK, CommitCommand
<1>4. ASSUME NEW r \in Requests, AbortCommand(r) PROVE TypeOK'
  <2>1. job[r].cmd.op \in Ops BY <1>4, JobTypes, CommandKinds DEF AbortCommand, Ops
  <2>2. job' \in [Requests -> Job] BY <1>4, <2>1, AnswerType DEF AbortCommand, Answers
  <2>q. QED BY <1>4, <2>2 DEF TypeOK, AbortCommand
<1>5. ASSUME NEW r \in Requests, ReadBack(r) \/ ReadBackFails(r) PROVE TypeOK'
  <2>1. job[r] \in [phase : {"WRITTEN"}, op : Ops, wrote : BOOLEAN]
    BY <1>5 DEF ReadBack, ReadBackFails, TypeOK, Job, JobPhases
  <2>2. job[r].op \in Ops /\ job[r].wrote \in BOOLEAN BY <2>1
  <2>3. job' \in [Requests -> Job]
    BY <1>5, <2>1, <2>2, AnswerType DEF ReadBack, ReadBackFails, Answers
  <2>q. QED BY <1>5, <2>3 DEF TypeOK, ReadBack, ReadBackFails
<1>6. ASSUME NEW r \in Requests, FinishCommand(r) PROVE TypeOK'
  BY <1>6 DEF TypeOK, FinishCommand, Job
<1>7. ASSUME NEW e \in Executions, Gate(e) PROVE TypeOK'
  <2>1. log \in Log /\ Active(log) # 0 BY <1>7 DEF TypeOK, Gate, LiveOrdersEnabled, ActiveIsLive
  <2>2. Active(log) \in Nat \ {0} BY <2>1, ActiveType
  <2>3. Len(log.promotions) \in Nat BY <2>1 DEF Log
  <2>q. QED BY <1>7, <2>2, <2>3 DEF TypeOK, Gate, Run
<1>8. ASSUME NEW e \in Executions, run[e].phase # "IDLE",
             run' = [run EXCEPT ![e] = [phase |-> "IDLE"]] \/
             \E p \in {"SEALED", "AUTHORIZED", "LOCKED", "CHECKED", "CLAIMED"} : Moves(e, p)
      PROVE  run' \in [Executions -> Run]
  BY <1>8 DEF TypeOK, Run, Moves
<1>9. ASSUME NEW e \in Executions, Execution(e), ~Gate(e) PROVE TypeOK'
  <2>1. run' \in [Executions -> Run]
    BY <1>8, <1>9 DEF Execution, SealEvidence, AuthorizePolicy, ClaimLocks, ClaimChecks,
                      ClaimCommits, EndExecution, Stops
  <2>q. QED BY <1>9, <2>1 DEF TypeOK, Execution, SealEvidence, AuthorizePolicy, ClaimLocks,
                            ClaimChecks, ClaimCommits, EndExecution
<1>10. CASE UNCHANGED vars BY <1>10 DEF TypeOK, vars
<1>q. QED BY <1>1, <1>2, <1>3, <1>4, <1>5, <1>6, <1>7, <1>9, <1>10 DEF Next, Command, Execution

(* Every log, request and execution keeps its type.                        *)
THEOREM PolicyTypeCorrect == Spec => []TypeOK
<1>1. Init => TypeOK BY DEF Init, TypeOK, Log, Job, Run
<1>q. QED BY <1>1, TypeStep, PTL DEF Spec

-----------------------------------------------------------------------------
(* Whoever holds the account row is alone with the logs, and a checked     *)
(* claim still holds it.                                                   *)
ClaimInv ==
  /\ \A r \in Requests : job[r].phase = "HOLDING" => lock = r
  /\ \A e \in Executions : run[e].phase \in {"LOCKED", "CHECKED"} => lock = e
  /\ \A e \in Executions : run[e].phase = "CHECKED" => ClaimHolds(e)

LEMMA LogsStay ==
  ASSUME NEW e, log' = log, run'[e] = run[e] PROVE ClaimHolds(e)' <=> ClaimHolds(e)
BY DEF ClaimHolds, EvidenceHolds, Granted, Latest, Active, ActiveIsLive, Holds

LEMMA MovesFacts ==
  ASSUME TypeOK, NEW e \in Executions, run[e].phase # "IDLE", NEW p, Moves(e, p)
  PROVE  /\ run'[e].phase = p
         /\ run'[e].config = run[e].config /\ run'[e].promotion = run[e].promotion
BY DEF TypeOK, Run, Moves

LEMMA StopsFacts ==
  ASSUME TypeOK, NEW e \in Executions, Stops(e) PROVE run'[e].phase = "IDLE"
BY DEF TypeOK, Stops

\* Which action brings an execution where.
LEMMA PhaseFacts ==
  ASSUME TypeOK, NEW e \in Executions, Execution(e)
  PROVE  /\ run'[e].phase = "LOCKED" => ClaimLocks(e)
         /\ run'[e].phase = "CHECKED" =>
              /\ ClaimChecks(e) /\ ClaimHolds(e) /\ lock' = lock
              /\ run'[e].config = run[e].config /\ run'[e].promotion = run[e].promotion
         /\ run'[e].phase = "CLAIMED" => ClaimCommits(e)
<1>1. CASE Gate(e)
  <2>1. run'[e].phase = "GATED" BY <1>1 DEF Gate, TypeOK
  <2>q. QED BY <2>1
<1>2. CASE SealEvidence(e)
  <2>1. run'[e].phase = "SEALED" \/ run'[e].phase = "IDLE"
    BY <1>2, MovesFacts, StopsFacts DEF SealEvidence
  <2>q. QED BY <2>1
<1>3. CASE AuthorizePolicy(e)
  <2>1. run'[e].phase = "AUTHORIZED" \/ run'[e].phase = "IDLE"
    BY <1>3, MovesFacts, StopsFacts DEF AuthorizePolicy
  <2>q. QED BY <2>1
<1>4. CASE ClaimLocks(e)
  <2>1. run'[e].phase = "LOCKED" BY <1>4, MovesFacts DEF ClaimLocks
  <2>q. QED BY <1>4, <2>1
<1>5. CASE ClaimChecks(e)
  <2>1. CASE ClaimHolds(e)
    <3>1. /\ run'[e].phase = "CHECKED" /\ lock' = lock
          /\ run'[e].config = run[e].config /\ run'[e].promotion = run[e].promotion
      BY <1>5, <2>1, MovesFacts DEF ClaimChecks
    <3>q. QED BY <1>5, <2>1, <3>1
  <2>2. CASE ~ClaimHolds(e)
    <3>1. run'[e].phase = "IDLE" BY <1>5, <2>2, StopsFacts DEF ClaimChecks
    <3>q. QED BY <3>1
  <2>q. QED BY <2>1, <2>2
<1>6. CASE ClaimCommits(e)
  <2>1. run'[e].phase = "CLAIMED" BY <1>6, MovesFacts DEF ClaimCommits
  <2>q. QED BY <1>6, <2>1
<1>7. CASE EndExecution(e)
  <2>1. run'[e].phase = "IDLE" BY <1>7, StopsFacts DEF EndExecution
  <2>q. QED BY <2>1
<1>q. QED BY <1>1, <1>2, <1>3, <1>4, <1>5, <1>6, <1>7 DEF Execution

LEMMA ClaimStep == TypeOK /\ ClaimInv /\ [Next]_vars => ClaimInv'
<1> SUFFICES ASSUME TypeOK, ClaimInv, [Next]_vars PROVE ClaimInv' OBVIOUS
<1> USE PolicyAssumption
<1>1. ASSUME NEW r \in Requests, CommitCommand(r) PROVE ClaimInv'
  <2>1. lock = r /\ lock' = NoOne /\ run' = run BY <1>1 DEF CommitCommand, ClaimInv
  <2>2. \A e \in Executions : run[e].phase \notin {"LOCKED", "CHECKED"} BY <2>1 DEF ClaimInv
  <2>3. \A q \in Requests : q # r => job'[q] = job[q] BY <1>1 DEF CommitCommand, Answer, Commits, TypeOK
  <2>4. job'[r].phase # "HOLDING"
    <3>1. job[r] \in [phase : JobPhases, cmd : Commands, snap : Log]
      BY <1>1, JobTypes DEF CommitCommand
    <3>2. \/ Answer(r, job[r].cmd.op, FALSE, "REFUSED")
          \/ Commits(r, Rows(job[r].cmd, job[r].snap) # <<>>)
      BY <1>1 DEF CommitCommand
    <3>q. QED BY <3>1, <3>2 DEF Answer, Commits, TypeOK
  <2>q. QED BY <2>1, <2>2, <2>3, <2>4 DEF ClaimInv
<1>2. ASSUME NEW r \in Requests, Command(r), ~CommitCommand(r) PROVE ClaimInv'
  <2>1. log' = log /\ run' = run
    BY <1>2 DEF Command, BeginCommand, LockAccount, AbortCommand, ReadBack, ReadBackFails,
                FinishCommand
  <2>2. \A e \in Executions : run[e].phase = "CHECKED" => ClaimHolds(e)'
    BY <2>1, LogsStay DEF ClaimInv
  <2>3. \A q \in Requests : q # r => job'[q] = job[q]
    BY <1>2 DEF Command, BeginCommand, LockAccount, AbortCommand, ReadBack, ReadBackFails,
                FinishCommand, Answer, TypeOK
  <2>4. \/ lock' = lock /\ job'[r].phase # "HOLDING"
        \/ lock = NoOne /\ lock' = r
        \/ lock = r /\ lock' = NoOne /\ job'[r].phase # "HOLDING"
    BY <1>2 DEF Command, BeginCommand, LockAccount, AbortCommand, ReadBack, ReadBackFails,
                FinishCommand, Answer, TypeOK
  <2>q. QED BY <2>1, <2>2, <2>3, <2>4 DEF ClaimInv
<1>3. ASSUME NEW e \in Executions, Execution(e) PROVE ClaimInv'
  <2>1. log' = log /\ job' = job
    BY <1>3 DEF Execution, Gate, SealEvidence, AuthorizePolicy, ClaimLocks, ClaimChecks,
                ClaimCommits, EndExecution
  <2>2. \A f \in Executions : f # e => run'[f] = run[f]
    BY <1>3 DEF Execution, Gate, SealEvidence, AuthorizePolicy, ClaimLocks, ClaimChecks,
                ClaimCommits, EndExecution, Moves, Stops, TypeOK
  <2>3. \A f \in Executions : f # e /\ run[f].phase = "CHECKED" => ClaimHolds(f)'
    BY <2>1, <2>2, LogsStay DEF ClaimInv
  <2>4. run'[e].phase = "CHECKED" => ClaimHolds(e)'
    <3> SUFFICES ASSUME run'[e].phase = "CHECKED" PROVE ClaimHolds(e)' OBVIOUS
    <3>1. /\ ClaimHolds(e)
          /\ run'[e].config = run[e].config /\ run'[e].promotion = run[e].promotion
      BY <1>3, PhaseFacts
    <3>q. QED
      BY <2>1, <3>1 DEF ClaimHolds, EvidenceHolds, Granted, Latest, Active, ActiveIsLive, Holds
  <2>5. run'[e].phase \in {"LOCKED", "CHECKED"} => lock' = e
    BY <1>3, PhaseFacts DEF ClaimLocks, ClaimChecks, ClaimInv
  <2>6. lock' = lock \/ (lock = NoOne /\ lock' = e) \/ (lock = e /\ lock' = NoOne)
    BY <1>3 DEF Execution, Gate, SealEvidence, AuthorizePolicy, ClaimLocks, ClaimChecks,
                ClaimCommits, EndExecution, ClaimInv
  <2>q. QED BY <2>1, <2>2, <2>3, <2>4, <2>5, <2>6 DEF ClaimInv
<1>4. CASE UNCHANGED vars
  BY <1>4, LogsStay DEF vars, ClaimInv
<1>q. QED BY <1>1, <1>2, <1>3, <1>4 DEF Next

LEMMA ClaimInvariant == Spec => [](TypeOK /\ ClaimInv)
<1>1. Init => TypeOK /\ ClaimInv BY DEF Init, TypeOK, Log, Job, Run, ClaimInv
<1>2. TypeOK /\ ClaimInv /\ [Next]_vars => (TypeOK /\ ClaimInv)' BY TypeStep, ClaimStep
<1>q. QED BY <1>1, <1>2, PTL DEF Spec

(* A dispatch claim commits only under the policy in force at that moment, *)
(* and the one its execution was gated on                                  *)
(* (guard_order_dispatch_claim_live_policy).                               *)
THEOREM ClaimsFollowPolicy == Spec => ClaimsUnderCurrentPolicy
<1>1. ASSUME TypeOK, ClaimInv, [Next]_vars, NEW e \in Executions,
             run[e].phase # "CLAIMED", run'[e].phase = "CLAIMED"
      PROVE /\ LiveOrdersEnabled(log)
            /\ run[e].config = Active(log) /\ run[e].promotion = Len(log.promotions)
  <2>1. run' # run BY <1>1
  <2>2. PICK f \in Executions : Execution(f)
    BY <1>1, <2>1 DEF Next, vars, Command, BeginCommand, LockAccount, CommitCommand, AbortCommand,
                      ReadBack, ReadBackFails, FinishCommand
  <2>3. f = e
    BY <1>1, <2>2 DEF Execution, Gate, SealEvidence, AuthorizePolicy, ClaimLocks, ClaimChecks,
                      ClaimCommits, EndExecution, Moves, Stops, TypeOK
  <2>4. run'[e].phase = "CLAIMED" BY <1>1
  <2>5. Execution(e) BY <2>2, <2>3
  <2>6. run[e].phase = "CHECKED" BY <1>1, <2>4, <2>5, PhaseFacts DEF ClaimCommits
  <2>7. ClaimHolds(e) BY <1>1, <2>6 DEF ClaimInv
  <2>q. QED BY <2>7 DEF ClaimHolds, EvidenceHolds, LiveOrdersEnabled
<1>2. TypeOK /\ ClaimInv /\ [Next]_vars =>
        [\A e \in Executions :
           run[e].phase # "CLAIMED" /\ run'[e].phase = "CLAIMED" =>
             /\ LiveOrdersEnabled(log)
             /\ run[e].config = Active(log) /\ run[e].promotion = Len(log.promotions)]_vars
  BY <1>1
<1>q. QED BY <1>2, ClaimInvariant, PTL DEF ClaimsUnderCurrentPolicy, Spec

-----------------------------------------------------------------------------
(* A command decides on an old snapshot, but the logs only grow: what it   *)
(* has read of versions and activations is still there when it commits.    *)
IsPrefixOf(s, t) == Len(s) <= Len(t) /\ \A i \in 1..Len(s) : s[i] = t[i]

Earlier(l, m) ==
  IsPrefixOf(l.versions, m.versions) /\ IsPrefixOf(l.activations, m.activations)

(* Every activation is of a sealed version, every promotion of an          *)
(* activated one, and every grant of one that allows LIVE orders.          *)
Reviewed(l) ==
  /\ \A i \in DOMAIN l.activations : l.activations[i] \in DOMAIN l.versions
  /\ \A i \in DOMAIN l.promotions :
       /\ \E j \in DOMAIN l.activations : l.activations[j] = l.promotions[i].config
       /\ l.promotions[i].state = "GRANTED" =>
            l.versions[l.promotions[i].config] \in LiveContents

LogInv ==
  /\ Reviewed(log)
  /\ \A r \in Requests : job[r].phase \in JobPhases =>
       Reviewed(job[r].snap) /\ Earlier(job[r].snap, log)

LEMMA PrefixOfLonger ==
  ASSUME NEW S, NEW s \in Seq(S), NEW t \in Seq(S), NEW u \in Seq(S), IsPrefixOf(s, t)
  PROVE  IsPrefixOf(s, t \o u)
BY DEF IsPrefixOf

LEMMA PrefixPoint ==
  ASSUME NEW S, NEW s \in Seq(S), NEW t \in Seq(S), IsPrefixOf(s, t), NEW i \in DOMAIN s
  PROVE  i \in DOMAIN t /\ t[i] = s[i]
BY DEF IsPrefixOf

LEMMA PrefixOfItself ==
  ASSUME NEW S, NEW s \in Seq(S) PROVE IsPrefixOf(s, s)
BY DEF IsPrefixOf

\* The four logs after a commit, one of which is longer.
LEMMA CommitFields ==
  ASSUME TypeOK, NEW r \in Requests, CommitCommand(r)
  PROVE  LET cmd == job[r].cmd  rows == Rows(job[r].cmd, job[r].snap)
         IN  /\ cmd.op = "SAVE" =>
                  /\ rows \in Seq(Contents) /\ log'.versions = log.versions \o rows
                  /\ log'.activations = log.activations /\ log'.promotions = log.promotions
                  /\ log'.kills = log.kills
             /\ cmd.op = "ACTIVATE" =>
                  /\ rows \in Seq(Nat \ {0}) /\ log'.activations = log.activations \o rows
                  /\ log'.versions = log.versions /\ log'.promotions = log.promotions
                  /\ log'.kills = log.kills
             /\ cmd.op = "PROMOTE" =>
                  /\ rows \in Seq(PromotionRows) /\ log'.promotions = log.promotions \o rows
                  /\ log'.versions = log.versions /\ log'.activations = log.activations
             /\ cmd.op = "KILL" =>
                  /\ log'.versions = log.versions /\ log'.activations = log.activations
                  /\ log'.promotions = log.promotions
<1> DEFINE cmd == job[r].cmd
           snap == job[r].snap
<1>1. /\ cmd \in Commands /\ snap \in Log /\ log \in Log
      /\ log' = [log EXCEPT ![LogOf(cmd)] = @ \o Rows(cmd, snap)]
  BY LogGrows DEF TypeOK
<1> HIDE DEF cmd, snap
<1>2. ASSUME cmd.op = "SAVE"
      PROVE  /\ Rows(cmd, snap) \in Seq(Contents)
             /\ log' = [log EXCEPT !.versions = log.versions \o Rows(cmd, snap)]
  <2>1. LogOf(cmd) = "versions" BY <1>2, RowsByKind
  <2>2. Rows(cmd, snap) \in Seq(Contents) BY <1>1, <1>2, RowsByKind, CommandKinds, SavedType
  <2>q. QED BY <1>1, <2>1, <2>2, Zenon
<1>3. ASSUME cmd.op = "ACTIVATE"
      PROVE  /\ Rows(cmd, snap) \in Seq(Nat \ {0})
             /\ log' = [log EXCEPT !.activations = log.activations \o Rows(cmd, snap)]
  <2>1. LogOf(cmd) = "activations" BY <1>3, RowsByKind
  <2>2. Rows(cmd, snap) \in Seq(Nat \ {0})
    BY <1>1, <1>3, RowsByKind, CommandKinds, ActivatedType
  <2>q. QED BY <1>1, <2>1, <2>2, Zenon
<1>4. ASSUME cmd.op = "PROMOTE"
      PROVE  /\ Rows(cmd, snap) \in Seq(PromotionRows)
             /\ log' = [log EXCEPT !.promotions = log.promotions \o Rows(cmd, snap)]
  <2>1. LogOf(cmd) = "promotions" BY <1>4, RowsByKind
  <2>2. Rows(cmd, snap) \in Seq(PromotionRows)
    BY <1>1, <1>4, RowsByKind, CommandKinds, PromotedType
  <2>q. QED BY <1>1, <2>1, <2>2, Zenon
<1>5. ASSUME cmd.op = "KILL"
      PROVE  log' = [log EXCEPT !.kills = log.kills \o Rows(cmd, snap)]
  <2>1. LogOf(cmd) = "kills" BY <1>5, RowsByKind
  <2>q. QED BY <1>1, <2>1, Zenon
<1>6. DOMAIN log = Logs BY <1>1 DEF Log, Logs
<1>q. QED BY <1>2, <1>3, <1>4, <1>5, <1>6, Zenon DEF cmd, snap, Logs

\* Every promotion is of the version that was active, a grant of a LIVE one.
LEMMA PromotedFacts ==
  ASSUME NEW l \in Log, NEW s \in {"GRANTED", "REVOKED"}, NEW i \in DOMAIN PromotedRows(s, l)
  PROVE  /\ Active(l) # 0 /\ PromotedRows(s, l)[i].config = Active(l)
         /\ PromotedRows(s, l)[i].state = "GRANTED" => ActiveIsLive(l)
<1> DEFINE row(x) == [state |-> x, config |-> Active(l)]
<1>1. \/ PromotedRows(s, l) = <<>>
      \/ /\ Active(l) # 0
         /\ s = "GRANTED" => MayGrant(l)
         /\ \/ PromotedRows(s, l) = <<row(s)>>
            \/ s = "GRANTED" /\ PromotedRows(s, l) = <<row("REVOKED"), row("GRANTED")>>
  BY Zenon DEF PromotedRows
<1>2. PromotedRows(s, l) # <<>>
  <2>1. DOMAIN <<>> = {} OBVIOUS
  <2>q. QED BY <2>1
<1>3. MayGrant(l) => ActiveIsLive(l) BY DEF MayGrant
<1> DEFINE rows == PromotedRows(s, l)
           a == Active(l)
<1>4. i \in DOMAIN rows OBVIOUS
<1>5. /\ a # 0
      /\ s = "GRANTED" => ActiveIsLive(l)
      /\ \/ rows = <<[state |-> s, config |-> a]>>
         \/ /\ s = "GRANTED"
            /\ rows = <<[state |-> "REVOKED", config |-> a], [state |-> "GRANTED", config |-> a]>>
  BY <1>1, <1>2, <1>3, Zenon
<1> HIDE DEF rows, a
<1>6. CASE rows = <<[state |-> s, config |-> a]>>
  <2>1. rows[i] = [state |-> s, config |-> a] BY <1>4, <1>6
  <2>2. rows[i].state = s /\ rows[i].config = a BY <2>1
  <2>q. QED BY <2>2, <1>5, Zenon DEF rows, a
<1>7. CASE s = "GRANTED" /\ rows = <<[state |-> "REVOKED", config |-> a],
                                 [state |-> "GRANTED", config |-> a]>>
  <2>1. \E x \in {"REVOKED", "GRANTED"} : rows[i] = [state |-> x, config |-> a]
    BY <1>4, <1>7
  <2>2. rows[i].config = a BY <2>1
  <2>q. QED BY <2>2, <1>5, <1>7, Zenon DEF rows, a
<1>q. QED BY <1>5, <1>6, <1>7

LEMMA LatestIsThere ==
  ASSUME NEW l \in Log, Reviewed(l), Active(l) # 0
  PROVE  /\ Active(l) = l.activations[Len(l.activations)]
         /\ Len(l.activations) \in DOMAIN l.activations
         /\ Active(l) \in DOMAIN l.versions
<1>1. l.activations \in Seq(Nat \ {0}) /\ l.activations # <<>>
  BY DEF Log, Active
<1>2. Active(l) = l.activations[Len(l.activations)]
  BY <1>1 DEF Active, Latest
<1>3. Len(l.activations) \in DOMAIN l.activations
  BY <1>1
<1>q. QED BY <1>2, <1>3 DEF Reviewed

LEMMA ReviewedStep ==
  ASSUME TypeOK, LogInv, NEW r \in Requests, CommitCommand(r)
  PROVE  Reviewed(log')
<1> DEFINE cmd == job[r].cmd
           snap == job[r].snap
           rows == Rows(cmd, snap)
<1>1. /\ cmd \in Commands /\ snap \in Log /\ log \in Log /\ log' \in Log
      /\ Reviewed(log) /\ Reviewed(snap) /\ Earlier(snap, log)
      /\ rows = <<>> \/ NoNewRows(cmd, snap)
  BY LogGrows DEF TypeOK, CommitCommand, LogInv, JobPhases
<1>2. /\ log.versions \in Seq(Contents) /\ log.activations \in Seq(Nat \ {0})
      /\ log.promotions \in Seq(PromotionRows)
      /\ snap.versions \in Seq(Contents) /\ snap.activations \in Seq(Nat \ {0})
  BY <1>1 DEF Log
<1>3. CASE cmd.op = "SAVE"
  <2>1. /\ rows \in Seq(Contents) /\ log'.versions = log.versions \o rows
        /\ log'.activations = log.activations /\ log'.promotions = log.promotions
    BY <1>3, CommitFields
  <2> HIDE DEF rows
  <2>2. /\ DOMAIN log.versions \subseteq DOMAIN log'.versions
        /\ \A v \in DOMAIN log.versions : log'.versions[v] = log.versions[v]
    BY <1>2, <2>1
  <2>3. \A i \in DOMAIN log.promotions : log.promotions[i].config \in DOMAIN log.versions
    BY <1>1 DEF Reviewed
  <2>q. QED BY <1>1, <2>1, <2>2, <2>3 DEF Reviewed
<1>4. CASE cmd.op = "ACTIVATE"
  <2>1. /\ rows \in Seq(Nat \ {0}) /\ log'.activations = log.activations \o rows
        /\ log'.versions = log.versions /\ log'.promotions = log.promotions
    BY <1>4, CommitFields
  <2>2. rows = <<>> \/ (rows = <<cmd.arg>> /\ cmd.arg = Len(snap.versions))
    BY <1>4, RowsByKind, Zenon DEF ActivatedRows, MayActivate
  <2>3. cmd.arg \in Nat \ {0}
    BY <1>1, <1>4, CommandKinds
  <2> HIDE DEF rows, cmd, snap
  <2>4. rows # <<>> => cmd.arg \in DOMAIN log.versions
    BY <1>1, <1>2, <2>2, <2>3 DEF Earlier, IsPrefixOf
  <2>5. /\ \A i \in DOMAIN log.activations :
             i \in DOMAIN log'.activations /\ log'.activations[i] = log.activations[i]
        /\ \A i \in DOMAIN log'.activations \ DOMAIN log.activations :
             log'.activations[i] \in DOMAIN log.versions
    <3>1. CASE rows = <<>>
      <4>1. log'.activations = log.activations BY <1>2, <2>1, <3>1
      <4>q. QED BY <4>1
    <3>2. CASE rows # <<>>
      <4>1. rows = <<cmd.arg>> /\ cmd.arg \in DOMAIN log.versions BY <2>2, <2>4, <3>2
      <4>2. log'.activations = Append(log.activations, cmd.arg) BY <1>2, <2>1, <2>3, <4>1
      <4>q. QED BY <1>2, <2>3, <4>1, <4>2
    <3>q. QED BY <3>1, <3>2
  <2>q. QED BY <1>1, <2>1, <2>5 DEF Reviewed
<1>5. CASE cmd.op = "PROMOTE"
  <2>1. /\ rows \in Seq(PromotionRows) /\ log'.promotions = log.promotions \o rows
        /\ log'.versions = log.versions /\ log'.activations = log.activations
    BY <1>5, CommitFields
  <2>2. rows = PromotedRows(cmd.arg, snap) /\ cmd.arg \in {"GRANTED", "REVOKED"}
    BY <1>1, <1>5, RowsByKind, CommandKinds
  <2>3. ASSUME NEW i \in DOMAIN rows
        PROVE  /\ \E j \in DOMAIN log.activations : log.activations[j] = rows[i].config
               /\ rows[i].state = "GRANTED" => log.versions[rows[i].config] \in LiveContents
    <3>1. /\ Active(snap) # 0 /\ rows[i].config = Active(snap)
          /\ rows[i].state = "GRANTED" => ActiveIsLive(snap)
      BY <1>1, <2>2, <2>3, PromotedFacts
    <3>2. /\ Active(snap) = snap.activations[Len(snap.activations)]
          /\ Len(snap.activations) \in DOMAIN snap.activations
          /\ Active(snap) \in DOMAIN snap.versions
      BY <1>1, <3>1, LatestIsThere
    <3> HIDE DEF snap, rows
    <3>3. /\ Len(snap.activations) \in DOMAIN log.activations
          /\ log.activations[Len(snap.activations)] = Active(snap)
          /\ log.versions[Active(snap)] = snap.versions[Active(snap)]
      <4>1. IsPrefixOf(snap.activations, log.activations) BY <1>1 DEF Earlier
      <4>2. IsPrefixOf(snap.versions, log.versions) BY <1>1 DEF Earlier
      <4>3. \A j \in DOMAIN snap.activations :
              j \in DOMAIN log.activations /\ log.activations[j] = snap.activations[j]
        BY <1>2, <4>1, PrefixPoint
      <4>4. \A j \in DOMAIN snap.versions : log.versions[j] = snap.versions[j]
        BY <1>2, <4>2, PrefixPoint
      <4>q. QED BY <3>2, <4>3, <4>4
    <3>q. QED BY <3>1, <3>3 DEF ActiveIsLive
  <2> HIDE DEF rows
  <2>4. \A i \in DOMAIN log'.promotions :
          \/ i \in DOMAIN log.promotions /\ log'.promotions[i] = log.promotions[i]
          \/ \E k \in DOMAIN rows : log'.promotions[i] = rows[k]
    <3> SUFFICES ASSUME NEW i \in DOMAIN log'.promotions
                 PROVE  \/ i \in DOMAIN log.promotions /\ log'.promotions[i] = log.promotions[i]
                        \/ \E k \in DOMAIN rows : log'.promotions[i] = rows[k]
      OBVIOUS
    <3>1. CASE i <= Len(log.promotions) BY <1>2, <2>1, <3>1
    <3>2. CASE ~(i <= Len(log.promotions))
      <4>1. /\ i - Len(log.promotions) \in DOMAIN rows
            /\ log'.promotions[i] = rows[i - Len(log.promotions)]
        BY <1>2, <2>1, <3>2
      <4>q. QED BY <4>1
    <3>q. QED BY <3>1, <3>2
  <2>q. QED BY <1>1, <2>1, <2>3, <2>4 DEF Reviewed
<1>6. CASE cmd.op = "KILL"
  <2>1. /\ log'.versions = log.versions /\ log'.activations = log.activations
        /\ log'.promotions = log.promotions
    BY <1>6, CommitFields
  <2>q. QED BY <1>1, <2>1 DEF Reviewed
<1>q. QED BY <1>1, <1>3, <1>4, <1>5, <1>6, CommandKinds

LEMMA EarlierStep ==
  ASSUME TypeOK, NEW r \in Requests, CommitCommand(r), NEW l \in Log, Earlier(l, log)
  PROVE  Earlier(l, log')
<1>1. /\ l.versions \in Seq(Contents) /\ l.activations \in Seq(Nat \ {0})
      /\ log.versions \in Seq(Contents) /\ log.activations \in Seq(Nat \ {0})
      /\ job[r].cmd \in Commands
  BY LogGrows DEF TypeOK, Log
<1>2. \E more \in Seq(Contents) :
        log'.versions = log.versions \o more \/ log'.versions = log.versions
  BY <1>1, CommitFields, CommandKinds
<1>3. \E more \in Seq(Nat \ {0}) :
        log'.activations = log.activations \o more \/ log'.activations = log.activations
  BY <1>1, CommitFields, CommandKinds
<1>4. IsPrefixOf(l.versions, log'.versions)
  BY <1>1, <1>2, PrefixOfLonger DEF Earlier
<1>5. IsPrefixOf(l.activations, log'.activations)
  BY <1>1, <1>3, PrefixOfLonger DEF Earlier
<1>q. QED BY <1>4, <1>5 DEF Earlier

LEMMA LogStep ==
  ASSUME TypeOK, LogInv, [Next]_vars PROVE LogInv'
<1>1. ASSUME NEW r \in Requests, CommitCommand(r) PROVE LogInv'
  <2>1. Reviewed(log') BY <1>1, ReviewedStep
  <2>2. ASSUME NEW q \in Requests, job'[q].phase \in JobPhases
        PROVE  Reviewed(job'[q].snap) /\ Earlier(job'[q].snap, log')
    <3>1. q # r
      BY <1>1, <2>2 DEF CommitCommand, Commits, Answer, TypeOK, JobPhases
    <3>2. job'[q] = job[q]
      BY <1>1, <3>1 DEF CommitCommand, Commits, Answer, TypeOK
    <3>3. job[q].snap \in Log /\ Reviewed(job[q].snap) /\ Earlier(job[q].snap, log)
      BY <2>2, <3>2 DEF LogInv, TypeOK, Job, JobPhases
    <3>q. QED BY <1>1, <3>2, <3>3, EarlierStep
  <2>q. QED BY <2>1, <2>2 DEF LogInv
<1>2. ASSUME NEW r \in Requests, BeginCommand(r) PROVE LogInv'
  <2>1. log' = log BY <1>2 DEF BeginCommand
  <2>2. ASSUME NEW q \in Requests, job'[q].phase \in JobPhases
        PROVE  Reviewed(job'[q].snap) /\ Earlier(job'[q].snap, log)
    <3>1. CASE q = r
      <4>1. job'[r].snap = log BY <1>2 DEF BeginCommand, TypeOK
      <4>2. log.versions \in Seq(Contents) /\ log.activations \in Seq(Nat \ {0})
        BY DEF TypeOK, Log
      <4>q. QED BY <3>1, <4>1, <4>2, PrefixOfItself DEF LogInv, Earlier
    <3>2. CASE q # r
      <4>1. job'[q] = job[q] BY <1>2, <3>2 DEF BeginCommand, TypeOK
      <4>q. QED BY <2>2, <4>1 DEF LogInv
    <3>q. QED BY <3>1, <3>2
  <2>q. QED BY <2>1, <2>2 DEF LogInv
<1>3. ASSUME log' = log,
             \A q \in Requests : job'[q].phase \in JobPhases =>
               job[q].phase \in JobPhases /\ job'[q].snap = job[q].snap
      PROVE  LogInv'
  BY <1>3 DEF LogInv
<1>4. ASSUME NEW r \in Requests,
             LockAccount(r) \/ AbortCommand(r) \/ ReadBack(r) \/ ReadBackFails(r)
               \/ FinishCommand(r)
      PROVE  LogInv'
  <2>1. log' = log
    BY <1>4 DEF LockAccount, AbortCommand, ReadBack, ReadBackFails, FinishCommand
  <2>2. ASSUME NEW q \in Requests, job'[q].phase \in JobPhases
        PROVE  job[q].phase \in JobPhases /\ job'[q].snap = job[q].snap
    <3>1. DOMAIN job = Requests BY DEF TypeOK
    <3>2. CASE q # r
      <4>1. job'[q] = job[q]
        BY <1>4, <3>1, <3>2 DEF LockAccount, AbortCommand, ReadBack, ReadBackFails, FinishCommand,
                                Answer
      <4>q. QED BY <2>2, <4>1
    <3>3. CASE q = r
      <4>1. LockAccount(r)
        BY <1>4, <2>2, <3>1, <3>3 DEF AbortCommand, ReadBack, ReadBackFails, FinishCommand, Answer,
                                      JobPhases
      <4>q. QED BY <3>1, <3>3, <4>1, JobTypes, Zenon DEF LockAccount, JobPhases
    <3>q. QED BY <3>2, <3>3
  <2>q. QED BY <1>3, <2>1, <2>2
<1>5. ASSUME (\E e \in Executions : Execution(e)) \/ UNCHANGED vars PROVE LogInv'
  <2>1. log' = log /\ job' = job
    BY <1>5 DEF vars, Execution, Gate, SealEvidence, AuthorizePolicy, ClaimLocks, ClaimChecks,
                ClaimCommits, EndExecution
  <2>q. QED BY <1>3, <2>1
<1>q. QED BY <1>1, <1>2, <1>4, <1>5 DEF Next, Command

LEMMA LogInvariant == Spec => [](TypeOK /\ LogInv)
<1>1. Init => TypeOK /\ LogInv
  BY DEF Init, TypeOK, Log, Job, Run, LogInv, Reviewed, JobPhases
<1>2. TypeOK /\ LogInv /\ [Next]_vars => (TypeOK /\ LogInv)' BY TypeStep, LogStep
<1>q. QED BY <1>1, <1>2, PTL DEF Spec

(* No grant is of a configuration that was never active or that does not   *)
(* allow LIVE orders, though a grant is decided on a snapshot taken before *)
(* the account was locked (setLivePromotion, assertGrantable).             *)
THEOREM GrantsReviewed == Spec => []GrantsReviewedConfig
<1>1. TypeOK /\ LogInv => GrantsReviewedConfig
  BY DEF LogInv, Reviewed, GrantsReviewedConfig
<1>q. QED BY <1>1, LogInvariant, PTL

LEMMA AppendedLast ==
  ASSUME NEW S, NEW s \in Seq(S), NEW x \in S
  PROVE  Append(s, x) # <<>> /\ Append(s, x)[Len(Append(s, x))] = x
<1>1. Len(Append(s, x)) = Len(s) + 1 /\ Len(s) \in Nat OBVIOUS
<1>2. Append(s, x)[Len(s) + 1] = x OBVIOUS
<1>3. Append(s, x) # <<>> BY <1>1
<1>q. QED BY <1>1, <1>2, <1>3

LEMMA EnabledByFields ==
  ASSUME NEW l, NEW m, l.activations = m.activations, l.promotions = m.promotions,
         l.kills = m.kills, Active(l) # 0 => l.versions[Active(l)] = m.versions[Active(l)]
  PROVE  LiveOrdersEnabled(l) => LiveOrdersEnabled(m)
<1>1. Active(l) = Active(m) BY DEF Active
<1>2. Granted(l) <=> Granted(m) BY DEF Granted
<1>3. ActiveIsLive(l) => ActiveIsLive(m) BY <1>1 DEF ActiveIsLive
<1>q. QED BY <1>1, <1>2, <1>3 DEF LiveOrdersEnabled

(* Neither saving nor activating a configuration brings an old promotion   *)
(* back: the promotion in force names a version that was activated, and no *)
(* version is activated twice (guard_operational_config_activation).       *)
THEOREM OperatorTurnsOn == Spec => OnlyOperatorTurnsOn
<1>1. ASSUME TypeOK, LogInv, NEW r \in Requests, CommitCommand(r),
             log'.promotions = log.promotions, log'.kills = log.kills, LiveOrdersEnabled(log')
      PROVE  LiveOrdersEnabled(log)
  <2> DEFINE cmd == job[r].cmd
             snap == job[r].snap
             rows == Rows(cmd, snap)
  <2>1. /\ cmd \in Commands /\ snap \in Log /\ log \in Log /\ log' \in Log
        /\ Reviewed(log) /\ Reviewed(log')
        /\ rows = <<>> \/ NoNewRows(cmd, snap)
    BY <1>1, LogGrows, ReviewedStep DEF TypeOK, CommitCommand, LogInv
  <2>2. /\ log.versions \in Seq(Contents) /\ log.activations \in Seq(Nat \ {0})
        /\ log.promotions \in Seq(PromotionRows)
    BY <2>1 DEF Log
  <2>3. CASE cmd.op = "SAVE"
    <3>1. /\ rows \in Seq(Contents) /\ log'.versions = log.versions \o rows
          /\ log'.activations = log.activations
      BY <1>1, <2>3, CommitFields
    <3> HIDE DEF rows
    <3>2. Active(log') = Active(log) BY <3>1 DEF Active
    <3>3. Active(log) # 0 => Active(log) \in DOMAIN log.versions BY <2>1, LatestIsThere
    <3>4. Active(log) # 0 => log'.versions[Active(log)] = log.versions[Active(log)]
      BY <2>2, <3>1, <3>3
    <3>q. QED BY <1>1, <3>1, <3>2, <3>4, EnabledByFields
  <2>4. CASE cmd.op = "ACTIVATE"
    <3>1. /\ log'.activations = log.activations \o rows /\ log'.versions = log.versions
      BY <1>1, <2>4, CommitFields
    <3>2. CASE rows = <<>>
      <4>1. log'.activations = log.activations BY <2>2, <3>1, <3>2
      <4>q. QED BY <1>1, <3>1, <4>1, EnabledByFields
    <3>3. CASE rows # <<>>
      <4>1. rows = ActivatedRows(cmd.arg, snap) /\ LogOf(cmd) = "activations"
        BY <2>4, RowsByKind
      <4>2. rows = <<cmd.arg>> /\ MayActivate(cmd.arg, snap)
        BY <3>3, <4>1, Zenon DEF ActivatedRows
      <4>3. snap.activations = log.activations
        BY <2>1, <3>3, <4>1 DEF NoNewRows
      <4>4. \A i \in DOMAIN log.activations : log.activations[i] # cmd.arg
        BY <4>2, <4>3 DEF MayActivate
      <4>5. cmd.arg \in Nat \ {0} BY <2>1, <2>4, CommandKinds
      <4> HIDE DEF rows, cmd, snap
      <4>6. log'.activations = Append(log.activations, cmd.arg)
        BY <2>2, <3>1, <4>2, <4>5
      <4>7. Active(log') = cmd.arg
        <5> DEFINE as == Append(log.activations, cmd.arg)
        <5>1. log.activations \in Seq(Nat \ {0}) BY <2>2
        <5>2. as # <<>> /\ as[Len(as)] = cmd.arg BY <4>5, <5>1, AppendedLast, Zenon
        <5> HIDE DEF as
        <5>3. log'.activations = as BY <4>6 DEF as
        <5>q. QED BY <5>2, <5>3, Zenon DEF Active, Latest
      <4>8. /\ log.promotions # <<>>
            /\ log.promotions[Len(log.promotions)].config = cmd.arg
        BY <1>1, <4>7 DEF LiveOrdersEnabled, Granted, Latest
      <4>9. Len(log.promotions) \in DOMAIN log.promotions
        BY <2>2, <4>8
      <4>q. QED BY <2>1, <4>4, <4>8, <4>9 DEF Reviewed
    <3>q. QED BY <3>2, <3>3
  <2>5. CASE cmd.op \in {"PROMOTE", "KILL"}
    <3>1. log'.activations = log.activations /\ log'.versions = log.versions
      BY <1>1, <2>5, CommitFields
    <3>q. QED BY <1>1, <3>1, EnabledByFields
  <2>q. QED BY <2>1, <2>3, <2>4, <2>5, CommandKinds
<1>2. ASSUME TypeOK, LogInv, [Next]_vars,
             ~LiveOrdersEnabled(log), LiveOrdersEnabled(log')
      PROVE  log'.promotions # log.promotions \/ log'.kills # log.kills
  <2>1. log' # log BY <1>2
  <2>2. \E r \in Requests : CommitCommand(r)
    BY <1>2, <2>1 DEF Next, vars, Command, BeginCommand, LockAccount, AbortCommand, ReadBack,
                      ReadBackFails, FinishCommand, Execution, Gate, SealEvidence,
                      AuthorizePolicy, ClaimLocks, ClaimChecks, ClaimCommits, EndExecution
  <2>q. QED BY <1>1, <1>2, <2>2
<1>3. TypeOK /\ LogInv /\ [Next]_vars =>
        [~LiveOrdersEnabled(log) /\ LiveOrdersEnabled(log') =>
           log'.promotions # log.promotions \/ log'.kills # log.kills]_vars
  BY <1>2
<1>q. QED BY <1>3, LogInvariant, PTL DEF OnlyOperatorTurnsOn, Spec
=============================================================================
