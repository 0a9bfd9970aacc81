---------------------------- MODULE SafetyPolicy ----------------------------
(***************************************************************************)
(* What decides whether the account may trade: the versions of the         *)
(* operational configuration, their activations, the live promotions and   *)
(* the kill switch, four append-only logs of the account.  An operator's   *)
(* request is one Serializable transaction: its snapshot is taken by its   *)
(* first statement, which then waits for the lock on the account row, so   *)
(* it may run on logs that have grown meanwhile; a UNIQUE (version) stops  *)
(* it from writing to one that has.  The answer is a second read.  LIVE    *)
(* executions read the same logs at their gate, when they seal the risk    *)
(* evidence, when they authorize, and last when they claim the dispatch.   *)
(***************************************************************************)
EXTENDS Integers, Sequences

CONSTANTS
  Requests,      \* operator requests served at the same time
  Executions,    \* LIVE executions
  NoOne,         \* nobody holds the account row
  Contents,      \* sealed configuration contents, by hash
  LiveContents,  \* those that allow LIVE orders of this account
  MaxRows        \* bound, for each log: no command adds rows to a longer one

Logs == {"versions", "activations", "promotions", "kills"}

ASSUME PolicyAssumption ==
  /\ LiveContents \subseteq Contents
  /\ Requests \cap Executions = {}
  /\ NoOne \notin Requests \cup Executions
  /\ MaxRows \in [Logs -> Nat]

VARIABLES
  log,   \* the four logs
  lock,  \* who holds the account row FOR UPDATE
  job,   \* the operators' requests
  run    \* the executions

vars == <<log, lock, job, run>>

PromotionRows == [state : {"GRANTED", "REVOKED"}, config : Nat \ {0}]
KillStates == {"ENGAGED", "DISENGAGED"}

Log == [versions : Seq(Contents), activations : Seq(Nat \ {0}),
        promotions : Seq(PromotionRows), kills : Seq(KillStates)]

\* Commands of an operator who has seen the version numbers in shown.
CommandsOn(shown) ==
  [op : {"SAVE"}, arg : Contents] \cup [op : {"ACTIVATE"}, arg : shown]
    \cup [op : {"PROMOTE"}, arg : {"GRANTED", "REVOKED"}] \cup [op : {"KILL"}, arg : KillStates]

Commands == CommandsOn(Nat \ {0})

JobPhases == {"WAITING", "HOLDING"}
Ops == {"SAVE", "ACTIVATE", "PROMOTE", "KILL"}
Answers == {"SNAPSHOT", "REFUSED", "UNAVAILABLE"}

Job == [phase : {"IDLE"}]
         \cup [phase : JobPhases, cmd : Commands, snap : Log]
         \cup [phase : {"WRITTEN"}, op : Ops, wrote : BOOLEAN]
         \cup [phase : {"ANSWERED"}, op : Ops, wrote : BOOLEAN, answer : Answers]

Run == [phase : {"IDLE"}]
         \cup [phase : {"GATED", "SEALED", "AUTHORIZED", "LOCKED", "CHECKED", "CLAIMED"},
               config : Nat \ {0}, promotion : Nat]

TypeOK ==
  /\ log \in Log
  /\ lock \in Requests \cup Executions \cup {NoOne}
  /\ job \in [Requests -> Job]
  /\ run \in [Executions -> Run]

-----------------------------------------------------------------------------
(* Reading a snapshot l of the logs.                                       *)

Latest(rows) == rows[Len(rows)]
Holds(rows, value) == rows # <<>> /\ Latest(rows) = value

\* The version number of the last activation, 0 before the first.
Active(l) == IF l.activations = <<>> THEN 0 ELSE Latest(l.activations)

ActiveIsLive(l) == Active(l) # 0 /\ l.versions[Active(l)] \in LiveContents

Granted(l) == l.promotions # <<>> /\ Latest(l.promotions).state = "GRANTED"

\* The conjunction the console shows and every gate of an execution asks for.
LiveOrdersEnabled(l) ==
  /\ ActiveIsLive(l)
  /\ Holds(l.kills, "DISENGAGED")
  /\ Granted(l) /\ Latest(l.promotions).config = Active(l)

-----------------------------------------------------------------------------
(* The rows each command adds to its log, from the snapshot it runs on.    *)

MayActivateAny(v, l) == v \in DOMAIN l.versions  \* wrong: an old version may return

MayActivate(v, l) ==
  /\ v = Len(l.versions)
  /\ \A i \in DOMAIN l.activations : l.activations[i] # v

\* A content may never be sealed twice, so an old configuration cannot return.
SavedRows(content, l) ==
  IF \E i \in DOMAIN l.versions : l.versions[i] = content THEN <<>> ELSE <<content>>

ActivatedRows(v, l) == IF MayActivate(v, l) THEN <<v>> ELSE <<>>

MayGrantUnreviewed(l) == Holds(l.kills, "DISENGAGED") /\ ~Granted(l)  \* wrong: any policy

MayGrant(l) == ActiveIsLive(l) /\ Holds(l.kills, "DISENGAGED") /\ ~Granted(l)

PromotedRows(state, l) ==
  LET row(s) == [state |-> s, config |-> Active(l)]
      nothing == \/ Active(l) = 0
                 \/ state = "GRANTED" /\ ~MayGrant(l)
                 \/ state = "REVOKED" /\ l.promotions # <<>> /\ ~Granted(l)
  IN  IF nothing THEN <<>>
      ELSE IF state = "GRANTED" /\ l.promotions = <<>>
             THEN <<row("REVOKED"), row("GRANTED")>>  \* the log must begin revoked
             ELSE <<row(state)>>

KilledRows(state, l) ==
  IF Holds(l.kills, state) THEN <<>>
  ELSE IF l.kills = <<>> /\ state = "DISENGAGED" THEN <<"ENGAGED", "DISENGAGED">>
  ELSE <<state>>

LogOf(cmd) ==
  CASE cmd.op = "SAVE" -> "versions" [] cmd.op = "ACTIVATE" -> "activations"
    [] cmd.op = "PROMOTE" -> "promotions" [] OTHER -> "kills"

Rows(cmd, l) ==
  CASE cmd.op = "SAVE"     -> SavedRows(cmd.arg, l)
    [] cmd.op = "ACTIVATE" -> ActivatedRows(cmd.arg, l)
    [] cmd.op = "PROMOTE"  -> PromotedRows(cmd.arg, l)
    [] OTHER               -> KilledRows(cmd.arg, l)

\* The command found what it wants already in force: it succeeds and writes nothing.
Unchanged(cmd, l) ==
  \/ cmd.op = "SAVE" /\ Holds(l.versions, cmd.arg)
  \/ cmd.op = "ACTIVATE" /\ Active(l) = cmd.arg /\ cmd.arg = Len(l.versions)
  \/ /\ cmd.op = "PROMOTE" /\ Active(l) # 0
     /\ \/ /\ cmd.arg = "GRANTED" /\ Granted(l) /\ ActiveIsLive(l)
           /\ Holds(l.kills, "DISENGAGED") /\ Latest(l.promotions).config = Active(l)
        \/ cmd.arg = "REVOKED" /\ l.promotions # <<>> /\ ~Granted(l)
  \/ cmd.op = "KILL" /\ Holds(l.kills, cmd.arg)

\* No row was added to the log since the snapshot: UNIQUE (account, version) holds.
NoNewRows(cmd, l) == log[LogOf(cmd)] = l[LogOf(cmd)]

-----------------------------------------------------------------------------
Init ==
  /\ log = [versions |-> <<>>, activations |-> <<>>, promotions |-> <<>>, kills |-> <<>>]
  /\ lock = NoOne
  /\ job = [r \in Requests |-> [phase |-> "IDLE"]]
  /\ run = [e \in Executions |-> [phase |-> "IDLE"]]

(***************************************************************************)
(* One operator request.                                                   *)
(***************************************************************************)

\* The first statement takes the snapshot, then waits for the account row.
BeginCommand(r) ==
  /\ job[r].phase = "IDLE"
  /\ \E cmd \in CommandsOn(DOMAIN log.versions) :
       /\ Rows(cmd, log) = <<>> \/ Len(log[LogOf(cmd)]) < MaxRows[LogOf(cmd)]
       /\ job' = [job EXCEPT ![r] = [phase |-> "WAITING", cmd |-> cmd, snap |-> log]]
  /\ UNCHANGED <<log, lock, run>>

LockAccount(r) ==
  /\ job[r].phase = "WAITING" /\ lock = NoOne
  /\ lock' = r
  /\ job' = [job EXCEPT ![r].phase = "HOLDING"]
  /\ UNCHANGED <<log, run>>

Commits(r, wrote) ==
  job' = [job EXCEPT ![r] = [phase |-> "WRITTEN", op |-> job[r].cmd.op, wrote |-> wrote]]

Answer(r, op, wrote, answer) ==
  job' = [job EXCEPT ![r] = [phase |-> "ANSWERED", op |-> op, wrote |-> wrote,
                             answer |-> answer]]

\* The command commits what its snapshot calls for, or is refused.
CommitCommand(r) ==
  LET cmd == job[r].cmd
      snap == job[r].snap
      rows == Rows(cmd, snap)
      name == LogOf(cmd)
  IN  /\ job[r].phase = "HOLDING"
      /\ rows = <<>> \/ NoNewRows(cmd, snap)
      /\ lock' = NoOne
      /\ log' = [log EXCEPT ![name] = @ \o rows]
      /\ IF rows = <<>> /\ ~Unchanged(cmd, snap)
           THEN Answer(r, cmd.op, FALSE, "REFUSED")
           ELSE Commits(r, rows # <<>>)
      /\ UNCHANGED run

\* A unique version already taken, a serialization failure or a lost connection.
AbortCommand(r) ==
  /\ job[r].phase \in {"WAITING", "HOLDING"}
  /\ lock' = IF lock = r THEN NoOne ELSE lock
  /\ Answer(r, job[r].cmd.op, FALSE, "UNAVAILABLE")
  /\ UNCHANGED <<log, run>>

\* The answer shows the logs as a second transaction finds them.
ReadBack(r) ==
  /\ job[r].phase = "WRITTEN"
  /\ Answer(r, job[r].op, job[r].wrote, "SNAPSHOT")
  /\ UNCHANGED <<log, lock, run>>

ReadBackFails(r) ==
  /\ job[r].phase = "WRITTEN"
  /\ Answer(r, job[r].op, job[r].wrote, "UNAVAILABLE")
  /\ UNCHANGED <<log, lock, run>>

FinishCommand(r) ==
  /\ job[r].phase = "ANSWERED"
  /\ job' = [job EXCEPT ![r] = [phase |-> "IDLE"]]
  /\ UNCHANGED <<log, lock, run>>

(***************************************************************************)
(* One LIVE execution, up to its dispatch claim.                           *)
(***************************************************************************)

Moves(e, phase) == run' = [run EXCEPT ![e].phase = phase]
Stops(e) == run' = [run EXCEPT ![e] = [phase |-> "IDLE"]]

Gate(e) ==
  /\ run[e].phase = "IDLE" /\ LiveOrdersEnabled(log)
  /\ run' = [run EXCEPT ![e] = [phase |-> "GATED", config |-> Active(log),
                                promotion |-> Len(log.promotions)]]
  /\ UNCHANGED <<log, lock, job>>

\* The evidence must bind the latest promotion, granted for the active version.
EvidenceHolds(e) ==
  /\ run[e].promotion = Len(log.promotions) /\ Granted(log)
  /\ Latest(log.promotions).config = run[e].config /\ Active(log) = run[e].config

SealEvidence(e) ==
  /\ run[e].phase = "GATED"
  /\ IF EvidenceHolds(e) THEN Moves(e, "SEALED") ELSE Stops(e)
  /\ UNCHANGED <<log, lock, job>>

\* The authorization asks again for the promotion and the switch, not for the version.
AuthorizePolicy(e) ==
  /\ run[e].phase = "SEALED" /\ lock = NoOne
  /\ IF run[e].promotion = Len(log.promotions) /\ Holds(log.kills, "DISENGAGED")
       THEN Moves(e, "AUTHORIZED") ELSE Stops(e)
  /\ UNCHANGED <<log, lock, job>>

ClaimLocksNothing(e) ==  \* wrong: reads without the lock
  /\ run[e].phase = "AUTHORIZED" /\ lock = NoOne
  /\ Moves(e, "LOCKED")
  /\ UNCHANGED <<log, lock, job>>

\* The claim locks the account row first, and reads with fresh snapshots then.
ClaimLocks(e) ==
  /\ run[e].phase = "AUTHORIZED" /\ lock = NoOne
  /\ lock' = e
  /\ Moves(e, "LOCKED")
  /\ UNCHANGED <<log, job>>

ClaimHolds(e) == EvidenceHolds(e) /\ ActiveIsLive(log) /\ Holds(log.kills, "DISENGAGED")

ClaimChecks(e) ==
  /\ run[e].phase = "LOCKED"
  /\ IF ClaimHolds(e) THEN Moves(e, "CHECKED") /\ UNCHANGED lock
                       ELSE Stops(e) /\ lock' = NoOne
  /\ UNCHANGED <<log, job>>

ClaimCommits(e) ==
  /\ run[e].phase = "CHECKED"
  /\ lock' = IF lock = e THEN NoOne ELSE lock
  /\ Moves(e, "CLAIMED")
  /\ UNCHANGED <<log, job>>

\* The request of the execution ends, claimed or cut off.
EndExecution(e) ==
  /\ run[e].phase # "IDLE"
  /\ lock' = IF lock = e THEN NoOne ELSE lock
  /\ Stops(e)
  /\ UNCHANGED <<log, job>>

Command(r) ==
  \/ BeginCommand(r) \/ LockAccount(r) \/ CommitCommand(r) \/ AbortCommand(r)
  \/ ReadBack(r) \/ ReadBackFails(r) \/ FinishCommand(r)

Execution(e) ==
  \/ Gate(e) \/ SealEvidence(e) \/ AuthorizePolicy(e)
  \/ ClaimLocks(e) \/ ClaimChecks(e) \/ ClaimCommits(e) \/ EndExecution(e)

Next == (\E r \in Requests : Command(r)) \/ (\E e \in Executions : Execution(e))

Spec == Init /\ [][Next]_vars

-----------------------------------------------------------------------------
(* A dispatch claim becomes visible only while the policy in force allows  *)
(* LIVE orders, and for the version and the promotion the execution was    *)
(* gated on, whatever the operator did between gate and claim              *)
(* (guard_order_dispatch_claim_live_policy).                               *)
ClaimsUnderCurrentPolicy ==
  [][\A e \in Executions :
       run[e].phase # "CLAIMED" /\ run'[e].phase = "CLAIMED" =>
         /\ LiveOrdersEnabled(log)
         /\ run[e].config = Active(log) /\ run[e].promotion = Len(log.promotions)]_vars

(* LIVE orders are switched on by a grant or by releasing the kill switch  *)
(* and by nothing else: neither saving nor activating a configuration can  *)
(* bring an old promotion back to life (guard_operational_config_activation,*)
(* saveDraft's CONTENT_REUSED).                                            *)
OnlyOperatorTurnsOn ==
  [][~LiveOrdersEnabled(log) /\ LiveOrdersEnabled(log') =>
       log'.promotions # log.promotions \/ log'.kills # log.kills]_vars

(* Only a configuration that was active and allows LIVE orders is granted. *)
GrantsReviewedConfig ==
  \A i \in DOMAIN log.promotions :
    log.promotions[i].state = "GRANTED" =>
      /\ log.versions[log.promotions[i].config] \in LiveContents
      /\ \E j \in DOMAIN log.activations : log.activations[j] = log.promotions[i].config
=============================================================================
