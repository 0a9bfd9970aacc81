------------------------------ MODULE PlanRuns ------------------------------
(***************************************************************************)
(* Making the plan of a snapshot.  A Serializable transaction starts a run *)
(* for the latest snapshot, if its target is the ACTIVE one and no run has *)
(* the same deduplication key; the plan is computed while the database     *)
(* goes on; a second one seals it, if snapshot and target still are the    *)
(* current ones.  If they are not, the plan is computed again for what     *)
(* they have become, and sealed without that check: it is to be BLOCKED.   *)
(* Mode and snapshot, which determines the target, are the key; one mode.  *)
(***************************************************************************)
EXTENDS PortfolioStore

CONSTANT Planners  \* requests for a plan served at the same time

VARIABLES
  planRun,  \* status of the rebalance_run of a snapshot
  sealed,   \* snapshots with a row in rebalance_plan
  planner   \* the requests

planVars == <<planRun, sealed, planner>>

Results == {"PLANNED", "NO_ACTION", "BLOCKED"}
PlanRunStates == Results \cup {"NONE", "RUNNING", "FAILED"}

Pin == 1..MaxObservations
Current == [newest : 0..MaxObservations, active : 0..MaxVersions]

Planner ==
  [phase : {"IDLE"}]
    \cup [phase : {"STARTING", "FAILING"}, pin : Pin]
    \cup [phase : {"COMPUTING"}, pin : Pin, checked : BOOLEAN]
    \cup [phase : {"COMPARING"}, pin : Pin, checked : BOOLEAN, newest : 0..MaxObservations]
    \cup [phase : {"COMPUTED"}, pin : Pin, checked : BOOLEAN, result : Results]
    \cup [phase : {"SEALING"}, pin : Pin, checked : BOOLEAN, result : Results, sees : Current]

PlanTypeOK ==
  /\ planRun \in [Pin -> PlanRunStates]
  /\ sealed \subseteq Pin
  /\ planner \in [Planners -> Planner]

PlanInit ==
  /\ planRun = [i \in Pin |-> "NONE"]
  /\ sealed = {}
  /\ planner = [p \in Planners |-> [phase |-> "IDLE"]]

Pinned(p) == planner[p].pin
Becomes(p, job) == planner' = [planner EXCEPT ![p] = job]

\* A snapshot and the target it is pinned to are what the database holds now.
IsCurrent(i, newest, active) == newest = i /\ active = snaps[i].target /\ active # 0

\* startRebalanceRun repeats what latestDashboardState read; a snapshot whose evidence is
\* incomplete is never planned, which the model leaves open.
BeginStart(p) ==
  /\ planner[p].phase = "IDLE"
  /\ LET i == Newest(snaps)
     IN  /\ i # 0 /\ IsCurrent(i, i, ActiveIn(versions))
         /\ planRun[i] = "NONE"
         /\ Becomes(p, [phase |-> "STARTING", pin |-> i])
  /\ UNCHANGED <<planRun, sealed, snaps, versions>>

\* UNIQUE (dedupe_key).
CommitStart(p) ==
  /\ planner[p].phase = "STARTING" /\ planRun[Pinned(p)] = "NONE"
  /\ planRun' = [planRun EXCEPT ![Pinned(p)] = "RUNNING"]
  /\ Becomes(p, [phase |-> "COMPUTING", pin |-> Pinned(p), checked |-> TRUE])
  /\ UNCHANGED <<sealed, snaps, versions>>

\* currentRebalanceIdentity: two statements of a READ COMMITTED transaction.
ReadNewest(p) ==
  /\ planner[p].phase = "COMPUTING"
  /\ Becomes(p, [phase |-> "COMPARING", pin |-> Pinned(p), checked |-> planner[p].checked,
                 newest |-> Newest(snaps)])
  /\ UNCHANGED <<planRun, sealed, snaps, versions>>

\* Quotes, restrictions, fees and the calculation itself may block any plan; the first
\* time, a plan that needs no order is returned before the current identity is read.
ReadActive(p) ==
  /\ planner[p].phase = "COMPARING"
  /\ \E result \in Results :
       /\ \/ result = "BLOCKED"
          \/ result = "NO_ACTION" /\ planner[p].checked
          \/ IsCurrent(Pinned(p), planner[p].newest, ActiveIn(versions))
       /\ Becomes(p, [phase |-> "COMPUTED", pin |-> Pinned(p), checked |-> planner[p].checked,
                      result |-> result])
  /\ UNCHANGED <<planRun, sealed, snaps, versions>>

BeginSeal(p) ==
  /\ planner[p].phase = "COMPUTED"
  /\ Becomes(p, [phase |-> "SEALING", pin |-> Pinned(p), checked |-> planner[p].checked,
                 result |-> planner[p].result,
                 sees |-> [newest |-> Newest(snaps), active |-> ActiveIn(versions)]])
  /\ UNCHANGED <<planRun, sealed, snaps, versions>>

StillCurrent(p) ==
  planner[p].checked => IsCurrent(Pinned(p), planner[p].sees.newest, planner[p].sees.active)

\* Plan and run in one commit, whose answer may be lost.
CommitSeal(p) ==
  /\ planner[p].phase = "SEALING" /\ StillCurrent(p)
  /\ planRun[Pinned(p)] = "RUNNING"
  /\ planRun' = [planRun EXCEPT ![Pinned(p)] = planner[p].result]
  /\ sealed' = sealed \cup {Pinned(p)}
  /\ \/ Becomes(p, [phase |-> "IDLE"])
     \/ Becomes(p, [phase |-> "FAILING", pin |-> Pinned(p)])
  /\ UNCHANGED <<snaps, versions>>

SealAnyway(p) ==  \* wrong: what was computed before is sealed without the check
  /\ planner[p].phase = "SEALING" /\ ~StillCurrent(p)
  /\ Becomes(p, [phase |-> "COMPUTED", pin |-> Pinned(p), checked |-> FALSE,
                 result |-> planner[p].result])
  /\ UNCHANGED <<planRun, sealed, snaps, versions>>

\* sealRebalancePlan returned null: once more, without the check.
ComputeAgain(p) ==
  /\ planner[p].phase = "SEALING" /\ ~StillCurrent(p)
  /\ Becomes(p, [phase |-> "COMPUTING", pin |-> Pinned(p), checked |-> FALSE])
  /\ UNCHANGED <<planRun, sealed, snaps, versions>>

PlanThrows(p) ==
  /\ planner[p].phase \in {"COMPUTING", "COMPARING", "COMPUTED", "SEALING"}
  /\ Becomes(p, [phase |-> "FAILING", pin |-> Pinned(p)])
  /\ UNCHANGED <<planRun, sealed, snaps, versions>>

FailRunAnyway(p) ==  \* wrong: neither WHERE status = RUNNING nor an immutable end
  /\ planner[p].phase = "FAILING"
  /\ planRun' = [planRun EXCEPT ![Pinned(p)] = "FAILED"]
  /\ Becomes(p, [phase |-> "IDLE"])
  /\ UNCHANGED <<sealed, snaps, versions>>

FailRun(p) ==
  /\ planner[p].phase = "FAILING"
  /\ planRun' = [planRun EXCEPT ![Pinned(p)] = IF @ = "RUNNING" THEN "FAILED" ELSE @]
  /\ Becomes(p, [phase |-> "IDLE"])
  /\ UNCHANGED <<sealed, snaps, versions>>

\* The request is cut off, or its start was refused: a run it started stays RUNNING.
EndPlanner(p) ==
  /\ planner[p].phase # "IDLE"
  /\ Becomes(p, [phase |-> "IDLE"])
  /\ UNCHANGED <<planRun, sealed, snaps, versions>>

PlansIt(p) ==
  \/ BeginStart(p) \/ CommitStart(p) \/ ReadNewest(p) \/ ReadActive(p) \/ BeginSeal(p)
  \/ CommitSeal(p) \/ ComputeAgain(p) \/ PlanThrows(p) \/ FailRun(p) \/ EndPlanner(p)

-----------------------------------------------------------------------------
(* A run has a plan exactly when its status is the plan's, also when the   *)
(* answer of the seal was lost and the request recorded a failure          *)
(* (guard_rebalance_run: a failed run cannot retain a sealed plan).        *)
PlansMatchRuns == \A i \in Pin : i \in sealed <=> planRun[i] \in Results

(* What is sealed without the check of the current snapshot and target is  *)
(* BLOCKED.  The code never says so: it holds because a snapshot or target *)
(* that has stopped being current can never become current again           *)
(* (createAndStoreRebalancePlan's second sealResult).                      *)
UncheckedPlansAreBlocked ==
  \A p \in Planners :
    planner[p].phase \in {"COMPUTED", "SEALING"} /\ ~planner[p].checked =>
      planner[p].result = "BLOCKED"
=============================================================================
