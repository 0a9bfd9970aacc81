------------------------------ MODULE Portfolio ------------------------------
(***************************************************************************)
(* Collections, target settings and plans of one account together: what    *)
(* the console's "apply" and "refresh" set in motion, for any number of    *)
(* open pages and the cron job.                                            *)
(***************************************************************************)
EXTENDS Collection, TargetSettings, PlanRuns, FiniteSets

CONSTANT MaxServed  \* bound: requests served at the same time

ASSUME PortfolioAssumption == MaxServed \in Nat

vars == <<snaps, versions, collectionVars, edit, planVars>>

TypeOK == StoreTypeOK /\ CollectionTypeOK /\ SettingsTypeOK /\ PlanTypeOK

Init == StoreInit /\ CollectionInit /\ SettingsInit /\ PlanInit

Served ==
  Cardinality({c \in Collectors : collect[c].phase # "IDLE"})
    + Cardinality({e \in Editors : edit[e].phase # "IDLE"})
    + Cardinality({p \in Planners : planner[p].phase # "IDLE"})

Steps ==
  \/ CollectionNext /\ UNCHANGED <<edit, planVars>>
  \/ \E e \in Editors : Edits(e) /\ UNCHANGED <<collectionVars, planVars>>
  \/ \E p \in Planners : PlansIt(p) /\ UNCHANGED <<collectionVars, edit>>

Next == Steps /\ Served' <= MaxServed

Spec == Init /\ [][Next]_vars

-----------------------------------------------------------------------------
(* What a run says of its result is true, of collections and of plans,     *)
(* also when the answer of the commit that stored the result was lost and  *)
(* the request went on to record a failure                                 *)
(* (guard_collection_run_terminal_timeline, guard_rebalance_run).          *)
RunsMatchResults == RunsTellTheTruth /\ PlansMatchRuns

CurrentNow(i) == IsCurrent(i, Newest(snaps), ActiveIn(versions))

(* A snapshot that a plan run was started for, and that is not current any *)
(* more, because it is not the latest or its target is not in force, never *)
(* becomes current again, whatever collections and settings pages do: no   *)
(* target that is drafted and applied again brings it back.  Without a run *)
(* it may: a target can be retired while the collection that was pinned to *)
(* it commits, and return with an activation that was open beside it       *)
(* (activateTargetDraft, completeCollection).                              *)
StaleForGood ==
  [][\A i \in DOMAIN snaps : planRun[i] # "NONE" /\ ~CurrentNow(i) => ~CurrentNow(i)']_vars
=============================================================================
