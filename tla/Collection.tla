----------------------------- MODULE Collection -----------------------------
(***************************************************************************)
(* Collecting the account's holdings.  A request takes the lease, notes    *)
(* the time, registers a run, reads the broker, and writes the snapshot in *)
(* one READ COMMITTED transaction that locks the lease row.  A request may *)
(* stall past its lease, lose it to another one, and come back; it may be  *)
(* cut off anywhere; its commit may succeed although the answer is lost.   *)
(* Owner and fencing token of the lease identify one request, here the     *)
(* collector while that request lasts.                                     *)
(***************************************************************************)
EXTENDS PortfolioStore

CONSTANTS
  Collectors,  \* collections served at the same time
  NoOne        \* owner of a lease that was released or whose request is gone

ASSUME CollectionAssumption == NoOne \notin Collectors

VARIABLES
  clock,   \* the last observation time noted
  lease,   \* runtime_lease; an absent row is like an expired one
  runs,    \* collection_run, by observation time
  collect  \* the requests

collectionVars == <<clock, lease, runs, collect>>

RunStates == {"NONE", "RUNNING", "SUCCEEDED", "FAILED"}
Waiting == {"IDLE", "LEASED", "DONE"}
Working == {"OBSERVED", "CHECKED", "STARTED", "FAILING"}
Bound == {"SCOPED", "READY", "LOCKED", "PINNED"}

Collecting ==
  [phase : Waiting]
    \cup [phase : Working, observed : 1..MaxObservations]
    \cup [phase : Bound, observed : 1..MaxObservations, target : 0..MaxVersions]

CollectionTypeOK ==
  /\ clock \in 0..MaxObservations
  /\ lease \in [owner : Collectors \cup {NoOne}, live : BOOLEAN, locked : BOOLEAN]
  /\ runs \in [1..MaxObservations -> RunStates]
  /\ collect \in [Collectors -> Collecting]

CollectionInit ==
  /\ clock = 0
  /\ lease = [owner |-> NoOne, live |-> FALSE, locked |-> FALSE]
  /\ runs = [t \in 1..MaxObservations |-> "NONE"]
  /\ collect = [c \in Collectors |-> [phase |-> "IDLE"]]

Moves(c, phase) == collect' = [collect EXCEPT ![c].phase = phase]
Ends(c, phase) == collect' = [collect EXCEPT ![c] = [phase |-> phase]]
Fails(c) ==
  collect' = [collect EXCEPT ![c] = [phase |-> "FAILING", observed |-> collect[c].observed]]

Mine(c) == lease.owner = c

\* INSERT .. ON CONFLICT DO UPDATE WHERE expired; it waits for a locked row.
AcquireLease(c) ==
  /\ collect[c].phase = "IDLE" /\ ~lease.live /\ ~lease.locked
  /\ lease' = [owner |-> c, live |-> TRUE, locked |-> FALSE]
  /\ Ends(c, "LEASED")
  /\ UNCHANGED <<clock, runs, snaps, versions>>

\* observedAt is noted before the first call to the broker.
Observe(c) ==
  /\ collect[c].phase = "LEASED" /\ clock < MaxObservations
  /\ clock' = clock + 1
  /\ collect' = [collect EXCEPT ![c] = [phase |-> "OBSERVED", observed |-> clock + 1]]
  /\ UNCHANGED <<lease, runs, snaps, versions>>

\* heartbeatCollectionLease: once after the account is chosen, once before the snapshot.
Heartbeat(c) ==
  /\ \/ /\ collect[c].phase = "OBSERVED"
        /\ IF Mine(c) /\ lease.live THEN Moves(c, "CHECKED") ELSE Ends(c, "DONE")
     \/ /\ collect[c].phase = "SCOPED"
        /\ IF Mine(c) /\ lease.live THEN Moves(c, "READY") ELSE Fails(c)
  /\ UNCHANGED <<clock, lease, runs, snaps, versions>>

StartCollection(c) ==
  /\ collect[c].phase = "CHECKED"
  /\ runs' = [runs EXCEPT ![collect[c].observed] = "RUNNING"]
  /\ Moves(c, "STARTED")
  /\ UNCHANGED <<clock, lease, snaps, versions>>

CollectionTargetScope(c) ==
  /\ collect[c].phase = "STARTED"
  /\ collect' = [collect EXCEPT ![c] = [phase |-> "SCOPED", observed |-> collect[c].observed,
                                        target |-> ActiveIn(versions)]]
  /\ UNCHANGED <<clock, lease, runs, snaps, versions>>

LockLeaseLoosely(c) ==  \* wrong: no FOR UPDATE
  /\ collect[c].phase = "READY" /\ Mine(c)
  /\ Moves(c, "LOCKED")
  /\ UNCHANGED <<clock, lease, runs, snaps, versions>>

\* NOW() is the start of the transaction: an own lease may have expired since.
LockLease(c) ==
  /\ collect[c].phase = "READY" /\ Mine(c)
  /\ lease' = [lease EXCEPT !.locked = TRUE]
  /\ Moves(c, "LOCKED")
  /\ UNCHANGED <<clock, runs, snaps, versions>>

LeaseIsLost(c) ==
  /\ collect[c].phase = "READY" /\ ~(Mine(c) /\ lease.live)
  /\ Fails(c)
  /\ UNCHANGED <<clock, lease, runs, snaps, versions>>

Unlocked(c) == [lease EXCEPT !.locked = IF Mine(c) THEN FALSE ELSE lease.locked]

\* The ACTIVE target must still be the one the prices were read for.
CompareTarget(c) ==
  /\ collect[c].phase = "LOCKED"
  /\ IF ActiveIn(versions) = collect[c].target
       THEN Moves(c, "PINNED") /\ UNCHANGED lease
       ELSE Fails(c) /\ lease' = Unlocked(c)
  /\ UNCHANGED <<clock, runs, snaps, versions>>

\* Snapshot and run in one commit, whose answer may be lost.
CompleteCollection(c) ==
  /\ collect[c].phase = "PINNED"
  /\ snaps' = Append(snaps, [observed |-> collect[c].observed, target |-> collect[c].target])
  /\ runs' = [runs EXCEPT ![collect[c].observed] = "SUCCEEDED"]
  /\ lease' = Unlocked(c)
  /\ Ends(c, "DONE") \/ Fails(c)
  /\ UNCHANGED <<clock, versions>>

\* Any read of the broker or statement may fail; an open transaction rolls back.
Throw(c) ==
  /\ collect[c].phase \in {"STARTED", "SCOPED", "READY", "LOCKED", "PINNED"}
  /\ lease' = Unlocked(c)
  /\ Fails(c)
  /\ UNCHANGED <<clock, runs, snaps, versions>>

\* A run that has succeeded is immutable, and the statement itself may fail.
FailCollection(c) ==
  /\ collect[c].phase = "FAILING"
  /\ \/ runs' = [runs EXCEPT ![collect[c].observed] = IF @ = "RUNNING" THEN "FAILED" ELSE @]
     \/ UNCHANGED runs
  /\ Ends(c, "DONE")
  /\ UNCHANGED <<clock, lease, snaps, versions>>

\* The finally block; before the run is registered an error ends here, too.
ReleaseLease(c) ==
  /\ collect[c].phase \in {"LEASED", "OBSERVED", "CHECKED", "DONE"}
  /\ lease' = IF Mine(c) THEN [owner |-> NoOne, live |-> FALSE, locked |-> FALSE] ELSE lease
  /\ Ends(c, "IDLE")
  /\ UNCHANGED <<clock, runs, snaps, versions>>

\* The platform cuts the request off: its lease stays until it expires.
CutOffCollection(c) ==
  /\ collect[c].phase # "IDLE"
  /\ lease' = IF Mine(c) THEN [owner |-> NoOne, live |-> lease.live, locked |-> FALSE] ELSE lease
  /\ Ends(c, "IDLE")
  /\ UNCHANGED <<clock, runs, snaps, versions>>

\* Two minutes without a heartbeat.
LeaseExpires ==
  /\ lease.live
  /\ lease' = [lease EXCEPT !.live = FALSE]
  /\ UNCHANGED <<clock, runs, collect, snaps, versions>>

Collects(c) ==
  \/ AcquireLease(c) \/ Observe(c) \/ Heartbeat(c) \/ StartCollection(c)
  \/ CollectionTargetScope(c) \/ LockLease(c) \/ LeaseIsLost(c) \/ CompareTarget(c)
  \/ CompleteCollection(c) \/ Throw(c) \/ FailCollection(c) \/ ReleaseLease(c)
  \/ CutOffCollection(c)

CollectionNext == LeaseExpires \/ \E c \in Collectors : Collects(c)

-----------------------------------------------------------------------------
(* Snapshots are written in the order of their observations, whichever     *)
(* collector stalls, loses its lease or comes back: what is latest by      *)
(* observation, which every reader goes by, is also what was written last  *)
(* (completeCollection locks the lease row; docs/SPEC.md:492).             *)
SnapshotsInOrder ==
  \A i, j \in DOMAIN snaps : i < j => snaps[i].observed < snaps[j].observed

(* A run says SUCCEEDED exactly when its snapshot exists, also when the    *)
(* answer of the commit was lost and the request went on to record a       *)
(* failure (guard_collection_run_terminal_timeline).                       *)
RunsTellTheTruth ==
  \A t \in 1..MaxObservations :
    runs[t] = "SUCCEEDED" <=> \E i \in DOMAIN snaps : snaps[i].observed = t
=============================================================================
