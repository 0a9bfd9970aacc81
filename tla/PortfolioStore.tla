--------------------------- MODULE PortfolioStore ---------------------------
(***************************************************************************)
(* The two tables on which collections, target settings and plans meet:    *)
(* the immutable snapshots of the account, each pinned to the target       *)
(* version that was ACTIVE when it was written, and the target versions,   *)
(* each drafted from one snapshot.  One account; a snapshot and a version  *)
(* are known by their place in the order they were written.                *)
(***************************************************************************)
EXTENDS Integers, Sequences

CONSTANTS
  Contents,        \* what an operator may enter as target settings
  MaxObservations, \* bound: collections that read the clock
  MaxVersions      \* bound: target versions

ASSUME StoreAssumption == MaxObservations \in Nat /\ MaxVersions \in Nat

VARIABLES
  snaps,    \* portfolio_snapshot
  versions  \* target_config_version

VersionStates == {"DRAFT", "ACTIVE", "RETIRED"}

\* Target 0: collected before any target was active.
Snapshot == [observed : 1..MaxObservations, target : 0..MaxVersions]
Version == [source : 1..MaxObservations, content : Contents, state : VersionStates]

StoreTypeOK ==
  /\ snaps \in Seq(Snapshot) /\ Len(snaps) <= MaxObservations
  /\ versions \in Seq(Version) /\ Len(versions) <= MaxVersions
  /\ \A i \in DOMAIN snaps : snaps[i].target <= Len(versions)
  /\ \A v \in DOMAIN versions : versions[v].source <= Len(snaps)

StoreInit == snaps = <<>> /\ versions = <<>>

\* ORDER BY observed_at DESC, not by the order of writing; 0 before the first.
Newest(rows) ==
  IF rows = <<>> THEN 0
  ELSE CHOOSE i \in DOMAIN rows : \A j \in DOMAIN rows : rows[j].observed <= rows[i].observed

\* The ACTIVE version, 0 if there is none.
ActiveIn(rows) ==
  IF \E v \in DOMAIN rows : rows[v].state = "ACTIVE"
    THEN CHOOSE v \in DOMAIN rows : rows[v].state = "ACTIVE" ELSE 0
=============================================================================
