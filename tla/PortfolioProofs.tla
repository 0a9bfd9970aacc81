--------------------------- MODULE PortfolioProofs ---------------------------
(***************************************************************************)
(* Proofs about collections, target settings and plans, for any number of  *)
(* requests, observations and versions: the types, the order of the        *)
(* snapshots, runs and plans that agree with what was written, one version *)
(* in force, and no plan of an old snapshot or target but a blocked one.   *)
(***************************************************************************)
EXTENDS Portfolio, TLAPS

Bounds == MaxObservations \in Nat /\ MaxVersions \in Nat

LEMMA BoundsHold == Bounds
BY StoreAssumption DEF Bounds

InOrder(rows) == \A i, j \in DOMAIN rows : i < j => rows[i].observed < rows[j].observed

InForce(rows) ==
  \A u, v \in DOMAIN rows :
    rows[u].state = rows[v].state /\ rows[u].state # "RETIRED" => u = v

-----------------------------------------------------------------------------
(* The reads of the two tables.                                            *)

LEMMA ActiveInType ==
  ASSUME NEW rows \in Seq(Version) PROVE ActiveIn(rows) \in 0..Len(rows)
<1>1. CASE \E v \in DOMAIN rows : rows[v].state = "ACTIVE"
  <2>1. ActiveIn(rows) \in DOMAIN rows BY <1>1, Zenon DEF ActiveIn
  <2>q. QED BY <2>1
<1>2. CASE ~\E v \in DOMAIN rows : rows[v].state = "ACTIVE"
  <2>1. ActiveIn(rows) = 0 BY <1>2, Zenon DEF ActiveIn
  <2>q. QED BY <2>1
<1>q. QED BY <1>1, <1>2

\* What is newest by observation is what was written last.
LEMMA NewestIsLast ==
  ASSUME NEW rows \in Seq(Snapshot), InOrder(rows) PROVE Newest(rows) = Len(rows)
<1>1. CASE rows = <<>> BY <1>1 DEF Newest
<1>2. CASE rows # <<>>
  <2> DEFINE IsNewest(i) == \A j \in DOMAIN rows : rows[j].observed <= rows[i].observed
  <2>1. Len(rows) \in DOMAIN rows
    <3>1. Len(rows) # 0 BY <1>2
    <3>q. QED BY <3>1
  <2>2. \A i \in DOMAIN rows : rows[i].observed \in Int
    <3>1. \A i \in DOMAIN rows : rows[i] \in Snapshot OBVIOUS
    <3>2. \A r \in Snapshot : r.observed \in Int BY BoundsHold DEF Snapshot, Bounds
    <3>q. QED BY <3>1, <3>2
  <2>3. \A i \in DOMAIN rows : i # Len(rows) => i < Len(rows) OBVIOUS
  <2>4. IsNewest(Len(rows)) BY <2>1, <2>2, <2>3 DEF InOrder
  <2>5. \A i \in DOMAIN rows : IsNewest(i) => i = Len(rows)
    <3> SUFFICES ASSUME NEW i \in DOMAIN rows, IsNewest(i), i # Len(rows) PROVE FALSE
      OBVIOUS
    <3>1. rows[i].observed < rows[Len(rows)].observed BY <2>1, <2>3 DEF InOrder
    <3>2. rows[Len(rows)].observed <= rows[i].observed BY <2>1
    <3>q. QED BY <2>1, <2>2, <3>1, <3>2
  <2>6. Newest(rows) = CHOOSE i \in DOMAIN rows : IsNewest(i)
    BY <1>2 DEF Newest
  <2> HIDE DEF IsNewest
  <2>q. QED BY <2>1, <2>4, <2>5, <2>6, Zenon
<1>q. QED BY <1>1, <1>2

-----------------------------------------------------------------------------
(* What the settings page writes.                                          *)

LEMMA FunctionSeq ==
  ASSUME NEW S, NEW n \in Nat, NEW f \in [1..n -> S]
  PROVE  f \in Seq(S) /\ Len(f) = n /\ DOMAIN f = 1..n
OBVIOUS

LEMMA WithState ==
  ASSUME NEW r \in Version, NEW s \in VersionStates
  PROVE  LET new == [r EXCEPT !.state = s]
         IN  new \in Version /\ new.state = s /\ new.source = r.source /\ new.content = r.content
<1>1. r = [source |-> r.source, content |-> r.content, state |-> r.state] BY DEF Version
<1>2. [r EXCEPT !.state = s] = [source |-> r.source, content |-> r.content, state |-> s]
  BY <1>1
<1>3. r.source \in 1..MaxObservations /\ r.content \in Contents BY DEF Version
<1>q. QED BY <1>2, <1>3 DEF Version

SameRows(new, rows) ==
  /\ new \in Seq(Version) /\ Len(new) = Len(rows) /\ DOMAIN new = DOMAIN rows
  /\ \A v \in DOMAIN rows : new[v].source = rows[v].source

OnlyRetires(old, rows, states, kept) ==
  \A v \in DOMAIN rows :
    IF v # kept /\ rows[v].state \in states THEN old[v].state = "RETIRED" ELSE old[v] = rows[v]

LEMMA RetiredFacts ==
  ASSUME NEW rows \in Seq(Version), NEW states, NEW kept
  PROVE  /\ SameRows(Retired(rows, states, kept), rows)
         /\ OnlyRetires(Retired(rows, states, kept), rows, states, kept)
<1> DEFINE old == Retired(rows, states, kept)
<1>0. "RETIRED" \in VersionStates BY DEF VersionStates
<1>1. \A v \in DOMAIN rows :
        rows[v] \in Version /\ [rows[v] EXCEPT !.state = "RETIRED"] \in Version
  BY <1>0, WithState
<1>2. \A v \in DOMAIN rows :
        old[v] = IF v # kept /\ rows[v].state \in states
                   THEN [rows[v] EXCEPT !.state = "RETIRED"] ELSE rows[v]
  BY DEF Retired
<1>3. DOMAIN rows = 1..Len(rows) /\ Len(rows) \in Nat OBVIOUS
<1>4. old \in [1..Len(rows) -> Version] BY <1>1, <1>3 DEF Retired
<1>5. old \in Seq(Version) /\ Len(old) = Len(rows) /\ DOMAIN old = DOMAIN rows
  BY <1>3, <1>4, FunctionSeq, Zenon
<1> HIDE DEF old
<1>6. \A v \in DOMAIN rows :
        /\ [rows[v] EXCEPT !.state = "RETIRED"].source = rows[v].source
        /\ [rows[v] EXCEPT !.state = "RETIRED"].state = "RETIRED"
  BY <1>0, WithState
<1>7. \A v \in DOMAIN rows :
        /\ old[v].source = rows[v].source
        /\ IF v # kept /\ rows[v].state \in states
             THEN old[v].state = "RETIRED" ELSE old[v] = rows[v]
  BY <1>2, <1>6
<1>q. QED BY <1>5, <1>7, Zenon DEF old, SameRows, OnlyRetires

OnlySets(new, rows, v, s) ==
  new[v].state = s /\ \A u \in DOMAIN rows \ {v} : new[u] = rows[u]

LEMMA ExceptFacts ==
  ASSUME NEW rows \in Seq(Version), NEW v \in DOMAIN rows, NEW s \in VersionStates
  PROVE  /\ SameRows([rows EXCEPT ![v].state = s], rows)
         /\ OnlySets([rows EXCEPT ![v].state = s], rows, v, s)
<1>1. [rows[v] EXCEPT !.state = s] \in Version
  BY WithState
<1>2. /\ [rows[v] EXCEPT !.state = s].state = s
      /\ [rows[v] EXCEPT !.state = s].source = rows[v].source
  BY WithState
<1> DEFINE new == [rows EXCEPT ![v].state = s]
<1>3. DOMAIN rows = 1..Len(rows) /\ Len(rows) \in Nat OBVIOUS
<1>4. new = [rows EXCEPT ![v] = [rows[v] EXCEPT !.state = s]] BY Zenon
<1>5. new \in [1..Len(rows) -> Version] BY <1>1, <1>3, <1>4
<1>6. new[v] = [rows[v] EXCEPT !.state = s] /\ \A u \in DOMAIN rows \ {v} : new[u] = rows[u]
  BY <1>4
<1> HIDE DEF new
<1>7. new \in Seq(Version) /\ Len(new) = Len(rows) /\ DOMAIN new = DOMAIN rows
  BY <1>3, <1>5, FunctionSeq, Zenon
<1>8. \A u \in DOMAIN rows : new[u].source = rows[u].source BY <1>2, <1>6
<1>q. QED BY <1>2, <1>6, <1>7, <1>8 DEF new, SameRows, OnlySets

\* A source is kept, and is new only where the row is.
From(rows, new, source) ==
  /\ new \in Seq(Version) /\ Len(new) \in Len(rows)..(Len(rows) + 1)
  /\ \A v \in DOMAIN new :
       (v \in DOMAIN rows /\ new[v].source = rows[v].source) \/ new[v].source = source

\* Rows keep their source, a version in force is at most retired, and one that is
\* retired comes back only for its own source.
Spares(rows, new, source) ==
  \A v \in DOMAIN rows :
    /\ v \in DOMAIN new /\ new[v].source = rows[v].source
    /\ rows[v].state = "ACTIVE" => new[v].state \in {"ACTIVE", "RETIRED"}
    /\ rows[v].state = "RETIRED" /\ rows[v].source # source => new[v].state = "RETIRED"

LEMMA DraftedFacts ==
  ASSUME NEW rows \in Seq(Version), NEW source \in 1..MaxObservations, NEW content \in Contents,
         InForce(rows)
  PROVE  /\ From(rows, Drafted(rows, source, content), source)
         /\ Spares(rows, Drafted(rows, source, content), source)
         /\ InForce(Drafted(rows, source, content))
<1> DEFINE same == Existing(rows, source, content)
           draft == [source |-> source, content |-> content, state |-> "DRAFT"]
           new == Drafted(rows, source, content)
<1>1. DOMAIN rows = 1..Len(rows) /\ Len(rows) \in Nat OBVIOUS
<1>2. CASE same = {}
  <2> DEFINE old == Retired(rows, {"DRAFT"}, 0)
  <2>1. new = Append(old, draft) BY <1>2, Zenon DEF Drafted
  <2>2. SameRows(old, rows) /\ OnlyRetires(old, rows, {"DRAFT"}, 0)
    BY RetiredFacts
  <2>3. draft \in Version /\ draft.state = "DRAFT" /\ draft.source = source
    BY DEF Version, VersionStates
  <2> HIDE DEF old, draft, new
  <2>4. /\ new \in Seq(Version) /\ Len(new) = Len(rows) + 1 /\ DOMAIN new = 1..(Len(rows) + 1)
        /\ new[Len(rows) + 1] = draft /\ \A v \in DOMAIN rows : new[v] = old[v]
    BY <1>1, <2>1, <2>2, <2>3 DEF SameRows
  <2>5. \A v \in DOMAIN new : v \in DOMAIN rows \/ v = Len(rows) + 1 BY <1>1, <2>4
  <2>6. From(rows, new, source)
    <3>1. Len(new) \in Len(rows)..(Len(rows) + 1) BY <1>1, <2>4
    <3>2. \A v \in DOMAIN new :
            (v \in DOMAIN rows /\ new[v].source = rows[v].source) \/ new[v].source = source
      BY <2>2, <2>3, <2>4, <2>5 DEF SameRows
    <3>q. QED BY <2>4, <3>1, <3>2 DEF From
  <2>7. \A v \in DOMAIN rows : new[v].state # "DRAFT" /\
                               (new[v].state = "RETIRED" \/ new[v].state = rows[v].state)
    BY <1>1, <2>2, <2>4 DEF OnlyRetires
  <2>8. InForce(new) BY <2>3, <2>4, <2>5, <2>7 DEF InForce
  <2>9. \A v \in DOMAIN rows : v \in DOMAIN new /\ new[v].source = rows[v].source
    BY <1>1, <2>2, <2>4 DEF SameRows
  <2>10. \A v \in DOMAIN rows :
           rows[v].state \in {"ACTIVE", "RETIRED"} => new[v].state = rows[v].state
    BY <2>2, <2>4 DEF OnlyRetires
  <2>11. Spares(rows, new, source) BY <2>9, <2>10 DEF Spares
  <2>q. QED BY <2>6, <2>8, <2>11 DEF new
<1>3. CASE same # {}
  <2>1. PICK v \in same :
          new = [Retired(rows, {"DRAFT"}, v) EXCEPT ![v].state = IF @ = "RETIRED" THEN "DRAFT" ELSE @]
    BY <1>3, Zenon DEF Drafted
  <2> DEFINE old == Retired(rows, {"DRAFT"}, v)
             s == IF old[v].state = "RETIRED" THEN "DRAFT" ELSE old[v].state
  <2>2. v \in DOMAIN rows BY DEF Existing
  <2>3. SameRows(old, rows) /\ OnlyRetires(old, rows, {"DRAFT"}, v)
    BY RetiredFacts
  <2>4. old[v] \in Version BY <2>2, <2>3 DEF SameRows
  <2>5. s \in VersionStates BY <2>4 DEF Version, VersionStates
  <2>6. new = [old EXCEPT ![v].state = s] BY <2>1, Zenon
  <2> HIDE DEF old, s, new, same
  <2>7. SameRows(new, old) /\ OnlySets(new, old, v, s)
    <3>1. old \in Seq(Version) /\ v \in DOMAIN old BY <2>2, <2>3 DEF SameRows
    <3>2. /\ SameRows([old EXCEPT ![v].state = s], old)
          /\ OnlySets([old EXCEPT ![v].state = s], old, v, s)
      BY <2>5, <3>1, ExceptFacts
    <3>q. QED BY <2>6, <3>2, Zenon
  <2>8. From(rows, new, source)
    <3>1. Len(new) \in Len(rows)..(Len(rows) + 1) BY <1>1, <2>3, <2>7 DEF SameRows
    <3>q. QED BY <2>3, <2>7, <3>1 DEF From, SameRows
  <2>9. \A u \in DOMAIN rows \ {v} : new[u].state # "DRAFT" /\
                                     (new[u].state = "RETIRED" \/ new[u].state = rows[u].state)
    BY <2>3, <2>7 DEF SameRows, OnlyRetires, OnlySets
  <2>10. old[v] = rows[v] BY <2>2, <2>3 DEF OnlyRetires
  <2>11. new[v].state = "DRAFT" \/ new[v].state = rows[v].state BY <2>7, <2>10 DEF s, OnlySets
  <2>12. InForce(new) BY <2>3, <2>7, <2>9, <2>11 DEF InForce, SameRows
  <2>13. \A u \in DOMAIN rows : u \in DOMAIN new /\ new[u].source = rows[u].source
    BY <2>3, <2>7 DEF SameRows
  <2>14. rows[v].source = source BY DEF same, Existing
  <2>15. \A u \in DOMAIN rows \ {v} :
           rows[u].state \in {"ACTIVE", "RETIRED"} => new[u].state = rows[u].state
    BY <2>3, <2>7 DEF SameRows, OnlyRetires, OnlySets
  <2>16. rows[v].state = "ACTIVE" => new[v].state = "ACTIVE"
    BY <2>7, <2>10 DEF s, OnlySets
  <2>17. Spares(rows, new, source) BY <2>13, <2>14, <2>15, <2>16 DEF Spares
  <2>q. QED BY <2>8, <2>12, <2>17 DEF new
<1>q. QED BY <1>2, <1>3

LEMMA ActivatedFacts ==
  ASSUME NEW rows \in Seq(Version), NEW v \in DOMAIN rows, InForce(rows)
  PROVE  /\ From(rows, Activated(rows, v), 0)
         /\ Spares(rows, Activated(rows, v), rows[v].source)
         /\ InForce(Activated(rows, v)) /\ Len(Activated(rows, v)) = Len(rows)
<1> DEFINE old == Retired(rows, {"ACTIVE"}, v)
           new == Activated(rows, v)
<1>1. SameRows(old, rows) /\ OnlyRetires(old, rows, {"ACTIVE"}, v)
  BY RetiredFacts
<1>2. "ACTIVE" \in VersionStates /\ new = [old EXCEPT ![v].state = "ACTIVE"]
  BY DEF Activated, VersionStates
<1> HIDE DEF old, new
<1>3. SameRows(new, old) /\ OnlySets(new, old, v, "ACTIVE")
  <2>1. old \in Seq(Version) /\ v \in DOMAIN old BY <1>1 DEF SameRows
  <2>2. /\ SameRows([old EXCEPT ![v].state = "ACTIVE"], old)
        /\ OnlySets([old EXCEPT ![v].state = "ACTIVE"], old, v, "ACTIVE")
    BY <1>2, <2>1, ExceptFacts
  <2>q. QED BY <1>2, <2>2, Zenon
<1>4. From(rows, new, 0)
  <2>1. Len(new) \in Len(rows)..(Len(rows) + 1) BY <1>1, <1>3 DEF SameRows
  <2>q. QED BY <1>1, <1>3, <2>1 DEF From, SameRows
<1>5. \A u \in DOMAIN rows \ {v} : new[u].state # "ACTIVE" /\
                                   (new[u].state = "RETIRED" \/ new[u].state = rows[u].state)
  BY <1>1, <1>3 DEF SameRows, OnlyRetires, OnlySets
<1>6. InForce(new) BY <1>1, <1>3, <1>5 DEF InForce, SameRows, OnlySets
<1>7. \A u \in DOMAIN rows : u \in DOMAIN new /\ new[u].source = rows[u].source
  BY <1>1, <1>3 DEF SameRows
<1>8. Spares(rows, new, rows[v].source)
  BY <1>3, <1>5, <1>7 DEF Spares, OnlySets
<1>q. QED BY <1>1, <1>3, <1>4, <1>6, <1>8 DEF new, SameRows

-----------------------------------------------------------------------------
(* Collections.  Only the owner of the lease writes a snapshot, whoever    *)
(* takes the lease observes later than every snapshot there is, and the    *)
(* locked row keeps the owner until its snapshot is written.               *)

Timed == Working \cup Bound
Writing == {"OBSERVED", "CHECKED", "STARTED"} \cup Bound  \* may still write a snapshot
Locking == {"LOCKED", "PINNED"}

SnapsInv ==
  /\ InOrder(snaps)
  /\ \A i \in DOMAIN snaps : i <= snaps[i].observed /\ snaps[i].observed <= clock

TimesInv ==
  /\ \A c \in Collectors : collect[c].phase \in Timed => collect[c].observed <= clock
  /\ \A c, d \in Collectors :
       collect[c].phase \in Timed /\ collect[d].phase \in Timed
         /\ collect[c].observed = collect[d].observed => c = d

LockInv == \A c \in Collectors : collect[c].phase \in Locking => Mine(c) /\ lease.locked

WritersInv ==
  \A c \in Collectors : collect[c].phase \in Writing =>
    \A i \in DOMAIN snaps :
      /\ snaps[i].observed # collect[c].observed
      /\ Mine(c) => snaps[i].observed < collect[c].observed

CollectInv == SnapsInv /\ RunsTellTheTruth /\ TimesInv /\ LockInv /\ WritersInv

LEMMA CollectorTypes ==
  ASSUME CollectionTypeOK, NEW c \in Collectors
  PROVE  /\ collect[c].phase \in Waiting \cup Timed
         /\ collect[c].phase \in Timed => collect[c].observed \in 1..MaxObservations
         /\ collect[c].phase \in Bound => collect[c].target \in 0..MaxVersions
<1>1. collect[c] \in Collecting BY DEF CollectionTypeOK
<1>2. \/ collect[c] \in [phase : Waiting]
      \/ collect[c] \in [phase : Working, observed : 1..MaxObservations]
      \/ collect[c] \in [phase : Bound, observed : 1..MaxObservations, target : 0..MaxVersions]
  BY <1>1 DEF Collecting
<1>3. Waiting \cap Timed = {} /\ Working \cap Bound = {} BY DEF Waiting, Timed, Working, Bound
<1>q. QED BY <1>2, <1>3 DEF Timed

\* c changes and nobody else does.
Alone(c) ==
  /\ collect' \in [Collectors -> Collecting]
  /\ \A d \in Collectors \ {c} : collect'[d] = collect[d]

LEMMA EndsFacts ==
  ASSUME CollectionTypeOK, NEW c \in Collectors, NEW p \in Waiting, Ends(c, p)
  PROVE  Alone(c) /\ collect'[c].phase = p
BY DEF CollectionTypeOK, Ends, Alone, Collecting

LEMMA FailsFacts ==
  ASSUME CollectionTypeOK, NEW c \in Collectors, collect[c].phase \in Timed, Fails(c)
  PROVE  /\ Alone(c) /\ collect'[c].phase = "FAILING"
         /\ collect'[c].observed = collect[c].observed
<1>1. collect[c].observed \in 1..MaxObservations BY CollectorTypes
<1>2. [phase |-> "FAILING", observed |-> collect[c].observed] \in Collecting
  BY <1>1 DEF Collecting, Working
<1>q. QED BY <1>2 DEF CollectionTypeOK, Fails, Alone

LEMMA MovesFacts ==
  ASSUME CollectionTypeOK, NEW c \in Collectors, NEW p, Moves(c, p),
         \/ collect[c].phase \in Working /\ p \in Working
         \/ collect[c].phase \in Bound /\ p \in Bound
  PROVE  /\ Alone(c) /\ collect'[c].phase = p
         /\ collect'[c].observed = collect[c].observed
         /\ p \in Bound => collect'[c].target = collect[c].target
<1>1. collect[c] \in Collecting BY DEF CollectionTypeOK
<1>2. Waiting \cap Timed = {} /\ Working \cap Bound = {} BY DEF Waiting, Timed, Working, Bound
<1> DEFINE new == [collect[c] EXCEPT !.phase = p]
<1>3. CASE collect[c].phase \in Working /\ p \in Working
  <2>1. collect[c] \in [phase : Working, observed : 1..MaxObservations]
    BY <1>1, <1>2, <1>3 DEF Collecting, Timed
  <2>2. new \in [phase : Working, observed : 1..MaxObservations]
        /\ new.phase = p /\ new.observed = collect[c].observed
    BY <1>3, <2>1
  <2>3. new \in Collecting BY <2>2 DEF Collecting
  <2> HIDE DEF new
  <2>4. collect' = [collect EXCEPT ![c] = new] BY DEF Moves, new
  <2>q. QED BY <1>2, <1>3, <2>2, <2>3, <2>4 DEF CollectionTypeOK, Alone
<1>4. CASE collect[c].phase \in Bound /\ p \in Bound
  <2>1. collect[c] \in [phase : Bound, observed : 1..MaxObservations, target : 0..MaxVersions]
    BY <1>1, <1>2, <1>4 DEF Collecting, Timed
  <2>2. new \in [phase : Bound, observed : 1..MaxObservations, target : 0..MaxVersions]
        /\ new.phase = p /\ new.observed = collect[c].observed /\ new.target = collect[c].target
    BY <1>4, <2>1
  <2>3. new \in Collecting BY <2>2 DEF Collecting
  <2> HIDE DEF new
  <2>4. collect' = [collect EXCEPT ![c] = new] BY DEF Moves, new
  <2>q. QED BY <2>2, <2>3, <2>4 DEF CollectionTypeOK, Alone
<1>q. QED BY <1>3, <1>4

\* Most steps neither write nor begin anything.
LEMMA QuietStep ==
  ASSUME CollectionTypeOK, CollectInv, snaps' = snaps, clock' = clock, RunsTellTheTruth',
         lease'.owner \in {lease.owner, NoOne},
         \A c \in Collectors :
           /\ collect'[c].phase \in Timed =>
                collect[c].phase \in Timed /\ collect'[c].observed = collect[c].observed
           /\ collect'[c].phase \in Writing => collect[c].phase \in Writing
           /\ collect'[c].phase \in Locking => lease'.owner = c /\ lease'.locked
  PROVE  CollectInv'
<1>1. SnapsInv' BY DEF CollectInv, SnapsInv, InOrder
<1>2. TimesInv' BY DEF CollectInv, TimesInv
<1>3. LockInv' BY DEF LockInv, Mine
<1>4. WritersInv'
  <2>1. \A c \in Collectors : lease'.owner = c => Mine(c) BY CollectionAssumption DEF Mine
  <2>2. \A c \in Collectors : collect'[c].phase \in Writing => collect'[c].phase \in Timed
    BY DEF Writing, Timed, Working
  <2>q. QED BY <2>1, <2>2 DEF CollectInv, WritersInv, Mine
<1>q. QED BY <1>1, <1>2, <1>3, <1>4 DEF CollectInv

TargetsExist ==
  \A c \in Collectors : collect[c].phase \in Bound => collect[c].target <= Len(versions)

CollectionInv == StoreTypeOK /\ CollectionTypeOK /\ CollectInv /\ TargetsExist

LeaseType == [owner : Collectors \cup {NoOne}, live : BOOLEAN, locked : BOOLEAN]

\* What remains to be shown of a quiet step of c.
LEMMA QuietStepOf ==
  ASSUME CollectionInv, NEW c \in Collectors, Alone(c),
         UNCHANGED <<snaps, versions, clock>>,
         lease' \in LeaseType, lease'.owner \in {lease.owner, NoOne},
         runs' \in [1..MaxObservations -> RunStates], RunsTellTheTruth',
         \A d \in Collectors \ {c} : lease.owner = d => lease'.owner = d /\ lease'.locked = lease.locked,
         collect'[c].phase \in Timed =>
           collect[c].phase \in Timed /\ collect'[c].observed = collect[c].observed,
         collect'[c].phase \in Writing => collect[c].phase \in Writing,
         collect'[c].phase \in Locking => lease'.owner = c /\ lease'.locked,
         collect'[c].phase \in Bound => collect'[c].target <= Len(versions)
  PROVE  CollectionInv'
<1>1. \A d \in Collectors \ {c} : collect'[d] = collect[d] BY DEF Alone
<1>2. \A d \in Collectors \ {c} : collect[d].phase \in Locking => lease.owner = d /\ lease.locked
  BY DEF CollectionInv, CollectInv, LockInv, Mine
<1>3. CollectInv'
  <2>1. \A d \in Collectors :
          /\ collect'[d].phase \in Timed =>
               collect[d].phase \in Timed /\ collect'[d].observed = collect[d].observed
          /\ collect'[d].phase \in Writing => collect[d].phase \in Writing
          /\ collect'[d].phase \in Locking => lease'.owner = d /\ lease'.locked
    BY <1>1, <1>2
  <2>q. QED BY <2>1, QuietStep DEF CollectionInv
<1>4. TargetsExist' BY <1>1 DEF CollectionInv, TargetsExist
<1>5. CollectionTypeOK' BY DEF CollectionInv, CollectionTypeOK, Alone, LeaseType
<1>6. StoreTypeOK' BY DEF CollectionInv, StoreTypeOK
<1>q. QED BY <1>3, <1>4, <1>5, <1>6 DEF CollectionInv

LEMMA TruthStays ==
  ASSUME RunsTellTheTruth, UNCHANGED <<snaps, runs>> PROVE RunsTellTheTruth'
BY DEF RunsTellTheTruth

LEMMA UnlockedFacts ==
  ASSUME CollectionTypeOK, NEW c \in Collectors
  PROVE  /\ Unlocked(c) \in LeaseType /\ Unlocked(c).owner = lease.owner
         /\ \A d \in Collectors \ {c} : lease.owner = d => Unlocked(c).locked = lease.locked
BY DEF Unlocked, CollectionTypeOK, LeaseType, Mine

\* Steps that change nothing but the phase of c.
LEMMA PhaseStep ==
  ASSUME CollectionInv, NEW c \in Collectors,
         Heartbeat(c) \/ LeaseIsLost(c)
  PROVE  CollectionInv'
<1>1. /\ UNCHANGED <<snaps, versions, clock>> /\ lease' = lease /\ runs' = runs
  BY DEF Heartbeat, LeaseIsLost
<1>2. /\ lease' \in LeaseType /\ runs' \in [1..MaxObservations -> RunStates] /\ RunsTellTheTruth'
  BY <1>1, TruthStays DEF CollectionInv, CollectInv, CollectionTypeOK, LeaseType
<1>3. \/ collect[c].phase = "OBSERVED" /\ Moves(c, "CHECKED")
      \/ collect[c].phase = "SCOPED" /\ Moves(c, "READY")
      \/ collect[c].phase \in {"SCOPED", "READY"} /\ Fails(c)
      \/ Ends(c, "DONE")
  BY DEF Heartbeat, LeaseIsLost
<1>4. Alone(c)
  BY <1>3, MovesFacts, FailsFacts, EndsFacts
     DEF CollectionInv, Working, Bound, Timed, Waiting
<1>5. /\ collect'[c].phase \in Timed =>
           collect[c].phase \in Timed /\ collect'[c].observed = collect[c].observed
      /\ collect'[c].phase \in Writing => collect[c].phase \in Writing
      /\ collect'[c].phase \notin Locking
      /\ collect'[c].phase \in Bound =>
           collect[c].phase \in Bound /\ collect'[c].target = collect[c].target
  BY <1>3, MovesFacts, FailsFacts, EndsFacts
     DEF CollectionInv, Working, Bound, Timed, Waiting, Writing, Locking
<1>6. collect'[c].phase \in Bound => collect'[c].target <= Len(versions)
  BY <1>5 DEF CollectionInv, TargetsExist
<1>q. QED BY <1>1, <1>2, <1>4, <1>5, <1>6, QuietStepOf

LEMMA StartStep ==
  ASSUME CollectionInv, NEW c \in Collectors, StartCollection(c) PROVE CollectionInv'
<1>1. /\ UNCHANGED <<snaps, versions, clock>> /\ lease' = lease /\ collect[c].phase = "CHECKED"
      /\ Moves(c, "STARTED") /\ runs' = [runs EXCEPT ![collect[c].observed] = "RUNNING"]
  BY DEF StartCollection
<1>2. /\ Alone(c) /\ collect'[c].phase = "STARTED" /\ collect'[c].observed = collect[c].observed
  BY <1>1, MovesFacts DEF CollectionInv, Working
<1>3. /\ collect[c].observed \in 1..MaxObservations
      /\ runs' \in [1..MaxObservations -> RunStates]
      /\ \A t \in 1..MaxObservations :
           runs'[t] = IF t = collect[c].observed THEN "RUNNING" ELSE runs[t]
  BY <1>1, CollectorTypes DEF CollectionInv, CollectionTypeOK, RunStates, Timed, Working
<1>4. \A i \in DOMAIN snaps : snaps[i].observed # collect[c].observed
  BY <1>1 DEF CollectionInv, CollectInv, WritersInv, Writing
<1>5. RunsTellTheTruth' BY <1>1, <1>3, <1>4 DEF CollectionInv, CollectInv, RunsTellTheTruth
<1>6. lease' \in LeaseType BY <1>1 DEF CollectionInv, CollectionTypeOK, LeaseType
<1>q. QED
  BY <1>1, <1>2, <1>3, <1>5, <1>6, QuietStepOf DEF Timed, Working, Writing, Locking, Bound

LEMMA ScopeStep ==
  ASSUME CollectionInv, NEW c \in Collectors, CollectionTargetScope(c) PROVE CollectionInv'
<1> DEFINE new == [phase |-> "SCOPED", observed |-> collect[c].observed,
                   target |-> ActiveIn(versions)]
<1>1. /\ UNCHANGED <<snaps, versions, clock>> /\ lease' = lease /\ runs' = runs
      /\ collect[c].phase = "STARTED" /\ collect' = [collect EXCEPT ![c] = new]
  BY DEF CollectionTargetScope
<1>2. collect[c].observed \in 1..MaxObservations
  BY <1>1, CollectorTypes DEF CollectionInv, Timed, Working
<1>3. /\ ActiveIn(versions) \in 0..Len(versions) /\ Len(versions) <= MaxVersions
      /\ Len(versions) \in Nat
  BY ActiveInType DEF CollectionInv, StoreTypeOK
<1>4. new \in Collecting
  BY <1>2, <1>3, BoundsHold DEF Collecting, Bound, Bounds
<1>5. Alone(c) /\ collect'[c] = new
  BY <1>1, <1>4 DEF Alone, CollectionInv, CollectionTypeOK
<1>6. /\ lease' \in LeaseType /\ runs' \in [1..MaxObservations -> RunStates] /\ RunsTellTheTruth'
  BY <1>1, TruthStays DEF CollectionInv, CollectInv, CollectionTypeOK, LeaseType
<1>q. QED
  BY <1>1, <1>3, <1>5, <1>6, QuietStepOf DEF Timed, Working, Writing, Locking, Bound

LEMMA LockingStep ==
  ASSUME CollectionInv, NEW c \in Collectors, LockLease(c) \/ CompareTarget(c)
  PROVE  CollectionInv'
<1>1. /\ UNCHANGED <<snaps, versions, clock>> /\ runs' = runs
  BY DEF LockLease, CompareTarget
<1>2. runs' \in [1..MaxObservations -> RunStates] /\ RunsTellTheTruth'
  BY <1>1, TruthStays DEF CollectionInv, CollectInv, CollectionTypeOK
<1>3. CASE LockLease(c)
  <2>1. /\ collect[c].phase = "READY" /\ lease.owner = c /\ Moves(c, "LOCKED")
        /\ lease' = [lease EXCEPT !.locked = TRUE]
    BY <1>3 DEF LockLease, Mine
  <2>2. /\ Alone(c) /\ collect'[c].phase = "LOCKED" /\ collect'[c].observed = collect[c].observed
        /\ collect'[c].target = collect[c].target
    BY <2>1, MovesFacts DEF CollectionInv, Bound
  <2>3. lease' \in LeaseType /\ lease'.owner = c /\ lease'.locked
    BY <2>1 DEF CollectionInv, CollectionTypeOK, LeaseType
  <2>4. collect[c].target <= Len(versions)
    BY <2>1 DEF CollectionInv, TargetsExist, Bound
  <2>q. QED
    BY <1>1, <1>2, <2>1, <2>2, <2>3, <2>4, QuietStepOf DEF Timed, Writing, Bound
<1>4. CASE CompareTarget(c) /\ lease' = lease
  <2>1. /\ collect[c].phase = "LOCKED" /\ (Moves(c, "PINNED") \/ Fails(c))
    BY <1>4 DEF CompareTarget
  <2>2. /\ Alone(c) /\ collect'[c].phase \in {"PINNED", "FAILING"}
        /\ collect'[c].observed = collect[c].observed
        /\ collect'[c].phase \in Bound => collect'[c].target = collect[c].target
    BY <2>1, MovesFacts, FailsFacts DEF CollectionInv, Bound, Timed
  <2>3. lease' \in LeaseType /\ lease.owner = c /\ lease.locked
    BY <1>4, <2>1 DEF CollectionInv, CollectionTypeOK, LeaseType, CollectInv, LockInv, Locking, Mine
  <2>4. collect[c].target <= Len(versions)
    BY <2>1 DEF CollectionInv, TargetsExist, Bound
  <2>q. QED
    BY <1>1, <1>2, <1>4, <2>1, <2>2, <2>3, <2>4, QuietStepOf
       DEF Timed, Writing, Bound, Working, Locking
<1>5. CASE CompareTarget(c) /\ lease' # lease
  <2>1. collect[c].phase = "LOCKED" /\ Fails(c) /\ lease' = Unlocked(c)
    BY <1>5 DEF CompareTarget
  <2>2. /\ Alone(c) /\ collect'[c].phase = "FAILING" /\ collect'[c].observed = collect[c].observed
    BY <2>1, FailsFacts DEF CollectionInv, Bound, Timed
  <2>3. /\ lease' \in LeaseType /\ lease'.owner = lease.owner
        /\ \A d \in Collectors \ {c} : lease.owner = d => lease'.locked = lease.locked
    BY <2>1, UnlockedFacts DEF CollectionInv
  <2>q. QED
    BY <1>1, <1>2, <2>1, <2>2, <2>3, QuietStepOf DEF Timed, Writing, Bound, Working, Locking
<1>q. QED BY <1>3, <1>4, <1>5

\* A request ends in failure or is over.
LEMMA EndingStep ==
  ASSUME CollectionInv, NEW c \in Collectors,
         Throw(c) \/ FailCollection(c) \/ ReleaseLease(c) \/ CutOffCollection(c)
  PROVE  CollectionInv'
<1>1. UNCHANGED <<snaps, versions, clock>>
  BY DEF Throw, FailCollection, ReleaseLease, CutOffCollection
<1>2. runs' \in [1..MaxObservations -> RunStates] /\ RunsTellTheTruth'
  <2>1. CASE runs' = runs
    BY <1>1, <2>1, TruthStays DEF CollectionInv, CollectInv, CollectionTypeOK
  <2>2. CASE runs' # runs
    <3>1. /\ collect[c].phase = "FAILING"
          /\ runs' = [runs EXCEPT ![collect[c].observed] =
                        IF @ = "RUNNING" THEN "FAILED" ELSE @]
      BY <2>2 DEF Throw, FailCollection, ReleaseLease, CutOffCollection
    <3>2. \A t \in 1..MaxObservations :
            runs'[t] = runs[t] \/ (runs[t] = "RUNNING" /\ runs'[t] = "FAILED")
      BY <3>1 DEF CollectionInv, CollectionTypeOK
    <3>3. runs' \in [1..MaxObservations -> RunStates]
      BY <3>1 DEF CollectionInv, CollectionTypeOK, RunStates
    <3>q. QED BY <1>1, <3>2, <3>3 DEF CollectionInv, CollectInv, RunsTellTheTruth
  <2>q. QED BY <2>1, <2>2
<1>3. \/ collect[c].phase \in Timed /\ Fails(c)
      \/ Ends(c, "DONE") \/ Ends(c, "IDLE")
  BY DEF Throw, FailCollection, ReleaseLease, CutOffCollection, Timed, Bound, Working
<1>4. /\ Alone(c) /\ collect'[c].phase \notin Writing
      /\ collect'[c].phase \in Timed =>
           collect[c].phase \in Timed /\ collect'[c].observed = collect[c].observed
  BY <1>3, FailsFacts, EndsFacts DEF CollectionInv, Writing, Timed, Working, Bound, Waiting
<1>5. /\ lease' \in LeaseType /\ lease'.owner \in {lease.owner, NoOne}
      /\ \A d \in Collectors \ {c} :
           lease.owner = d => lease'.owner = d /\ lease'.locked = lease.locked
  <2>1. CASE lease' = lease BY <2>1 DEF CollectionInv, CollectionTypeOK, LeaseType
  <2>2. CASE lease' = Unlocked(c) BY <2>2, UnlockedFacts DEF CollectionInv
  <2>3. CASE Mine(c) /\ \E live \in BOOLEAN :
               lease' = [owner |-> NoOne, live |-> live, locked |-> FALSE]
    <3>1. PICK live \in BOOLEAN : lease' = [owner |-> NoOne, live |-> live, locked |-> FALSE]
      BY <2>3
    <3>2. lease' \in LeaseType /\ lease'.owner = NoOne BY <3>1 DEF LeaseType
    <3>3. lease.owner = c BY <2>3 DEF Mine
    <3>q. QED BY <3>2, <3>3
  <2>4. lease.live \in BOOLEAN BY DEF CollectionInv, CollectionTypeOK
  <2>q. QED
    BY <2>1, <2>2, <2>3, <2>4 DEF Throw, FailCollection, ReleaseLease, CutOffCollection
<1>q. QED
  BY <1>1, <1>2, <1>4, <1>5, QuietStepOf DEF Writing, Locking, Bound

LEMMA AcquireStep ==
  ASSUME CollectionInv, NEW c \in Collectors, AcquireLease(c) PROVE CollectionInv'
<1>1. /\ UNCHANGED <<snaps, versions, clock, runs>> /\ ~lease.locked /\ Ends(c, "LEASED")
      /\ lease' = [owner |-> c, live |-> TRUE, locked |-> FALSE]
  BY DEF AcquireLease
<1>2. Alone(c) /\ collect'[c].phase = "LEASED"
  BY <1>1, EndsFacts DEF CollectionInv, Waiting
<1>3. \A d \in Collectors : collect'[d].phase \in Timed => d # c /\ collect'[d] = collect[d]
  BY <1>2 DEF Alone, Timed, Working, Bound
<1>4. Writing \subseteq Timed /\ Locking \subseteq Timed /\ Bound \subseteq Timed
  BY DEF Writing, Timed, Locking, Working, Bound
<1>5. SnapsInv' BY <1>1 DEF CollectionInv, CollectInv, SnapsInv, InOrder
<1>6. TimesInv' BY <1>1, <1>3 DEF CollectionInv, CollectInv, TimesInv
<1>7. LockInv' BY <1>1, <1>3, <1>4 DEF CollectionInv, CollectInv, LockInv
<1>8. WritersInv'
  <2>1. lease'.owner = c BY <1>1
  <2>q. QED BY <1>1, <1>3, <1>4, <2>1 DEF CollectionInv, CollectInv, WritersInv, Mine
<1>9. TargetsExist' BY <1>1, <1>3, <1>4 DEF CollectionInv, TargetsExist
<1>10. CollectionTypeOK' /\ StoreTypeOK' /\ RunsTellTheTruth'
  <2>1. lease' \in LeaseType BY <1>1 DEF LeaseType
  <2>q. QED
    BY <1>1, <1>2, <2>1, TruthStays
       DEF CollectionInv, CollectInv, CollectionTypeOK, StoreTypeOK, Alone, LeaseType
<1>q. QED BY <1>5, <1>6, <1>7, <1>8, <1>9, <1>10 DEF CollectionInv, CollectInv

LEMMA ObserveStep ==
  ASSUME CollectionInv, NEW c \in Collectors, Observe(c) PROVE CollectionInv'
<1> DEFINE new == [phase |-> "OBSERVED", observed |-> clock + 1]
<1>1. /\ UNCHANGED <<snaps, versions, lease, runs>> /\ clock < MaxObservations
      /\ clock' = clock + 1 /\ collect' = [collect EXCEPT ![c] = new]
      /\ collect[c].phase = "LEASED"
  BY DEF Observe
<1>2. clock \in 0..MaxObservations /\ clock + 1 \in 1..MaxObservations
  BY <1>1, BoundsHold DEF CollectionInv, CollectionTypeOK, Bounds
<1>3. new \in Collecting BY <1>2 DEF Collecting, Working
<1>4. Alone(c) /\ collect'[c] = new BY <1>1, <1>3 DEF Alone, CollectionInv, CollectionTypeOK
<1>5. \A d \in Collectors \ {c} : collect'[d] = collect[d] BY <1>4 DEF Alone
<1>6. \A d \in Collectors : collect[d].phase \in Timed => collect[d].observed \in Nat
  BY CollectorTypes, BoundsHold DEF CollectionInv, Bounds
<1>7. \A i \in DOMAIN snaps : snaps[i].observed \in Nat
  <2>1. \A i \in DOMAIN snaps : snaps[i] \in Snapshot BY DEF CollectionInv, StoreTypeOK
  <2>q. QED BY <2>1, BoundsHold DEF Snapshot, Bounds
<1>8. SnapsInv' BY <1>1, <1>2, <1>7 DEF CollectionInv, CollectInv, SnapsInv, InOrder
<1>9. TimesInv'
  <2>1. \A d \in Collectors : collect[d].phase \in Timed => collect[d].observed <= clock
    BY DEF CollectionInv, CollectInv, TimesInv
  <2>2. \A d \in Collectors :
          collect'[d].phase \in Timed => collect'[d].observed <= clock'
    BY <1>1, <1>2, <1>4, <1>5, <1>6, <2>1
  <2>3. \A d \in Collectors \ {c} :
          collect'[d].phase \in Timed => collect'[d].observed # collect'[c].observed
    BY <1>2, <1>4, <1>5, <1>6, <2>1
  <2>q. QED BY <1>5, <2>2, <2>3 DEF CollectionInv, CollectInv, TimesInv
<1>10. LockInv' BY <1>1, <1>4, <1>5 DEF CollectionInv, CollectInv, LockInv, Mine, Locking
<1>11. WritersInv'
  <2>1. \A i \in DOMAIN snaps : snaps[i].observed < clock + 1
    BY <1>2, <1>7 DEF CollectionInv, CollectInv, SnapsInv
  <2>2. \A i \in DOMAIN snaps : snaps[i].observed # clock + 1
    BY <1>2, <1>7, <2>1
  <2>q. QED
    BY <1>1, <1>4, <1>5, <2>1, <2>2 DEF CollectionInv, CollectInv, WritersInv, Mine
<1>12. TargetsExist' BY <1>1, <1>4, <1>5 DEF CollectionInv, TargetsExist, Bound
<1>13. CollectionTypeOK' /\ StoreTypeOK' /\ RunsTellTheTruth'
  BY <1>1, <1>2, <1>4, TruthStays
     DEF CollectionInv, CollectInv, CollectionTypeOK, StoreTypeOK, Alone
<1>q. QED BY <1>8, <1>9, <1>10, <1>11, <1>12, <1>13 DEF CollectionInv, CollectInv

LEMMA ExpiryStep ==
  ASSUME CollectionInv, LeaseExpires PROVE CollectionInv'
<1>1. /\ UNCHANGED <<snaps, versions, clock, runs, collect>>
      /\ lease' = [lease EXCEPT !.live = FALSE]
  BY DEF LeaseExpires
<1>2. lease' \in LeaseType /\ lease'.owner = lease.owner /\ lease'.locked = lease.locked
  BY <1>1 DEF CollectionInv, CollectionTypeOK, LeaseType
<1>q. QED
  BY <1>1, <1>2 DEF CollectionInv, CollectInv, CollectionTypeOK, StoreTypeOK, TargetsExist, SnapsInv,
                    InOrder, TimesInv, LockInv, WritersInv, Mine, RunsTellTheTruth, LeaseType

\* The owner of the locked lease appends an observation later than all the others.
LEMMA CompleteStep ==
  ASSUME CollectionInv, NEW c \in Collectors, CompleteCollection(c)
  PROVE  CollectionInv' /\ Len(snaps') = Len(snaps) + 1
<1> DEFINE t == collect[c].observed
           new == [observed |-> t, target |-> collect[c].target]
<1>1. /\ collect[c].phase = "PINNED" /\ snaps' = Append(snaps, new)
      /\ runs' = [runs EXCEPT ![t] = "SUCCEEDED"] /\ lease' = Unlocked(c)
      /\ UNCHANGED <<clock, versions>> /\ (Ends(c, "DONE") \/ Fails(c))
  BY DEF CompleteCollection
<1>2. collect[c].phase \in Timed /\ collect[c].phase \in Writing /\ collect[c].phase \in Locking
      /\ collect[c].phase \in Bound
  BY <1>1 DEF Timed, Writing, Locking, Bound
<1>3. t \in 1..MaxObservations /\ collect[c].target \in 0..MaxVersions
  BY <1>2, CollectorTypes DEF CollectionInv
<1>4. t <= clock /\ collect[c].target <= Len(versions) /\ Mine(c)
  BY <1>2 DEF CollectionInv, CollectInv, TimesInv, TargetsExist, LockInv
<1>5. \A i \in DOMAIN snaps : snaps[i].observed < t
  BY <1>2, <1>4 DEF CollectionInv, CollectInv, WritersInv
<1>6. new \in Snapshot BY <1>3 DEF Snapshot
<1> HIDE DEF new
<1>7. snaps \in Seq(Snapshot) BY DEF CollectionInv, StoreTypeOK
<1>8. /\ snaps' \in Seq(Snapshot) /\ Len(snaps') = Len(snaps) + 1 /\ Len(snaps) \in Nat
      /\ DOMAIN snaps' = 1..(Len(snaps) + 1) /\ DOMAIN snaps = 1..Len(snaps)
      /\ snaps'[Len(snaps) + 1] = new
      /\ \A i \in DOMAIN snaps : snaps'[i] = snaps[i]
  BY <1>1, <1>6, <1>7
<1>9. new.observed = t /\ new.target = collect[c].target BY DEF new
<1>10. /\ Alone(c) /\ collect'[c].phase \in {"DONE", "FAILING"}
       /\ collect'[c].phase = "FAILING" => collect'[c].observed = t
  BY <1>1, <1>2, EndsFacts, FailsFacts DEF CollectionInv, Waiting
<1>11. \A d \in Collectors \ {c} : collect'[d] = collect[d] BY <1>10 DEF Alone
<1>12. lease' \in LeaseType /\ lease'.owner = c
  BY <1>1, <1>4, UnlockedFacts DEF CollectionInv, Mine
<1>13. \A i \in DOMAIN snaps' : i \in DOMAIN snaps \/ i = Len(snaps) + 1
  BY <1>8
<1> HIDE DEF t
<1>14. Len(snaps) + 1 <= t
  <2>1. CASE Len(snaps) = 0 BY <1>3, <2>1
  <2>2. CASE Len(snaps) # 0
    <3>1. Len(snaps) \in DOMAIN snaps BY <1>8, <2>2
    <3>2. Len(snaps) <= snaps[Len(snaps)].observed
      BY <3>1 DEF CollectionInv, CollectInv, SnapsInv
    <3>3. snaps[Len(snaps)].observed < t BY <1>5, <3>1
    <3>4. snaps[Len(snaps)].observed \in Int
      <4>1. snaps[Len(snaps)] \in Snapshot BY <1>7, <3>1
      <4>q. QED BY <4>1, BoundsHold DEF Snapshot, Bounds
    <3>q. QED BY <1>3, <1>8, <3>2, <3>3, <3>4
  <2>q. QED BY <2>1, <2>2
<1>15. SnapsInv'
  <2>1. \A i \in DOMAIN snaps' : i <= snaps'[i].observed /\ snaps'[i].observed <= clock'
    BY <1>1, <1>4, <1>8, <1>9, <1>13, <1>14 DEF CollectionInv, CollectInv, SnapsInv
  <2>2. InOrder(snaps')
    <3> SUFFICES ASSUME NEW i \in DOMAIN snaps', NEW j \in DOMAIN snaps', i < j
                 PROVE  snaps'[i].observed < snaps'[j].observed
      BY DEF InOrder
    <3>1. i \in DOMAIN snaps BY <1>8
    <3>2. CASE j \in DOMAIN snaps
      BY <1>8, <3>1, <3>2 DEF CollectionInv, CollectInv, SnapsInv, InOrder
    <3>3. CASE j = Len(snaps) + 1 BY <1>5, <1>8, <1>9, <3>1, <3>3
    <3>q. QED BY <1>13, <3>2, <3>3
  <2>q. QED BY <2>1, <2>2 DEF SnapsInv, InOrder
<1>16. RunsTellTheTruth'
  <2>1. \A u \in 1..MaxObservations :
          runs'[u] = IF u = t THEN "SUCCEEDED" ELSE runs[u]
    BY <1>1 DEF CollectionInv, CollectionTypeOK
  <2>2. \A u \in 1..MaxObservations :
          (\E i \in DOMAIN snaps' : snaps'[i].observed = u)
            <=> (u = t \/ \E i \in DOMAIN snaps : snaps[i].observed = u)
    BY <1>8, <1>9, <1>13
  <2>q. QED BY <2>1, <2>2 DEF CollectionInv, CollectInv, RunsTellTheTruth
<1>17. \A d \in Collectors : collect'[d].phase \in Timed =>
         collect[d].phase \in Timed /\ collect'[d].observed = collect[d].observed
  BY <1>2, <1>10, <1>11 DEF Timed, Working, Bound, t
<1>18. TimesInv' BY <1>1, <1>17 DEF CollectionInv, CollectInv, TimesInv
<1>19. \A d \in Collectors : collect'[d].phase \in Writing \cup Bound =>
         d # c /\ collect'[d] = collect[d]
  BY <1>10, <1>11 DEF Writing, Bound
<1>20. Locking \subseteq Writing /\ Writing \subseteq Timed
  BY DEF Locking, Writing, Bound, Timed, Working
<1>21. LockInv' BY <1>4, <1>19, <1>20 DEF CollectionInv, CollectInv, LockInv, Mine
<1>22. WritersInv'
  <2>1. \A d \in Collectors : collect'[d].phase \in Writing => ~Mine(d)' /\ collect[d].observed # t
    BY <1>2, <1>12, <1>19, <1>20 DEF Mine, CollectionInv, CollectInv, TimesInv, t
  <2>q. QED
    BY <1>8, <1>9, <1>13, <1>19, <2>1 DEF CollectionInv, CollectInv, WritersInv
<1>23. TargetsExist' BY <1>1, <1>19 DEF CollectionInv, TargetsExist
<1>24. CollectionTypeOK'
  <2>1. runs' \in [1..MaxObservations -> RunStates]
    BY <1>1 DEF CollectionInv, CollectionTypeOK, RunStates
  <2>q. QED BY <1>1, <1>10, <1>12, <2>1 DEF CollectionInv, CollectionTypeOK, Alone, LeaseType
<1>25. StoreTypeOK'
  <2>1. Len(snaps') <= MaxObservations BY <1>3, <1>8, <1>14, BoundsHold DEF Bounds
  <2>2. \A i \in DOMAIN snaps' : snaps'[i].target <= Len(versions)
    BY <1>4, <1>8, <1>9, <1>13 DEF CollectionInv, StoreTypeOK
  <2>3. \A v \in DOMAIN versions : versions[v].source <= Len(snaps')
    <3>1. \A v \in DOMAIN versions :
            versions[v].source \in Int /\ versions[v].source <= Len(snaps)
      <4>1. \A v \in DOMAIN versions : versions[v] \in Version BY DEF CollectionInv, StoreTypeOK
      <4>q. QED BY <4>1, BoundsHold DEF Version, Bounds, CollectionInv, StoreTypeOK
    <3>q. QED BY <1>8, <3>1
  <2>q. QED BY <1>1, <1>8, <2>1, <2>2, <2>3 DEF CollectionInv, StoreTypeOK
<1>q. QED
  BY <1>8, <1>15, <1>16, <1>18, <1>21, <1>22, <1>23, <1>24, <1>25 DEF CollectionInv, CollectInv

LEMMA CollectionStep ==
  ASSUME CollectionInv, CollectionNext
  PROVE  CollectionInv' /\ Len(snaps') >= Len(snaps) /\ versions' = versions
<1>1. CASE LeaseExpires
  <2>1. snaps' = snaps /\ versions' = versions BY <1>1 DEF LeaseExpires
  <2>2. Len(snaps) \in Nat BY DEF CollectionInv, StoreTypeOK
  <2>q. QED BY <1>1, <2>1, <2>2, ExpiryStep
<1>2. ASSUME NEW c \in Collectors, Collects(c)
      PROVE  CollectionInv' /\ Len(snaps') >= Len(snaps) /\ versions' = versions
  <2>1. Len(snaps) \in Nat BY DEF CollectionInv, StoreTypeOK
  <2>2. CASE CompleteCollection(c)
    <3>1. versions' = versions BY <2>2 DEF CompleteCollection
    <3>q. QED BY <2>1, <2>2, <3>1, CompleteStep
  <2>3. CASE ~CompleteCollection(c)
    <3>1. snaps' = snaps /\ versions' = versions
      BY <1>2, <2>3 DEF Collects, AcquireLease, Observe, Heartbeat, StartCollection,
                        CollectionTargetScope, LockLease, LeaseIsLost, CompareTarget, Throw,
                        FailCollection, ReleaseLease, CutOffCollection
    <3>2. CollectionInv'
      BY <1>2, <2>3, AcquireStep, ObserveStep, PhaseStep, StartStep, ScopeStep, LockingStep,
         EndingStep, Zenon DEF Collects
    <3>q. QED BY <2>1, <3>1, <3>2
  <2>q. QED BY <2>2, <2>3
<1>q. QED BY <1>1, <1>2 DEF CollectionNext

-----------------------------------------------------------------------------
(* Target settings.  What a transaction saw was already in force by at     *)
(* most one version, and it commits only on the rows it saw.               *)

SawRight(seen, newest) ==
  /\ InForce(seen) /\ newest <= Len(snaps) /\ Len(seen) <= MaxVersions
  /\ \A v \in DOMAIN seen : seen[v].source <= Len(snaps)

SettingsInv ==
  /\ SettingsTypeOK
  /\ InForce(versions)
  /\ \A e \in Editors : edit[e].phase # "IDLE" => SawRight(edit[e].seen, edit[e].newest)
  /\ \A e \in Editors : edit[e].phase = "ACTIVATING" => edit[e].version \in DOMAIN edit[e].seen
  /\ \A e \in Editors : edit[e].phase # "IDLE" /\ ~edit[e].overtaken => edit[e].seen = versions

LEMMA EditTypes ==
  ASSUME SettingsTypeOK, NEW e \in Editors
  PROVE  /\ edit[e].phase \in {"IDLE", "DRAFTING", "ACTIVATING"}
         /\ edit[e].phase # "IDLE" =>
              edit[e].newest \in 0..MaxObservations /\ edit[e].seen \in Seq(Version)
         /\ edit[e].phase # "IDLE" => edit[e].overtaken \in BOOLEAN /\ edit[e] # Idling
         /\ edit[e].phase = "DRAFTING" => edit[e].content \in Contents
<1>1. edit[e] \in Edit BY DEF SettingsTypeOK
<1>2. \/ edit[e] \in [phase : {"IDLE"}]
      \/ edit[e] \in [phase : {"DRAFTING"}, content : Contents, newest : 0..MaxObservations,
                      seen : Seq(Version), overtaken : BOOLEAN]
      \/ edit[e] \in [phase : {"ACTIVATING"}, version : 1..MaxVersions,
                      newest : 0..MaxObservations, seen : Seq(Version), overtaken : BOOLEAN]
  BY <1>1 DEF Edit
<1>q. QED BY <1>2 DEF Idling

LEMMA OvertakenType ==
  ASSUME SettingsTypeOK, NEW e \in Editors, edit[e].phase # "IDLE"
  PROVE  LET new == [edit[e] EXCEPT !.overtaken = TRUE]
         IN  /\ new \in Edit /\ new.overtaken /\ new.phase = edit[e].phase
             /\ new.newest = edit[e].newest /\ new.seen = edit[e].seen
             /\ new.phase = "ACTIVATING" => new.version = edit[e].version
<1>1. edit[e] \in Edit BY DEF SettingsTypeOK
<1> DEFINE new == [edit[e] EXCEPT !.overtaken = TRUE]
<1>2. CASE edit[e] \in [phase : {"DRAFTING"}, content : Contents, newest : 0..MaxObservations,
                        seen : Seq(Version), overtaken : BOOLEAN]
  <2>1. /\ new \in [phase : {"DRAFTING"}, content : Contents, newest : 0..MaxObservations,
                    seen : Seq(Version), overtaken : BOOLEAN]
        /\ new.overtaken /\ new.phase = edit[e].phase
        /\ new.newest = edit[e].newest /\ new.seen = edit[e].seen
    BY <1>2
  <2> HIDE DEF new
  <2>2. new.phase = "DRAFTING" BY <2>1
  <2>q. QED BY <2>1, <2>2 DEF Edit, new
<1>3. CASE edit[e] \in [phase : {"ACTIVATING"}, version : 1..MaxVersions,
                        newest : 0..MaxObservations, seen : Seq(Version), overtaken : BOOLEAN]
  <2>1. /\ new \in [phase : {"ACTIVATING"}, version : 1..MaxVersions,
                    newest : 0..MaxObservations, seen : Seq(Version), overtaken : BOOLEAN]
        /\ new.overtaken /\ new.phase = edit[e].phase /\ new.version = edit[e].version
        /\ new.newest = edit[e].newest /\ new.seen = edit[e].seen
    BY <1>3
  <2> HIDE DEF new
  <2>q. QED BY <2>1 DEF Edit, new
<1>q. QED BY <1>1, <1>2, <1>3 DEF Edit

\* Whoever ends leaves the others as they were, or overtakes them.
Closed(e, wrote) ==
  /\ edit' \in [Editors -> Edit] /\ edit'[e].phase = "IDLE"
  /\ \A d \in Editors : edit'[d].phase # "IDLE" =>
       /\ d # e /\ edit'[d].phase = edit[d].phase
       /\ edit'[d].newest = edit[d].newest /\ edit'[d].seen = edit[d].seen
       /\ edit'[d].phase = "ACTIVATING" => edit'[d].version = edit[d].version
       /\ edit'[d].overtaken = (edit[d].overtaken \/ wrote)

LEMMA ClosesFacts ==
  ASSUME SettingsTypeOK, NEW e \in Editors, NEW wrote \in BOOLEAN, Closes(e, wrote)
  PROVE  Closed(e, wrote)
<1>1. /\ DOMAIN edit' = Editors /\ edit'[e] = Idling
      /\ edit' = [d \in Editors |-> edit'[d]]
  BY DEF Closes
<1>2. Idling \in Edit /\ Idling.phase = "IDLE" BY DEF Idling, Edit
<1>3. ASSUME NEW d \in Editors, d # e, edit[d].phase = "IDLE"
      PROVE  edit'[d] = Idling
  <2>1. edit[d] = Idling
    <3>1. edit[d] \in Edit BY DEF SettingsTypeOK
    <3>2. edit[d] \in [phase : {"IDLE"}] BY <1>3, <3>1 DEF Edit
    <3>q. QED BY <3>2 DEF Idling
  <2>q. QED BY <1>3, <2>1 DEF Closes
<1>4. ASSUME NEW d \in Editors, d # e, edit[d].phase # "IDLE"
      PROVE  /\ edit'[d] \in Edit /\ edit'[d].phase = edit[d].phase
             /\ edit'[d].newest = edit[d].newest /\ edit'[d].seen = edit[d].seen
             /\ edit'[d].phase = "ACTIVATING" => edit'[d].version = edit[d].version
             /\ edit'[d].overtaken = (edit[d].overtaken \/ wrote)
  <2>1. edit[d] # Idling /\ edit[d].overtaken \in BOOLEAN /\ edit[d] \in Edit
    BY <1>4, EditTypes DEF SettingsTypeOK
  <2>2. CASE wrote
    <3>1. edit'[d] = [edit[d] EXCEPT !.overtaken = TRUE] BY <1>4, <2>1, <2>2 DEF Closes
    <3> DEFINE new == [edit[d] EXCEPT !.overtaken = TRUE]
    <3>2. /\ new \in Edit /\ new.overtaken /\ new.phase = edit[d].phase
          /\ new.newest = edit[d].newest /\ new.seen = edit[d].seen
          /\ new.phase = "ACTIVATING" => new.version = edit[d].version
      BY <1>4, OvertakenType
    <3>3. new.overtaken = TRUE
      <4>1. new.overtaken \in BOOLEAN
        <5> HIDE DEF new
        <5>1. new.phase # "IDLE" BY <1>4, <3>2
        <5>q. QED BY <3>2, <5>1 DEF Edit
      <4>q. QED BY <3>2, <4>1
    <3> HIDE DEF new
    <3>q. QED BY <2>2, <3>1, <3>2, <3>3 DEF new
  <2>3. CASE ~wrote
    <3>1. edit'[d] = edit[d] BY <1>4, <2>3 DEF Closes
    <3>q. QED BY <2>1, <2>3, <3>1
  <2>q. QED BY <2>2, <2>3
<1>5. edit' \in [Editors -> Edit]
  <2>1. \A d \in Editors : edit'[d] \in Edit BY <1>1, <1>2, <1>3, <1>4
  <2>q. QED BY <1>1, <2>1
<1>6. \A d \in Editors : edit'[d].phase # "IDLE" => d # e /\ edit[d].phase # "IDLE"
  BY <1>1, <1>2, <1>3
<1>q. QED BY <1>1, <1>2, <1>4, <1>5, <1>6 DEF Closed

\* Collections only add snapshots.
LEMMA SettingsUndisturbed ==
  ASSUME CollectionInv, SettingsInv, CollectionNext, edit' = edit PROVE SettingsInv'
<1>1. Len(snaps') >= Len(snaps) /\ versions' = versions /\ CollectionInv' BY CollectionStep
<1>2. Len(snaps) \in Nat /\ Len(snaps') \in Nat
  BY <1>1 DEF CollectionInv, StoreTypeOK
<1>3. ASSUME NEW e \in Editors, edit[e].phase # "IDLE"
      PROVE  SawRight(edit[e].seen, edit[e].newest)'
  <2>1. SawRight(edit[e].seen, edit[e].newest) BY <1>3 DEF SettingsInv
  <2>2. edit[e].newest \in 0..MaxObservations /\ edit[e].seen \in Seq(Version)
    BY <1>3, EditTypes DEF SettingsInv
  <2>3. \A v \in DOMAIN edit[e].seen : edit[e].seen[v].source \in Int
    <3>1. \A v \in DOMAIN edit[e].seen : edit[e].seen[v] \in Version BY <2>2
    <3>q. QED BY <3>1, BoundsHold DEF Version, Bounds
  <2>q. QED BY <1>1, <1>2, <2>1, <2>2, <2>3, BoundsHold DEF SawRight, InForce, Bounds
<1>q. QED BY <1>1, <1>3 DEF SettingsInv, SettingsTypeOK, InForce

\* A transaction sees the newest snapshot and the versions as they are.
LEMMA SeesRight ==
  ASSUME CollectionInv, SettingsInv
  PROVE  /\ Newest(snaps) = Len(snaps) /\ Newest(snaps) \in 0..MaxObservations
         /\ versions \in Seq(Version) /\ SawRight(versions, Newest(snaps))
<1>1. snaps \in Seq(Snapshot) /\ Len(snaps) <= MaxObservations /\ InOrder(snaps)
  BY DEF CollectionInv, StoreTypeOK, CollectInv, SnapsInv
<1>2. Newest(snaps) = Len(snaps) BY <1>1, NewestIsLast
<1>3. Newest(snaps) \in 0..MaxObservations BY <1>1, <1>2, BoundsHold DEF Bounds
<1>4. SawRight(versions, Newest(snaps))
  BY <1>1, <1>2 DEF CollectionInv, StoreTypeOK, SettingsInv, SawRight
<1>q. QED BY <1>2, <1>3, <1>4 DEF CollectionInv, StoreTypeOK

LEMMA BeginEditStep ==
  ASSUME CollectionInv, SettingsInv, NEW e \in Editors, UNCHANGED <<snaps, versions>>,
         NEW new \in Edit, edit' = [edit EXCEPT ![e] = new],
         new.phase # "IDLE" => SawRight(new.seen, new.newest),
         new.phase = "ACTIVATING" => new.version \in DOMAIN new.seen,
         new.phase # "IDLE" => new.seen = versions
  PROVE  SettingsInv'
<1>1. edit' \in [Editors -> Edit] /\ edit'[e] = new
      /\ \A d \in Editors \ {e} : edit'[d] = edit[d]
  BY DEF SettingsInv, SettingsTypeOK
<1>2. \A seen, newest : SawRight(seen, newest) => SawRight(seen, newest)'
  BY DEF SawRight, InForce
<1>3. \A d \in Editors : edit'[d].phase # "IDLE" => SawRight(edit'[d].seen, edit'[d].newest)
  BY <1>1 DEF SettingsInv
<1>4. \A d \in Editors : edit'[d].phase = "ACTIVATING" => edit'[d].version \in DOMAIN edit'[d].seen
  BY <1>1 DEF SettingsInv
<1>5. \A d \in Editors :
        edit'[d].phase # "IDLE" =>
          /\ InForce(edit'[d].seen) /\ edit'[d].newest <= Len(snaps')
          /\ Len(edit'[d].seen) <= MaxVersions
          /\ \A v \in DOMAIN edit'[d].seen : edit'[d].seen[v].source <= Len(snaps')
  BY <1>3 DEF SawRight
<1>6. \A d \in Editors :
        edit'[d].phase # "IDLE" /\ ~edit'[d].overtaken => edit'[d].seen = versions'
  BY <1>1 DEF SettingsInv
<1>q. QED BY <1>1, <1>4, <1>5, <1>6 DEF SettingsInv, SettingsTypeOK, SawRight, InForce

\* What a transaction commits: the rows it makes of the rows it saw.
LEMMA CommitStep ==
  ASSUME CollectionInv, SettingsInv, NEW e \in Editors, edit[e].phase # "IDLE",
         UNCHANGED <<snaps, collectionVars>>,
         NEW rows, NEW source \in Nat, source <= Len(snaps),
         From(edit[e].seen, rows, source), InForce(rows), Len(rows) <= MaxVersions,
         Commits(e, rows)
  PROVE  CollectionInv' /\ SettingsInv'
<1> DEFINE seen == edit[e].seen
<1>1. seen \in Seq(Version) /\ SawRight(seen, edit[e].newest)
  BY EditTypes DEF SettingsInv
<1>2. versions \in Seq(Version) /\ Len(versions) <= MaxVersions /\ Len(snaps) \in Nat
  BY DEF CollectionInv, StoreTypeOK
<1> DEFINE wrote == rows # seen
<1>3. Closes(e, wrote) /\ wrote \in BOOLEAN
      /\ IF wrote THEN versions = seen /\ versions' = rows ELSE versions' = versions
  <2>1. wrote => ~edit[e].overtaken BY DEF Commits
  <2>2. wrote => versions = seen BY <2>1 DEF SettingsInv
  <2>q. QED BY <2>2 DEF Commits
<1> HIDE DEF seen, wrote
<1>4. /\ rows \in Seq(Version) /\ Len(rows) >= Len(seen)
      /\ \A v \in DOMAIN rows : rows[v].source <= Len(snaps)
  <2>1. rows \in Seq(Version) /\ Len(rows) \in Len(seen)..(Len(seen) + 1)
    BY DEF From, seen
  <2>2. \A v \in DOMAIN rows :
          (v \in DOMAIN seen /\ rows[v].source = seen[v].source) \/ rows[v].source = source
    BY DEF From, seen
  <2>3. \A v \in DOMAIN seen : seen[v].source <= Len(snaps)
    BY <1>1 DEF SawRight
  <2>4. \A v \in DOMAIN rows : rows[v].source <= Len(snaps) BY <2>2, <2>3
  <2>q. QED BY <1>1, <2>1, <2>4
<1>5. /\ versions' \in Seq(Version) /\ Len(versions') <= MaxVersions
      /\ Len(versions') >= Len(versions)
      /\ \A v \in DOMAIN versions' : versions'[v].source <= Len(snaps)
      /\ InForce(versions')
  <2>1. CASE versions' = versions
    BY <1>2, <2>1 DEF CollectionInv, StoreTypeOK, SettingsInv
  <2>2. CASE versions = seen /\ versions' = rows BY <1>4, <2>2
  <2>q. QED BY <1>3, <2>1, <2>2
<1>6. StoreTypeOK'
  <2>1. \A i \in DOMAIN snaps : snaps[i].target \in Int /\ snaps[i].target <= Len(versions)
    <3>1. \A i \in DOMAIN snaps : snaps[i] \in Snapshot BY DEF CollectionInv, StoreTypeOK
    <3>q. QED BY <3>1, BoundsHold DEF Snapshot, Bounds, CollectionInv, StoreTypeOK
  <2>2. \A i \in DOMAIN snaps : snaps[i].target <= Len(versions')
    BY <1>2, <1>5, <2>1
  <2>q. QED BY <1>5, <2>2 DEF CollectionInv, StoreTypeOK
<1>7. TargetsExist'
  <2>1. \A c \in Collectors : collect[c].phase \in Bound =>
          collect[c].target \in Int /\ collect[c].target <= Len(versions)
    BY CollectorTypes, BoundsHold DEF CollectionInv, TargetsExist, Bounds
  <2>2. collect' = collect BY DEF collectionVars
  <2>q. QED BY <1>2, <1>5, <2>1, <2>2 DEF TargetsExist
<1>8. CollectionInv'
  <2>1. UNCHANGED <<snaps, clock, lease, runs, collect>> BY DEF collectionVars
  <2>2. CollectionTypeOK' BY <2>1 DEF CollectionInv, CollectionTypeOK
  <2>3. CollectInv'
    BY <2>1 DEF CollectionInv, CollectInv, SnapsInv, InOrder, TimesInv, LockInv, WritersInv, Mine,
                RunsTellTheTruth
  <2>q. QED BY <1>6, <1>7, <2>2, <2>3 DEF CollectionInv
<1>9. SettingsInv'
  <2>1. Closed(e, wrote) BY <1>3, ClosesFacts DEF SettingsInv
  <2>2. \A d \in Editors : edit'[d].phase # "IDLE" =>
          /\ InForce(edit'[d].seen) /\ edit'[d].newest <= Len(snaps')
          /\ Len(edit'[d].seen) <= MaxVersions
          /\ \A v \in DOMAIN edit'[d].seen : edit'[d].seen[v].source <= Len(snaps')
    BY <2>1 DEF Closed, SettingsInv, SawRight
  <2>3. \A d \in Editors :
          edit'[d].phase = "ACTIVATING" => edit'[d].version \in DOMAIN edit'[d].seen
    BY <2>1 DEF Closed, SettingsInv
  <2>4. \A d \in Editors :
          edit'[d].phase # "IDLE" /\ ~edit'[d].overtaken => edit'[d].seen = versions'
    BY <1>3, <2>1 DEF Closed, SettingsInv
  <2>5. edit' \in [Editors -> Edit] BY <2>1 DEF Closed
  <2>q. QED BY <1>5, <2>2, <2>3, <2>4, <2>5 DEF SettingsInv, SettingsTypeOK, SawRight, InForce
<1>q. QED BY <1>8, <1>9

LEMMA NothingWritten ==
  ASSUME CollectionInv, UNCHANGED <<snaps, versions, collectionVars>> PROVE CollectionInv'
<1>1. UNCHANGED <<snaps, versions, clock, lease, runs, collect>> BY DEF collectionVars
<1>2. CollectionTypeOK' /\ StoreTypeOK' /\ TargetsExist'
  BY <1>1 DEF CollectionInv, CollectionTypeOK, StoreTypeOK, TargetsExist
<1>3. CollectInv'
  BY <1>1 DEF CollectionInv, CollectInv, SnapsInv, InOrder, TimesInv, LockInv, WritersInv, Mine,
              RunsTellTheTruth
<1>q. QED BY <1>2, <1>3 DEF CollectionInv

LEMMA SettingsStep ==
  ASSUME CollectionInv, SettingsInv, NEW e \in Editors, Edits(e), UNCHANGED collectionVars
  PROVE  CollectionInv' /\ SettingsInv'
<1>1. /\ Newest(snaps) \in 0..MaxObservations
      /\ versions \in Seq(Version) /\ SawRight(versions, Newest(snaps))
  BY SeesRight
<1>2. CASE \E content \in Contents : BeginDraft(e, content)
  <2>1. PICK content \in Contents : BeginDraft(e, content) BY <1>2
  <2> DEFINE new == [phase |-> "DRAFTING", content |-> content,
                     newest |-> Newest(snaps), seen |-> versions, overtaken |-> FALSE]
  <2>2. UNCHANGED <<snaps, versions>> /\ edit' = [edit EXCEPT ![e] = new]
    BY <2>1 DEF BeginDraft
  <2>3. new \in Edit BY <1>1 DEF Edit
  <2>4. SawRight(new.seen, new.newest) /\ new.phase # "ACTIVATING" /\ new.seen = versions
    BY <1>1
  <2> HIDE DEF new
  <2>q. QED BY <2>2, <2>3, <2>4, BeginEditStep, NothingWritten
<1>3. CASE \E v \in DOMAIN versions : BeginActivation(e, v)
  <2>1. PICK v \in DOMAIN versions : BeginActivation(e, v) BY <1>3
  <2> DEFINE new == [phase |-> "ACTIVATING", version |-> v,
                     newest |-> Newest(snaps), seen |-> versions, overtaken |-> FALSE]
  <2>2. UNCHANGED <<snaps, versions>> /\ edit' = [edit EXCEPT ![e] = new]
    BY <2>1 DEF BeginActivation
  <2>3. v \in 1..MaxVersions BY <1>1, BoundsHold DEF SawRight, Bounds
  <2>4. new \in Edit BY <1>1, <2>3 DEF Edit
  <2>5. SawRight(new.seen, new.newest) /\ new.version \in DOMAIN new.seen /\ new.seen = versions
    BY <1>1
  <2> HIDE DEF new
  <2>q. QED BY <2>2, <2>4, <2>5, BeginEditStep, NothingWritten
<1>4. CASE CommitDraft(e)
  <2> DEFINE seen == edit[e].seen
             newest == edit[e].newest
             rows == Drafted(seen, newest, edit[e].content)
  <2>1. /\ edit[e].phase = "DRAFTING" /\ newest # 0 /\ Len(rows) <= MaxVersions
        /\ Commits(e, rows) /\ snaps' = snaps
    BY <1>4 DEF CommitDraft, MayDraft
  <2>2. /\ newest \in 0..MaxObservations /\ seen \in Seq(Version) /\ edit[e].content \in Contents
        /\ SawRight(seen, newest)
    BY <2>1, EditTypes DEF SettingsInv
  <2>3. newest \in 1..MaxObservations /\ newest \in Nat BY <2>1, <2>2, BoundsHold DEF Bounds
  <2>4. From(seen, rows, newest) /\ InForce(rows) /\ newest <= Len(snaps)
    BY <2>2, <2>3, DraftedFacts DEF SawRight
  <2> HIDE DEF rows
  <2>q. QED BY <2>1, <2>3, <2>4, CommitStep
<1>5. CASE CommitActivation(e)
  <2> DEFINE seen == edit[e].seen
             rows == Activated(seen, edit[e].version)
  <2>1. /\ edit[e].phase = "ACTIVATING"
        /\ Commits(e, rows) /\ snaps' = snaps
    BY <1>5 DEF CommitActivation, ActivationHolds
  <2>2. /\ seen \in Seq(Version) /\ SawRight(seen, edit[e].newest)
        /\ edit[e].version \in DOMAIN seen
    BY <2>1, EditTypes DEF SettingsInv
  <2>3. From(seen, rows, 0) /\ InForce(rows) /\ Len(rows) <= MaxVersions
    BY <2>2, ActivatedFacts DEF SawRight
  <2>4. 0 \in Nat /\ 0 <= Len(snaps) BY DEF CollectionInv, StoreTypeOK
  <2> HIDE DEF rows
  <2>q. QED BY <2>1, <2>3, <2>4, CommitStep
<1>6. CASE EditFails(e)
  <2>1. UNCHANGED <<snaps, versions>> /\ Commits(e, edit[e].seen) /\ edit[e].phase # "IDLE"
    BY <1>6 DEF EditFails, Commits
  <2>2. edit[e].seen \in Seq(Version) /\ SawRight(edit[e].seen, edit[e].newest)
    BY <2>1, EditTypes DEF SettingsInv
  <2>3. From(edit[e].seen, edit[e].seen, 0) BY <2>2 DEF From
  <2>4. 0 \in Nat /\ 0 <= Len(snaps) BY DEF CollectionInv, StoreTypeOK
  <2>q. QED BY <2>1, <2>2, <2>3, <2>4, CommitStep DEF SawRight
<1>q. QED BY <1>2, <1>3, <1>4, <1>5, <1>6 DEF Edits

-----------------------------------------------------------------------------
(* Plans.                                                                  *)

PlanInv == PlanTypeOK /\ PlansMatchRuns

LEMMA PlannerTypes ==
  ASSUME PlanTypeOK, NEW p \in Planners
  PROVE  /\ planner[p].phase # "IDLE" => planner[p].pin \in Pin
         /\ planner[p].phase \in {"COMPUTING", "COMPARING", "COMPUTED", "SEALING"} =>
              planner[p].checked \in BOOLEAN
         /\ planner[p].phase \in {"COMPUTED", "SEALING"} => planner[p].result \in Results
<1>1. planner[p] \in Planner BY DEF PlanTypeOK
<1>2. \/ planner[p] \in [phase : {"IDLE"}]
      \/ planner[p] \in [phase : {"STARTING", "FAILING"}, pin : Pin]
      \/ planner[p] \in [phase : {"COMPUTING"}, pin : Pin, checked : BOOLEAN]
      \/ planner[p] \in [phase : {"COMPARING"}, pin : Pin, checked : BOOLEAN,
                         newest : 0..MaxObservations]
      \/ planner[p] \in [phase : {"COMPUTED"}, pin : Pin, checked : BOOLEAN, result : Results]
      \/ planner[p] \in [phase : {"SEALING"}, pin : Pin, checked : BOOLEAN, result : Results,
                         sees : Current]
  BY <1>1 DEF Planner
<1>q. QED BY <1>2

LEMMA BecomesType ==
  ASSUME PlanTypeOK, NEW p \in Planners, NEW new \in Planner, Becomes(p, new)
  PROVE  planner' \in [Planners -> Planner]
BY DEF PlanTypeOK, Becomes

LEMMA CurrentTypes ==
  ASSUME CollectionInv, SettingsInv
  PROVE  Newest(snaps) \in 0..MaxObservations /\ ActiveIn(versions) \in 0..MaxVersions
<1>1. ActiveIn(versions) \in 0..Len(versions) /\ Len(versions) <= MaxVersions
      /\ Len(versions) \in Nat
  BY ActiveInType DEF CollectionInv, StoreTypeOK
<1>q. QED BY <1>1, SeesRight, BoundsHold DEF Bounds

LEMMA PlanTypeStep ==
  ASSUME CollectionInv, SettingsInv, PlanInv, NEW p \in Planners, PlansIt(p)
  PROVE  planner' \in [Planners -> Planner]
<1>1. PlanTypeOK BY DEF PlanInv
<1> DEFINE pin == planner[p].pin
           checked == planner[p].checked
           result == planner[p].result
<1>2. Newest(snaps) \in 0..MaxObservations /\ ActiveIn(versions) \in 0..MaxVersions
  BY CurrentTypes
<1>3. CASE BeginStart(p)
  <2>1. Newest(snaps) \in Pin BY <1>2, <1>3, BoundsHold DEF BeginStart, Pin, Bounds
  <2>2. [phase |-> "STARTING", pin |-> Newest(snaps)] \in Planner BY <2>1 DEF Planner
  <2>q. QED BY <1>1, <1>3, <2>2, BecomesType DEF BeginStart
<1>4. CASE CommitStart(p)
  <2>1. pin \in Pin BY <1>1, <1>4, PlannerTypes DEF CommitStart
  <2>2. [phase |-> "COMPUTING", pin |-> pin, checked |-> TRUE] \in Planner BY <2>1 DEF Planner
  <2>q. QED BY <1>1, <1>4, <2>2, BecomesType DEF CommitStart, Pinned
<1>5. CASE ReadNewest(p)
  <2>1. pin \in Pin /\ checked \in BOOLEAN BY <1>1, <1>5, PlannerTypes DEF ReadNewest
  <2>2. [phase |-> "COMPARING", pin |-> pin, checked |-> checked, newest |-> Newest(snaps)]
          \in Planner
    BY <1>2, <2>1 DEF Planner
  <2>q. QED BY <1>1, <1>5, <2>2, BecomesType DEF ReadNewest, Pinned
<1>6. CASE ReadActive(p)
  <2>1. pin \in Pin /\ checked \in BOOLEAN BY <1>1, <1>6, PlannerTypes DEF ReadActive
  <2>2. PICK r \in Results :
          Becomes(p, [phase |-> "COMPUTED", pin |-> pin, checked |-> checked, result |-> r])
    BY <1>6 DEF ReadActive, Pinned
  <2>3. [phase |-> "COMPUTED", pin |-> pin, checked |-> checked, result |-> r] \in Planner
    BY <2>1 DEF Planner
  <2>q. QED BY <1>1, <2>2, <2>3, BecomesType
<1>7. CASE BeginSeal(p)
  <2> DEFINE sees == [newest |-> Newest(snaps), active |-> ActiveIn(versions)]
  <2>1. pin \in Pin /\ checked \in BOOLEAN /\ result \in Results
    BY <1>1, <1>7, PlannerTypes DEF BeginSeal
  <2>2. sees \in Current BY <1>2 DEF Current
  <2> HIDE DEF sees
  <2>3. [phase |-> "SEALING", pin |-> pin, checked |-> checked, result |-> result,
         sees |-> sees] \in Planner
    BY <2>1, <2>2 DEF Planner
  <2>4. Becomes(p, [phase |-> "SEALING", pin |-> pin, checked |-> checked, result |-> result,
                    sees |-> sees])
    BY <1>7 DEF BeginSeal, Pinned, sees
  <2>q. QED BY <1>1, <2>3, <2>4, BecomesType
<1>8. CASE ComputeAgain(p)
  <2>1. pin \in Pin BY <1>1, <1>8, PlannerTypes DEF ComputeAgain
  <2>2. [phase |-> "COMPUTING", pin |-> pin, checked |-> FALSE] \in Planner BY <2>1 DEF Planner
  <2>q. QED BY <1>1, <1>8, <2>2, BecomesType DEF ComputeAgain, Pinned
<1>9. ASSUME planner[p].phase # "IDLE",
             Becomes(p, [phase |-> "IDLE"]) \/ Becomes(p, [phase |-> "FAILING", pin |-> pin])
      PROVE  planner' \in [Planners -> Planner]
  <2>1. pin \in Pin BY <1>1, <1>9, PlannerTypes
  <2>2. [phase |-> "IDLE"] \in Planner /\ [phase |-> "FAILING", pin |-> pin] \in Planner
    BY <2>1 DEF Planner
  <2>q. QED BY <1>1, <1>9, <2>2, BecomesType
<1>10. CASE CommitSeal(p) \/ PlanThrows(p) \/ FailRun(p) \/ EndPlanner(p)
  <2>1. planner[p].phase # "IDLE"
    BY <1>10 DEF CommitSeal, PlanThrows, FailRun, EndPlanner
  <2>2. Becomes(p, [phase |-> "IDLE"]) \/ Becomes(p, [phase |-> "FAILING", pin |-> pin])
    BY <1>10 DEF CommitSeal, PlanThrows, FailRun, EndPlanner, Pinned
  <2>q. QED BY <1>9, <2>1, <2>2
<1>q. QED BY <1>3, <1>4, <1>5, <1>6, <1>7, <1>8, <1>10 DEF PlansIt

LEMMA PlanStep ==
  ASSUME CollectionInv, SettingsInv, PlanInv, NEW p \in Planners, PlansIt(p) PROVE PlanInv'
<1>1. planner' \in [Planners -> Planner] BY PlanTypeStep
<1>2. /\ planRun \in [Pin -> PlanRunStates] /\ sealed \subseteq Pin /\ PlanTypeOK
      /\ \A i \in Pin : i \in sealed <=> planRun[i] \in Results
  BY DEF PlanInv, PlanTypeOK, PlansMatchRuns
<1> DEFINE pin == planner[p].pin
<1>3. CASE UNCHANGED <<planRun, sealed>>
  BY <1>1, <1>2, <1>3 DEF PlanInv, PlanTypeOK, PlansMatchRuns
<1>4. CASE CommitStart(p)
  <2>1. /\ pin \in Pin /\ planRun[pin] = "NONE" /\ sealed' = sealed
        /\ planRun' = [planRun EXCEPT ![pin] = "RUNNING"]
    BY <1>2, <1>4, PlannerTypes DEF CommitStart, Pinned
  <2> HIDE DEF pin
  <2>q. QED BY <1>1, <1>2, <2>1 DEF PlanInv, PlanTypeOK, PlansMatchRuns, Results, PlanRunStates
<1>5. CASE CommitSeal(p)
  <2>1. /\ pin \in Pin /\ planner[p].result \in Results /\ sealed' = sealed \cup {pin}
        /\ planRun' = [planRun EXCEPT ![pin] = planner[p].result]
    BY <1>2, <1>5, PlannerTypes DEF CommitSeal, Pinned
  <2> HIDE DEF pin
  <2>q. QED BY <1>1, <1>2, <2>1 DEF PlanInv, PlanTypeOK, PlansMatchRuns, PlanRunStates
<1>6. CASE FailRun(p)
  <2>1. /\ pin \in Pin /\ sealed' = sealed
        /\ planRun' = [planRun EXCEPT ![pin] = IF @ = "RUNNING" THEN "FAILED" ELSE @]
    BY <1>2, <1>6, PlannerTypes DEF FailRun, Pinned
  <2> HIDE DEF pin
  <2>q. QED BY <1>1, <1>2, <2>1 DEF PlanInv, PlanTypeOK, PlansMatchRuns, Results, PlanRunStates
<1>q. QED
  BY <1>3, <1>4, <1>5, <1>6 DEF PlansIt, BeginStart, ReadNewest, ReadActive, BeginSeal,
                                ComputeAgain, PlanThrows, EndPlanner

-----------------------------------------------------------------------------
(* What a plan is pinned to.  A snapshot is younger than the source of its *)
(* target.  The target of a planner's snapshot was in force beside it; if  *)
(* it is retired, every transaction that could bring it back has been      *)
(* overtaken, and a later one sees a snapshot that is not its source.      *)

TargetOlder(i) ==
  snaps[i].target # 0 =>
    /\ snaps[i].target \in DOMAIN versions
    /\ versions[snaps[i].target].source < i

TargetState(i) == versions[snaps[i].target].state

RetiredForGood(i) ==
  /\ TargetState(i) = "RETIRED"
  /\ \A e \in Editors : edit[e].phase # "IDLE" /\ ~edit[e].overtaken => edit[e].newest >= i

WasCurrent(i) ==
  /\ i \in DOMAIN snaps /\ snaps[i].target # 0
  /\ TargetState(i) = "ACTIVE" \/ RetiredForGood(i)

HistoryInv ==
  /\ \A i \in DOMAIN snaps : TargetOlder(i)
  /\ \A p \in Planners : planner[p].phase # "IDLE" => WasCurrent(planner[p].pin)
  /\ \A i \in Pin : planRun[i] # "NONE" => WasCurrent(i)

\* A snapshot or a target that has stopped being current.
Gone(i) == i < Len(snaps) \/ TargetState(i) = "RETIRED"

JobInv(job) ==
  /\ job.phase \in {"COMPUTING", "COMPARING", "COMPUTED", "SEALING"} => job.checked \/ Gone(job.pin)
  /\ job.phase = "COMPARING" =>
       job.checked \/ job.newest # job.pin \/ TargetState(job.pin) = "RETIRED"
  /\ job.phase = "SEALING" =>
       \/ job.sees.newest = job.pin /\ job.sees.active = snaps[job.pin].target
       \/ Gone(job.pin)
  /\ job.phase \in {"COMPUTED", "SEALING"} /\ ~job.checked => job.result = "BLOCKED"

GoneInv == \A p \in Planners : JobInv(planner[p])

\* What any step does to the two tables, to the eyes of a plan.
Later ==
  /\ Len(snaps') >= Len(snaps) /\ \A i \in DOMAIN snaps : i \in DOMAIN snaps' /\ snaps'[i] = snaps[i]
  /\ \A i \in DOMAIN snaps' : TargetOlder(i)'
  /\ \A i \in DOMAIN snaps : WasCurrent(i) =>
       WasCurrent(i)' /\ (TargetState(i) = "RETIRED" => TargetState(i)' = "RETIRED")

LEMMA CollectionLater ==
  ASSUME CollectionInv, HistoryInv, CollectionNext, edit' = edit PROVE Later
<1>1. versions' = versions /\ snaps \in Seq(Snapshot) BY CollectionStep DEF CollectionInv, StoreTypeOK
<1>2. CASE snaps' = snaps
  BY <1>1, <1>2 DEF Later, HistoryInv, TargetOlder, WasCurrent, TargetState, RetiredForGood
<1>3. ASSUME NEW c \in Collectors, CompleteCollection(c) PROVE Later
  <2> DEFINE n == Len(snaps) + 1
             t == collect[c].target
  <2>1. /\ Len(snaps') = n /\ DOMAIN snaps = 1..Len(snaps) /\ DOMAIN snaps' = 1..n
        /\ snaps'[n].target = t /\ \A i \in DOMAIN snaps : snaps'[i] = snaps[i]
    BY <1>1, <1>3 DEF CompleteCollection
  <2>2. t # 0 => t \in DOMAIN versions /\ versions[t].source < n
    <3>1. t \in 0..MaxVersions /\ t <= Len(versions)
      BY <1>3, CollectorTypes DEF CompleteCollection, CollectionInv, TargetsExist, Bound
    <3>2. versions \in Seq(Version) /\ \A v \in DOMAIN versions : versions[v].source <= Len(snaps)
      BY DEF CollectionInv, StoreTypeOK
    <3>3. t # 0 => t \in DOMAIN versions BY <3>1, <3>2, BoundsHold DEF Bounds
    <3>4. \A v \in DOMAIN versions : versions[v].source \in Int
      <4>1. \A v \in DOMAIN versions : versions[v] \in Version BY <3>2
      <4>q. QED BY <4>1, BoundsHold DEF Version, Bounds
    <3>5. Len(snaps) \in Nat BY <1>1
    <3>q. QED BY <3>2, <3>3, <3>4, <3>5
  <2>3. Len(snaps) \in Nat BY <1>1
  <2>4. \A i \in DOMAIN snaps' : i \in DOMAIN snaps \/ i = n BY <2>1, <2>3
  <2> HIDE DEF n, t
  <2>5. \A i \in DOMAIN snaps' : TargetOlder(i)'
    BY <1>1, <2>1, <2>2, <2>4 DEF HistoryInv, TargetOlder
  <2>6. \A i \in DOMAIN snaps : i \in DOMAIN snaps' /\ Len(snaps') >= Len(snaps)
    BY <2>1, <2>3 DEF n
  <2>7. Len(snaps') >= Len(snaps) BY <2>1, <2>3 DEF n
  <2>8. \A i \in DOMAIN snaps :
          WasCurrent(i) => WasCurrent(i)' /\ TargetState(i)' = TargetState(i)
    BY <1>1, <2>1, <2>6 DEF WasCurrent, TargetState, RetiredForGood
  <2>q. QED BY <2>1, <2>5, <2>6, <2>7, <2>8 DEF Later
<1>4. snaps' = snaps \/ \E c \in Collectors : CompleteCollection(c)
  BY DEF CollectionNext, LeaseExpires, Collects, AcquireLease, Observe, Heartbeat,
         StartCollection, CollectionTargetScope, LockLease, LeaseIsLost, CompareTarget, Throw,
         FailCollection, ReleaseLease, CutOffCollection
<1>q. QED BY <1>2, <1>3, <1>4

\* A transaction that begins sees a snapshot no older than any that is pinned.
LEMMA BeginLater ==
  ASSUME CollectionInv, SettingsInv, HistoryInv, NEW e \in Editors, UNCHANGED <<snaps, versions>>,
         NEW new, edit' = [edit EXCEPT ![e] = new], new.newest = Newest(snaps)
  PROVE  Later
<1>1. /\ DOMAIN edit = Editors /\ Newest(snaps) = Len(snaps)
      /\ snaps \in Seq(Snapshot) /\ Len(snaps) \in Nat
  BY SeesRight DEF SettingsInv, SettingsTypeOK, CollectionInv, StoreTypeOK
<1>2. \A i \in DOMAIN snaps : new.newest >= i BY <1>1
<1>3. \A i \in DOMAIN snaps : RetiredForGood(i) => RetiredForGood(i)'
  BY <1>1, <1>2 DEF RetiredForGood, TargetState
<1>4. \A i \in DOMAIN snaps :
        WasCurrent(i) => WasCurrent(i)' /\ TargetState(i)' = TargetState(i)
  BY <1>3 DEF WasCurrent, TargetState
<1>5. \A i \in DOMAIN snaps' : TargetOlder(i)' BY DEF HistoryInv, TargetOlder
<1>q. QED BY <1>1, <1>4, <1>5 DEF Later

LEMMA CommitLater ==
  ASSUME CollectionInv, SettingsInv, HistoryInv, NEW e \in Editors, edit[e].phase # "IDLE",
         snaps' = snaps, NEW rows, Spares(edit[e].seen, rows, edit[e].newest),
         Commits(e, rows)
  PROVE  Later
<1> DEFINE seen == edit[e].seen
           wrote == rows # seen
<1>1. Closes(e, wrote) /\ wrote \in BOOLEAN /\ (wrote => ~edit[e].overtaken)
      /\ versions' = (IF wrote THEN rows ELSE versions)
  BY DEF Commits
<1>2. Closed(e, wrote) BY <1>1, ClosesFacts DEF SettingsInv
<1>3. wrote => versions = seen BY <1>1 DEF SettingsInv
<1> HIDE DEF seen, wrote
<1>4. Len(snaps) \in Nat /\ DOMAIN snaps = 1..Len(snaps) /\ edit[e].newest \in Nat
  <2>1. edit[e].newest \in 0..MaxObservations BY EditTypes DEF SettingsInv
  <2>q. QED BY <2>1, BoundsHold DEF CollectionInv, StoreTypeOK, Bounds
<1>5. CASE ~wrote
  <2>1. versions' = versions BY <1>1, <1>5
  <2>2. \A i \in DOMAIN snaps : RetiredForGood(i) => RetiredForGood(i)'
    BY <1>2, <1>5, <2>1 DEF Closed, RetiredForGood, TargetState
  <2>3. \A i \in DOMAIN snaps :
          WasCurrent(i) => WasCurrent(i)' /\ TargetState(i)' = TargetState(i)
    BY <2>1, <2>2 DEF WasCurrent, TargetState
  <2>4. \A i \in DOMAIN snaps' : TargetOlder(i)' BY <2>1 DEF HistoryInv, TargetOlder
  <2>q. QED BY <1>4, <2>3, <2>4 DEF Later
<1>6. CASE wrote
  <2>1. Spares(versions, versions', edit[e].newest) BY <1>1, <1>3, <1>6 DEF seen
  <2>2. \A d \in Editors : ~(edit'[d].phase # "IDLE" /\ ~edit'[d].overtaken)
    BY <1>2, <1>6 DEF Closed
  <2>3. \A i \in DOMAIN snaps' : TargetOlder(i)'
    BY <2>1 DEF HistoryInv, TargetOlder, Spares
  <2>4. ASSUME NEW i \in DOMAIN snaps, WasCurrent(i)
        PROVE  WasCurrent(i)' /\ (TargetState(i) = "RETIRED" => TargetState(i)' = "RETIRED")
    <3> DEFINE t == snaps[i].target
    <3>1. t \in DOMAIN versions /\ versions[t].source < i /\ t # 0
      BY <2>4 DEF HistoryInv, TargetOlder, WasCurrent
    <3>2. TargetState(i) = "ACTIVE" => TargetState(i)' \in {"ACTIVE", "RETIRED"}
      BY <2>1, <3>1 DEF Spares, TargetState
    <3>3. TargetState(i) = "RETIRED" => TargetState(i)' = "RETIRED"
      <4> SUFFICES ASSUME TargetState(i) = "RETIRED" PROVE TargetState(i)' = "RETIRED"
        OBVIOUS
      <4>1. edit[e].newest >= i
        BY <1>1, <1>6, <2>4 DEF WasCurrent, RetiredForGood
      <4>2. versions[t].source # edit[e].newest
        <5>1. versions[t].source \in Int
          <6>1. versions[t] \in Version BY <3>1 DEF CollectionInv, StoreTypeOK
          <6>q. QED BY <6>1, BoundsHold DEF Version, Bounds
        <5>q. QED BY <1>4, <3>1, <4>1, <5>1
      <4>q. QED BY <2>1, <3>1, <4>2 DEF Spares, TargetState
    <3>4. TargetState(i)' = "RETIRED" => RetiredForGood(i)' BY <2>2 DEF RetiredForGood
    <3>q. QED BY <2>4, <3>2, <3>3, <3>4 DEF WasCurrent, RetiredForGood
  <2>q. QED BY <1>4, <2>3, <2>4 DEF Later
<1>q. QED BY <1>1, <1>5, <1>6

LEMMA SettingsLater ==
  ASSUME CollectionInv, SettingsInv, HistoryInv, NEW e \in Editors, Edits(e) PROVE Later
<1>1. CASE \E content \in Contents : BeginDraft(e, content)
  BY <1>1, BeginLater DEF BeginDraft
<1>2. CASE \E v \in DOMAIN versions : BeginActivation(e, v)
  BY <1>2, BeginLater DEF BeginActivation
<1>3. CASE CommitDraft(e)
  <2> DEFINE rows == Drafted(edit[e].seen, edit[e].newest, edit[e].content)
  <2>1. edit[e].phase = "DRAFTING" /\ edit[e].newest # 0 /\ Commits(e, rows) /\ snaps' = snaps
    BY <1>3 DEF CommitDraft, MayDraft
  <2>2. /\ edit[e].newest \in 1..MaxObservations /\ edit[e].seen \in Seq(Version)
        /\ edit[e].content \in Contents /\ InForce(edit[e].seen)
    <3>1. edit[e].newest \in 0..MaxObservations BY <2>1, EditTypes DEF SettingsInv
    <3>2. edit[e].newest \in 1..MaxObservations BY <2>1, <3>1, BoundsHold DEF Bounds
    <3>q. QED BY <2>1, <3>2, EditTypes DEF SettingsInv, SawRight
  <2>3. Spares(edit[e].seen, rows, edit[e].newest) BY <2>2, DraftedFacts
  <2> HIDE DEF rows
  <2>q. QED BY <2>1, <2>3, CommitLater
<1>4. CASE CommitActivation(e)
  <2> DEFINE rows == Activated(edit[e].seen, edit[e].version)
  <2>1. /\ edit[e].phase = "ACTIVATING" /\ Commits(e, rows) /\ snaps' = snaps
        /\ edit[e].seen[edit[e].version].source = edit[e].newest
    BY <1>4 DEF CommitActivation, ActivationHolds
  <2>2. /\ edit[e].seen \in Seq(Version) /\ InForce(edit[e].seen)
        /\ edit[e].version \in DOMAIN edit[e].seen
    BY <2>1, EditTypes DEF SettingsInv, SawRight
  <2>3. Spares(edit[e].seen, rows, edit[e].newest) BY <2>1, <2>2, ActivatedFacts
  <2> HIDE DEF rows
  <2>q. QED BY <2>1, <2>3, CommitLater
<1>5. CASE EditFails(e)
  <2>1. edit[e].phase # "IDLE" /\ snaps' = snaps /\ Commits(e, edit[e].seen)
    BY <1>5 DEF EditFails, Commits
  <2>2. Spares(edit[e].seen, edit[e].seen, edit[e].newest) BY DEF Spares
  <2>q. QED BY <2>1, <2>2, CommitLater
<1>q. QED BY <1>1, <1>2, <1>3, <1>4, <1>5 DEF Edits

\* Whatever the tables become, a planner that waits knows what it knew.
LEMMA PlannersWait ==
  ASSUME HistoryInv, GoneInv, PlanTypeOK, CollectionInv, Later,
         UNCHANGED <<planner, planRun>>
  PROVE  HistoryInv' /\ GoneInv'
<1>1. HistoryInv' BY DEF HistoryInv, Later, WasCurrent
<1>2. ASSUME NEW p \in Planners PROVE JobInv(planner[p])'
  <2> DEFINE i == planner[p].pin
  <2>1. CASE planner[p].phase = "IDLE" BY <2>1 DEF JobInv
  <2>2. CASE planner[p].phase # "IDLE"
    <3>1. i \in DOMAIN snaps /\ WasCurrent(i) BY <2>2 DEF HistoryInv, WasCurrent
    <3>2. snaps'[i] = snaps[i] /\ (TargetState(i) = "RETIRED" => TargetState(i)' = "RETIRED")
      BY <3>1 DEF Later
    <3>3. Gone(i) => Gone(i)'
      <4>1. i \in Nat /\ Len(snaps) \in Nat /\ Len(snaps') >= Len(snaps) /\ Len(snaps') \in Int
        BY <3>1 DEF Later, CollectionInv, StoreTypeOK
      <4>q. QED BY <3>2, <4>1 DEF Gone
    <3>4. JobInv(planner[p]) BY DEF GoneInv
    <3> HIDE DEF i
    <3>q. QED BY <3>2, <3>3, <3>4, Zenon DEF JobInv, i
  <2>q. QED BY <2>1, <2>2
<1>q. QED BY <1>1, <1>2 DEF GoneInv

LEMMA PlannerBecomes ==
  ASSUME PlanTypeOK, HistoryInv, GoneInv, UNCHANGED <<snaps, versions, edit>>,
         NEW p \in Planners, NEW new, Becomes(p, new),
         new.phase # "IDLE" => WasCurrent(new.pin), JobInv(new),
         \A i \in Pin : planRun'[i] # "NONE" => planRun[i] # "NONE" \/ WasCurrent(i)
  PROVE  HistoryInv' /\ GoneInv'
<1>1. planner'[p] = new /\ \A q \in Planners \ {p} : planner'[q] = planner[q]
  BY DEF PlanTypeOK, Becomes
<1>2. \A i : WasCurrent(i) => WasCurrent(i)' BY DEF WasCurrent, TargetState, RetiredForGood
<1>3. \A i : TargetState(i)' = TargetState(i) /\ Gone(i)' = Gone(i)
  BY DEF TargetState, Gone
<1>4. HistoryInv' BY <1>1, <1>2 DEF HistoryInv, TargetOlder
<1>5. \A q \in Planners : JobInv(planner'[q]) BY <1>1 DEF GoneInv
<1>6. GoneInv' BY <1>3, <1>5 DEF GoneInv, JobInv
<1>q. QED BY <1>4, <1>6

\* The version in force is the one whose row says so.
LEMMA InForceIsActive ==
  ASSUME NEW rows, InForce(rows)
  PROVE  /\ \A v \in DOMAIN rows : rows[v].state = "ACTIVE" => ActiveIn(rows) = v
         /\ ActiveIn(rows) # 0 =>
              ActiveIn(rows) \in DOMAIN rows /\ rows[ActiveIn(rows)].state = "ACTIVE"
<1>1. CASE \E v \in DOMAIN rows : rows[v].state = "ACTIVE"
  <2>1. ActiveIn(rows) \in DOMAIN rows /\ rows[ActiveIn(rows)].state = "ACTIVE"
    BY <1>1, Zenon DEF ActiveIn
  <2>2. \A v \in DOMAIN rows : rows[v].state = "ACTIVE" => ActiveIn(rows) = v
    BY <2>1 DEF InForce
  <2>q. QED BY <2>1, <2>2
<1>2. CASE ~\E v \in DOMAIN rows : rows[v].state = "ACTIVE"
  <2>1. ActiveIn(rows) = 0 BY <1>2, Zenon DEF ActiveIn
  <2>q. QED BY <1>2, <2>1
<1>q. QED BY <1>1, <1>2

LEMMA PlanningStep ==
  ASSUME CollectionInv, SettingsInv, PlanInv, HistoryInv, GoneInv,
         NEW p \in Planners, PlansIt(p), UNCHANGED <<snaps, versions, edit>>
  PROVE  HistoryInv' /\ GoneInv'
<1> DEFINE job == planner[p]
           i == job.pin
<1>0. PlanTypeOK /\ JobInv(job) BY DEF PlanInv, GoneInv
<1>1. job.phase # "IDLE" => WasCurrent(i) BY DEF HistoryInv
<1>2. /\ Newest(snaps) = Len(snaps) /\ Len(snaps) \in Nat /\ DOMAIN snaps = 1..Len(snaps)
      /\ InForce(versions)
  BY SeesRight DEF CollectionInv, StoreTypeOK, SettingsInv
<1>3. \A new :
        /\ new.phase = "IDLE" => JobInv(new)
        /\ new.phase \in {"STARTING", "FAILING"} => JobInv(new)
  BY DEF JobInv
<1>4. /\ job.phase # "IDLE" /\ Newest(snaps) # i => Gone(i)
      /\ job.phase # "IDLE" /\ ActiveIn(versions) # snaps[i].target => TargetState(i) = "RETIRED"
      /\ ActiveIn(versions) = snaps[i].target /\ snaps[i].target # 0 => TargetState(i) = "ACTIVE"
  <2>1. job.phase # "IDLE" /\ Newest(snaps) # i => Gone(i)
    BY <1>1, <1>2 DEF WasCurrent, Gone
  <2>2. ASSUME job.phase # "IDLE", TargetState(i) = "ACTIVE"
        PROVE  ActiveIn(versions) = snaps[i].target
    <3>1. snaps[i].target \in DOMAIN versions
      BY <1>1, <2>2 DEF WasCurrent, HistoryInv, TargetOlder
    <3>q. QED BY <1>2, <2>2, <3>1, InForceIsActive DEF TargetState
  <2>3. job.phase # "IDLE" /\ ActiveIn(versions) # snaps[i].target => TargetState(i) = "RETIRED"
    BY <1>1, <2>2 DEF WasCurrent, RetiredForGood
  <2>4. ActiveIn(versions) = snaps[i].target /\ snaps[i].target # 0 => TargetState(i) = "ACTIVE"
    BY <1>2, InForceIsActive DEF TargetState
  <2>q. QED BY <2>1, <2>3, <2>4
<1>r. \A k \in Pin : planRun'[k] # "NONE" => planRun[k] # "NONE" \/ WasCurrent(k)
  <2>1. CASE job.phase # "IDLE" /\ \A k \in Pin \ {i} : planRun'[k] = planRun[k]
    BY <1>1, <2>1
  <2>2. CASE planRun' = planRun BY <2>2
  <2>q. QED
    BY <1>0, <2>1, <2>2
    DEF PlansIt, BeginStart, CommitStart, ReadNewest, ReadActive, BeginSeal, CommitSeal,
        ComputeAgain, PlanThrows, FailRun, EndPlanner, Pinned, PlanTypeOK
<1> HIDE DEF i
<1>5. CASE BeginStart(p)
  <2> DEFINE n == Newest(snaps)
  <2>1. /\ n # 0 /\ ActiveIn(versions) = snaps[n].target /\ snaps[n].target # 0
        /\ Becomes(p, [phase |-> "STARTING", pin |-> n])
    BY <1>5 DEF BeginStart, IsCurrent
  <2>2. n \in DOMAIN snaps BY <1>2, <2>1
  <2>3. WasCurrent(n)
    BY <1>2, <2>1, <2>2, InForceIsActive DEF WasCurrent, TargetState
  <2>4. JobInv([phase |-> "STARTING", pin |-> n]) BY DEF JobInv
  <2> HIDE DEF n
  <2>q. QED BY <1>0, <2>1, <2>3, <2>4, <1>r, PlannerBecomes
<1>6. CASE CommitStart(p)
  <2> DEFINE new == [phase |-> "COMPUTING", pin |-> i, checked |-> TRUE]
  <2>1. job.phase # "IDLE" /\ Becomes(p, new) BY <1>6 DEF CommitStart, Pinned, i
  <2>2. WasCurrent(new.pin) /\ JobInv(new) BY <1>1, <2>1 DEF JobInv
  <2> HIDE DEF new
  <2>q. QED BY <1>0, <2>1, <2>2, <1>r, PlannerBecomes
<1>7. CASE ReadNewest(p)
  <2> DEFINE new == [phase |-> "COMPARING", pin |-> i, checked |-> job.checked,
                     newest |-> Newest(snaps)]
  <2>1. job.phase = "COMPUTING" /\ Becomes(p, new) BY <1>7 DEF ReadNewest, Pinned, i
  <2>2. job.checked \/ Gone(i) BY <1>0, <2>1 DEF JobInv, i
  <2>3. Gone(i) => Newest(snaps) # i \/ TargetState(i) = "RETIRED"
    BY <1>1, <1>2, <2>1 DEF Gone, WasCurrent
  <2>4. JobInv(new) BY <2>2, <2>3 DEF JobInv
  <2>5. WasCurrent(new.pin) BY <1>1, <2>1
  <2> HIDE DEF new
  <2>q. QED BY <1>0, <2>1, <2>4, <2>5, <1>r, PlannerBecomes
<1>8. CASE ReadActive(p)
  <2>1. PICK result \in Results :
          /\ \/ result = "BLOCKED"
             \/ result = "NO_ACTION" /\ job.checked
             \/ IsCurrent(i, job.newest, ActiveIn(versions))
          /\ Becomes(p, [phase |-> "COMPUTED", pin |-> i, checked |-> job.checked,
                         result |-> result])
    BY <1>8 DEF ReadActive, Pinned, i
  <2> DEFINE new == [phase |-> "COMPUTED", pin |-> i, checked |-> job.checked, result |-> result]
  <2>2. job.phase = "COMPARING" BY <1>8 DEF ReadActive
  <2>3. job.checked \/ (Gone(i) /\ (job.newest # i \/ TargetState(i) = "RETIRED"))
    BY <1>0, <2>2 DEF JobInv, i
  <2>4. ~job.checked => result = "BLOCKED"
    BY <1>4, <2>1, <2>3 DEF IsCurrent
  <2>5. JobInv(new) BY <2>3, <2>4 DEF JobInv
  <2>6. WasCurrent(new.pin) BY <1>1, <2>2
  <2>7. Becomes(p, new) BY <2>1
  <2> HIDE DEF new
  <2>q. QED BY <1>0, <2>5, <2>6, <2>7, <1>r, PlannerBecomes
<1>9. CASE BeginSeal(p)
  <2> DEFINE sees == [newest |-> Newest(snaps), active |-> ActiveIn(versions)]
             new == [phase |-> "SEALING", pin |-> i, checked |-> job.checked,
                     result |-> job.result, sees |-> sees]
  <2>1. job.phase = "COMPUTED" /\ Becomes(p, new) BY <1>9 DEF BeginSeal, Pinned, i
  <2>2. (job.checked \/ Gone(i)) /\ (~job.checked => job.result = "BLOCKED")
    BY <1>0, <2>1 DEF JobInv, i
  <2>3. sees.newest # i \/ sees.active # snaps[i].target => Gone(i)
    BY <1>4, <2>1 DEF Gone
  <2> HIDE DEF sees
  <2>4. JobInv(new) BY <2>2, <2>3 DEF JobInv
  <2>5. WasCurrent(new.pin) BY <1>1, <2>1
  <2> HIDE DEF new
  <2>q. QED BY <1>0, <2>1, <2>4, <2>5, <1>r, PlannerBecomes
<1>10. CASE ComputeAgain(p)
  <2> DEFINE new == [phase |-> "COMPUTING", pin |-> i, checked |-> FALSE]
  <2>1. job.phase = "SEALING" /\ Becomes(p, new)
        /\ ~IsCurrent(i, job.sees.newest, job.sees.active)
    BY <1>10 DEF ComputeAgain, StillCurrent, Pinned, i
  <2>2. WasCurrent(i) BY <1>1, <2>1
  <2>3. Gone(i)
    BY <1>0, <2>1, <2>2 DEF JobInv, IsCurrent, WasCurrent, i
  <2>4. JobInv(new) /\ WasCurrent(new.pin) BY <2>2, <2>3 DEF JobInv
  <2> HIDE DEF new
  <2>q. QED BY <1>0, <2>1, <2>4, <1>r, PlannerBecomes
<1>11. CASE CommitSeal(p) \/ PlanThrows(p) \/ FailRun(p) \/ EndPlanner(p)
  <2>1. job.phase # "IDLE"
    BY <1>11 DEF CommitSeal, PlanThrows, FailRun, EndPlanner
  <2>2. Becomes(p, [phase |-> "IDLE"]) \/ Becomes(p, [phase |-> "FAILING", pin |-> i])
    BY <1>11 DEF CommitSeal, PlanThrows, FailRun, EndPlanner, Pinned, i
  <2>3. JobInv([phase |-> "IDLE"]) /\ JobInv([phase |-> "FAILING", pin |-> i]) BY DEF JobInv
  <2>4. WasCurrent(i) BY <1>1, <2>1
  <2>q. QED BY <1>0, <2>2, <2>3, <2>4, <1>r, PlannerBecomes
<1>q. QED BY <1>5, <1>6, <1>7, <1>8, <1>9, <1>10, <1>11 DEF PlansIt

-----------------------------------------------------------------------------
(* All together.                                                           *)

Inv == CollectionInv /\ SettingsInv /\ PlanInv /\ HistoryInv /\ GoneInv

LEMMA InvInit == Init => Inv
<1> SUFFICES ASSUME Init PROVE Inv OBVIOUS
<1>1. CollectionInv
  BY BoundsHold DEF Init, StoreInit, CollectionInit, CollectionInv, StoreTypeOK, CollectionTypeOK,
     Collecting, Waiting, Working, Bound, CollectInv, SnapsInv, InOrder, TimesInv, LockInv,
     WritersInv, Timed, Writing, Locking, TargetsExist, RunsTellTheTruth, RunStates, Bounds
<1>2. SettingsInv
  BY DEF Init, StoreInit, SettingsInit, SettingsInv, SettingsTypeOK, Edit, InForce
<1>3. PlanInv
  BY DEF Init, PlanInit, PlanInv, PlanTypeOK, PlansMatchRuns, Planner, PlanRunStates, Results
<1>4. HistoryInv /\ GoneInv
  BY DEF Init, StoreInit, PlanInit, HistoryInv, GoneInv, JobInv
<1>q. QED BY <1>1, <1>2, <1>3, <1>4 DEF Inv

LEMMA InvStep == Inv /\ [Next]_vars => Inv'
<1> SUFFICES ASSUME Inv, [Next]_vars PROVE Inv' OBVIOUS
<1>1. CASE CollectionNext /\ UNCHANGED <<edit, planVars>>
  <2>1. CollectionInv' /\ SettingsInv' BY <1>1, CollectionStep, SettingsUndisturbed DEF Inv
  <2>2. PlanInv' BY <1>1 DEF Inv, PlanInv, PlanTypeOK, PlansMatchRuns, planVars
  <2>3. HistoryInv' /\ GoneInv'
    BY <1>1, CollectionLater, PlannersWait DEF Inv, PlanInv, planVars
  <2>q. QED BY <2>1, <2>2, <2>3 DEF Inv
<1>2. ASSUME NEW e \in Editors, Edits(e), UNCHANGED <<collectionVars, planVars>> PROVE Inv'
  <2>1. CollectionInv' /\ SettingsInv' BY <1>2, SettingsStep DEF Inv
  <2>2. PlanInv' BY <1>2 DEF Inv, PlanInv, PlanTypeOK, PlansMatchRuns, planVars
  <2>3. HistoryInv' /\ GoneInv'
    BY <1>2, SettingsLater, PlannersWait DEF Inv, PlanInv, planVars
  <2>q. QED BY <2>1, <2>2, <2>3 DEF Inv
<1>3. ASSUME NEW p \in Planners, PlansIt(p), UNCHANGED <<collectionVars, edit>> PROVE Inv'
  <2>1. UNCHANGED <<snaps, versions>>
    BY <1>3 DEF PlansIt, BeginStart, CommitStart, ReadNewest, ReadActive, BeginSeal, CommitSeal,
                ComputeAgain, PlanThrows, FailRun, EndPlanner
  <2>2. CollectionInv' BY <1>3, <2>1, NothingWritten DEF Inv
  <2>3. SettingsInv'
    BY <1>3, <2>1 DEF Inv, SettingsInv, SettingsTypeOK, SawRight, InForce
  <2>4. PlanInv' BY <1>3, PlanStep DEF Inv
  <2>5. HistoryInv' /\ GoneInv' BY <1>3, <2>1, PlanningStep DEF Inv
  <2>q. QED BY <2>2, <2>3, <2>4, <2>5 DEF Inv
<1>4. CASE UNCHANGED vars
  <2>1. UNCHANGED <<snaps, versions, collectionVars, edit, planVars>> BY <1>4 DEF vars
  <2>2. CollectionInv' BY <2>1, NothingWritten DEF Inv
  <2>3. SettingsInv' BY <2>1 DEF Inv, SettingsInv, SettingsTypeOK, SawRight, InForce
  <2>4. PlanInv' BY <2>1 DEF Inv, PlanInv, PlanTypeOK, PlansMatchRuns, planVars
  <2>5. HistoryInv'
    BY <2>1 DEF Inv, HistoryInv, TargetOlder, WasCurrent, TargetState, RetiredForGood, planVars
  <2>6. GoneInv' BY <2>1 DEF Inv, GoneInv, JobInv, Gone, TargetState, planVars
  <2>q. QED BY <2>2, <2>3, <2>4, <2>5, <2>6 DEF Inv
<1>q. QED BY <1>1, <1>2, <1>3, <1>4 DEF Next, Steps

LEMMA EveryStepLater == ASSUME Inv, [Next]_vars PROVE Later
<1>1. CASE CollectionNext /\ edit' = edit BY <1>1, CollectionLater DEF Inv
<1>2. ASSUME NEW e \in Editors, Edits(e) PROVE Later BY <1>2, SettingsLater DEF Inv
<1>3. CASE UNCHANGED <<snaps, versions, edit>>
  BY <1>3 DEF Later, Inv, CollectionInv, StoreTypeOK, HistoryInv, TargetOlder, WasCurrent,
              TargetState, RetiredForGood
<1>4. ASSUME NEW p \in Planners, PlansIt(p) PROVE UNCHANGED <<snaps, versions>>
  BY <1>4 DEF PlansIt, BeginStart, CommitStart, ReadNewest, ReadActive, BeginSeal, CommitSeal,
              ComputeAgain, PlanThrows, FailRun, EndPlanner
<1>q. QED BY <1>1, <1>2, <1>3, <1>4 DEF Next, Steps, vars

LEMMA Invariant == Spec => []Inv
BY InvInit, InvStep, PTL DEF Spec

(* Every field of the two tables and of the requests has its type; in      *)
(* particular a snapshot never names a target that does not exist, nor a   *)
(* version a snapshot that does not.                                       *)
THEOREM PortfolioTypeCorrect == Spec => []TypeOK
<1>1. Inv => TypeOK BY DEF Inv, CollectionInv, SettingsInv, PlanInv, TypeOK
<1>q. QED BY <1>1, Invariant, PTL

(* Snapshots are written in the order of their observations, for any       *)
(* number of collectors that stall, lose the lease and come back           *)
(* (completeCollection).                                                   *)
THEOREM SnapshotOrder == Spec => []SnapshotsInOrder
<1>1. Inv => SnapshotsInOrder
  BY DEF Inv, CollectionInv, CollectInv, SnapsInv, InOrder, SnapshotsInOrder
<1>q. QED BY <1>1, Invariant, PTL

(* One version in force and one draft, for any number of settings pages    *)
(* (activateTargetDraft, createTargetDraft).                               *)
THEOREM InForceOnce == Spec => []OneVersionInForce
<1>1. Inv => OneVersionInForce BY DEF Inv, SettingsInv, InForce, OneVersionInForce
<1>q. QED BY <1>1, Invariant, PTL

(* A collection run is SUCCEEDED exactly when its snapshot exists, and a    *)
(* plan run has the plan's status exactly when the plan exists, for any     *)
(* number of requests that lose the answer of a commit and record a failure *)
(* (guard_collection_run_terminal_timeline, guard_rebalance_run).           *)
THEOREM RunsAlwaysMatch == Spec => []RunsMatchResults
<1>1. Inv => RunsMatchResults
  BY DEF Inv, CollectionInv, CollectInv, PlanInv, RunsMatchResults
<1>q. QED BY <1>1, Invariant, PTL

(* The second seal needs no check of the current snapshot and target, for  *)
(* any number of collectors, settings pages and planners: a snapshot or a  *)
(* target that has stopped being current never becomes current again       *)
(* (createAndStoreRebalancePlan's second sealResult).                      *)
THEOREM SecondSealIsBlocked == Spec => []UncheckedPlansAreBlocked
<1>1. Inv => UncheckedPlansAreBlocked BY DEF Inv, GoneInv, JobInv, UncheckedPlansAreBlocked
<1>q. QED BY <1>1, Invariant, PTL

(* What a plan was once started for and has stopped being current stays so, *)
(* for any number of collectors, settings pages and planners                *)
(* (activateTargetDraft, completeCollection).                               *)
THEOREM OnceStaleAlwaysStale == Spec => StaleForGood
<1>1. ASSUME Inv, Inv', [Next]_vars, NEW i \in DOMAIN snaps, planRun[i] # "NONE",
             ~CurrentNow(i)
      PROVE  ~CurrentNow(i)'
  <2>1. i \in Pin /\ i \in Nat /\ DOMAIN snaps = 1..Len(snaps) /\ Len(snaps) \in Nat
        /\ Newest(snaps) = Len(snaps) /\ InForce(versions)
    BY <1>1, SeesRight, BoundsHold
    DEF Inv, CollectionInv, SettingsInv, StoreTypeOK, Bounds, Pin
  <2>2. Newest(snaps') = Len(snaps') /\ Len(snaps') \in Nat /\ InForce(versions')
    <3>1. snaps' \in Seq(Snapshot) /\ InOrder(snaps') /\ InForce(versions')
      BY <1>1 DEF Inv, CollectionInv, SettingsInv, StoreTypeOK, CollectInv, SnapsInv
    <3>q. QED BY <3>1, NewestIsLast
  <2>3. WasCurrent(i) BY <1>1, <2>1 DEF Inv, HistoryInv
  <2>4. Later BY <1>1, EveryStepLater
  <2>5. snaps'[i] = snaps[i] /\ Len(snaps) <= Len(snaps') BY <2>4 DEF Later
  <2>6. CASE Newest(snaps) # i
    <3>1. Newest(snaps') # i BY <2>1, <2>2, <2>5, <2>6
    <3>q. QED BY <3>1 DEF CurrentNow, IsCurrent
  <2>7. CASE ActiveIn(versions) # snaps[i].target
    <3>1. snaps[i].target \in DOMAIN versions /\ snaps[i].target # 0
      BY <1>1, <2>3 DEF Inv, HistoryInv, TargetOlder, WasCurrent
    <3>2. TargetState(i) # "ACTIVE"
      BY <2>1, <2>7, <3>1, InForceIsActive DEF TargetState
    <3>3. TargetState(i)' = "RETIRED"
      BY <2>3, <2>4, <3>2 DEF Later, WasCurrent, RetiredForGood
    <3>4. ActiveIn(versions') # snaps[i].target
      BY <2>2, <2>5, <3>1, <3>3, InForceIsActive DEF TargetState
    <3>q. QED BY <2>5, <3>4 DEF CurrentNow, IsCurrent
  <2>8. Newest(snaps) # i \/ ActiveIn(versions) # snaps[i].target
    BY <1>1, <2>3 DEF CurrentNow, IsCurrent, WasCurrent
  <2>q. QED BY <2>6, <2>7, <2>8
<1>2. Inv /\ Inv' /\ [Next]_vars =>
        [\A i \in DOMAIN snaps : planRun[i] # "NONE" /\ ~CurrentNow(i) => ~CurrentNow(i)']_vars
  BY <1>1
<1>q. QED BY <1>2, Invariant, PTL DEF StaleForGood, Spec
=============================================================================
