--------------------------- MODULE TargetSettings ---------------------------
(***************************************************************************)
(* Drafting and activating target versions.  Each request is decided by    *)
(* one Serializable transaction, on the snapshot of the database its first *)
(* statement takes; the request's own earlier reads are repeated there.    *)
(* Two transactions that write versions cannot both commit if they ran at  *)
(* the same time: they update the same row, take the same number, or each  *)
(* reads the set of DRAFT rows that the other one changes.  Collections    *)
(* are READ COMMITTED and conflict with nothing.                           *)
(***************************************************************************)
EXTENDS PortfolioStore

CONSTANT Editors  \* requests of the settings page served at the same time

VARIABLE edit

Edit == [phase : {"IDLE"}]
          \cup [phase : {"DRAFTING"}, content : Contents,
                newest : 0..MaxObservations, seen : Seq(Version), overtaken : BOOLEAN]
          \cup [phase : {"ACTIVATING"}, version : 1..MaxVersions,
                newest : 0..MaxObservations, seen : Seq(Version), overtaken : BOOLEAN]

SettingsTypeOK == edit \in [Editors -> Edit]

SettingsInit == edit = [e \in Editors |-> [phase |-> "IDLE"]]

BeginDraft(e, content) ==
  /\ edit[e].phase = "IDLE"
  /\ edit' = [edit EXCEPT ![e] = [phase |-> "DRAFTING", content |-> content,
                                  newest |-> Newest(snaps), seen |-> versions,
                                  overtaken |-> FALSE]]
  /\ UNCHANGED <<snaps, versions>>

\* It was the draft when the console showed it, and may be anything by now.
BeginActivation(e, v) ==
  /\ edit[e].phase = "IDLE"
  /\ edit' = [edit EXCEPT ![e] = [phase |-> "ACTIVATING", version |-> v,
                                  newest |-> Newest(snaps), seen |-> versions,
                                  overtaken |-> FALSE]]
  /\ UNCHANGED <<snaps, versions>>

\* Every version in one of the given states, but the kept one, is retired.
Retired(rows, states, kept) ==
  [v \in DOMAIN rows |-> IF v # kept /\ rows[v].state \in states
                           THEN [rows[v] EXCEPT !.state = "RETIRED"] ELSE rows[v]]

\* UNIQUE (config, content_hash); the hash covers the source snapshot, too.
Existing(rows, source, content) ==
  {v \in DOMAIN rows : rows[v].source = source /\ rows[v].content = content}

\* createTargetDraft on the rows it sees: reuse an equal version or add one.
Drafted(rows, source, content) ==
  LET same == Existing(rows, source, content)
  IN  IF same = {}
        THEN Append(Retired(rows, {"DRAFT"}, 0),
                    [source |-> source, content |-> content, state |-> "DRAFT"])
        ELSE LET v == CHOOSE v \in same : TRUE
             IN  [Retired(rows, {"DRAFT"}, v) EXCEPT
                    ![v].state = IF @ = "RETIRED" THEN "DRAFT" ELSE @]

MayDraft(e) == edit[e].phase = "DRAFTING" /\ edit[e].newest # 0

\* The draft must stem from the latest snapshot the transaction sees.
ActivationHolds(e) ==
  /\ edit[e].phase = "ACTIVATING" /\ edit[e].newest # 0
  /\ edit[e].seen[edit[e].version].state \in {"DRAFT", "ACTIVE"}
  /\ edit[e].seen[edit[e].version].source = edit[e].newest

Activated(rows, v) == [Retired(rows, {"ACTIVE"}, v) EXCEPT ![v].state = "ACTIVE"]

Idling == [phase |-> "IDLE"]

\* A commit that wrote overtakes every transaction open beside it.
Closes(e, wrote) ==
  edit' = [d \in Editors |->
             IF d = e THEN Idling
             ELSE IF wrote /\ edit[d] # Idling THEN [edit[d] EXCEPT !.overtaken = TRUE]
             ELSE edit[d]]

CommitsOverOthers(e, rows) ==  \* wrong: READ COMMITTED, each row as it is by now
  /\ versions' = [v \in DOMAIN rows \cup DOMAIN versions |->
                    IF v \notin DOMAIN rows \/ (v \in DOMAIN edit[e].seen /\ rows[v] = edit[e].seen[v])
                      THEN versions[v] ELSE rows[v]]
  /\ Closes(e, rows # edit[e].seen)

\* A transaction that writes commits only if no other one has written meanwhile, not even
\* to put back what it had found.
Commits(e, rows) ==
  LET wrote == rows # edit[e].seen
  IN  /\ wrote => ~edit[e].overtaken
      /\ versions' = IF wrote THEN rows ELSE versions
      /\ Closes(e, wrote)

CommitDraft(e) ==
  /\ MayDraft(e)
  /\ LET rows == Drafted(edit[e].seen, edit[e].newest, edit[e].content)
     IN  Len(rows) <= MaxVersions /\ Commits(e, rows)
  /\ UNCHANGED snaps

CommitActivation(e) ==
  /\ ActivationHolds(e)
  /\ Commits(e, Activated(edit[e].seen, edit[e].version))
  /\ UNCHANGED snaps

\* DRAFT_STALE, DRAFT_NOT_FOUND, a serialization failure or a cut-off request.
EditFails(e) ==
  /\ edit[e].phase # "IDLE"
  /\ Closes(e, FALSE)
  /\ UNCHANGED <<snaps, versions>>

Edits(e) ==
  \/ \E content \in Contents : BeginDraft(e, content)
  \/ \E v \in DOMAIN versions : BeginActivation(e, v)
  \/ CommitDraft(e) \/ CommitActivation(e) \/ EditFails(e)

-----------------------------------------------------------------------------
(* At most one version is ACTIVE and at most one awaits review, whatever   *)
(* two open settings pages save and apply (activateTargetDraft,            *)
(* createTargetDraft, target_config_one_active_per_account).               *)
OneVersionInForce ==
  \A u, v \in DOMAIN versions :
    versions[u].state = versions[v].state /\ versions[u].state # "RETIRED" => u = v
=============================================================================
