-------------------------- MODULE LiveOrderSafety --------------------------
(***************************************************************************)
(* What the live order path must never do, and what it must get done.      *)
(***************************************************************************)
EXTENDS LiveOrder

\* Worker w may still put a submit request for o on the wire.
Armed(w, o) == pc[w] = "armed" /\ job[w] = o

\* The broker has, or may still come to have, an executable order for o.
Exposure(o) ==
  \/ \E w \in Workers : Armed(w, o)
  \/ o \in wire
  \/ status[o] \in BrokerOpen \cup {"REPLACED"}

(***************************************************************************)
(* One dispatch.  However executions, retries, crashes and recoveries      *)
(* interleave, at most one submit request ever leaves the engine for a     *)
(* plan order, and none without its durable claim B (ADR 0004).            *)
(***************************************************************************)
SentAtMostOnce ==
  \A o \in Orders : sent[o] <= 1 /\ (sent[o] > 0 => "CLAIM" \in rows[o])

(***************************************************************************)
(* The strengthening that makes SentAtMostOnce inductive: the claim is a   *)
(* token held by nobody, then by one armed worker, then spent.             *)
(***************************************************************************)
DispatchToken ==
  /\ SentAtMostOnce
  /\ \A w \in Workers, o \in Orders :
       Armed(w, o) => "CLAIM" \in rows[o] /\ sent[o] = 0
  /\ \A v, w \in Workers, o \in Orders : Armed(v, o) /\ Armed(w, o) => v = w

(***************************************************************************)
(* One exposed order per account.  Authorization is the only door into the *)
(* exposed states, and the account lock makes it see every other order, so *)
(* two concurrent executions cannot both pass it.                          *)
(***************************************************************************)
OneOrderExposed ==
  \A o, p \in Orders : state[o] \in Exposed /\ state[p] \in Exposed => o = p

(***************************************************************************)
(* The ledger follows the broker.  It never runs ahead of the broker's     *)
(* fills, never names a broker order that does not exist, and a final      *)
(* state, once written from a possibly stale observation, is the broker's  *)
(* final state with the broker's final fill.                               *)
(***************************************************************************)
LedgerFollowsBroker ==
  \A o \in Orders :
    /\ fill[o] <= done[o]
    /\ bound[o] => status[o] \in Accepted
    /\ state[o] \in {"FILLED", "CANCELED"} => status[o] = state[o] /\ fill[o] = done[o]

(***************************************************************************)
(* Final is final: a worker that comes late with an older answer cannot    *)
(* reopen a closed order, take back a fill, or forget its broker id.       *)
(***************************************************************************)
FinalIsFinal ==
  [][\A o \in Orders :
       /\ state[o] \in Terminal =>
            state'[o] = state[o] /\ fill'[o] = fill[o] /\ released'[o] = released[o]
       /\ fill'[o] >= fill[o]
       /\ bound[o] => bound'[o]]_vars

(***************************************************************************)
(* Only an operator unblocks.  Neither the reconciler nor a late submit    *)
(* reply moves an order out of UNKNOWN_BLOCKED; the last step of an        *)
(* operator's own request for it does, and only with what the broker has   *)
(* just said about an order it holds.                                      *)
(***************************************************************************)
OnlyOperatorUnblocks ==
  [][\A o \in Orders :
       state[o] = "UNKNOWN_BLOCKED" /\ state'[o] # state[o] =>
         /\ status[o] \in Accepted
         /\ \E w \in Workers : /\ job[w] = o /\ memo[w].by = "OPERATOR"
                               /\ pc[w] = "observed" /\ pc'[w] = "idle"]_vars

\* Worker w may still send a cancel request for o.
CancelArmed(w, o) == pc[w] = "carmed" /\ job[w] = o

(***************************************************************************)
(* One cancel.  At most one cancel request ever leaves the engine for an   *)
(* order and none without its durable claim (ADR 0004), however often and  *)
(* concurrently operators ask, whether the first was answered or not: the  *)
(* cancel claim is a token held by nobody, then by one armed worker, then  *)
(* spent.                                                                  *)
(***************************************************************************)
CancelToken ==
  /\ \A o \in Orders : csent[o] <= 1 /\ (csent[o] > 0 => "CANCEL_CLAIM" \in rows[o])
  /\ \A w \in Workers, o \in Orders :
       CancelArmed(w, o) => "CANCEL_CLAIM" \in rows[o] /\ csent[o] = 0
  /\ \A v, w \in Workers, o \in Orders : CancelArmed(v, o) /\ CancelArmed(w, o) => v = w

(***************************************************************************)
(* A non-dispatch proof excludes the claim: an order closed because the    *)
(* database proves that B never existed has no B and was never sent        *)
(* (README.md:33).  As coded the recovery of an authorized order may miss  *)
(* a claim that is younger than its snapshot, and this does not hold.      *)
(***************************************************************************)
NonDispatchProvesNoClaim ==
  \A o \in Orders :
    rows[o] \cap {"NON_DISPATCH", "PRE_AUTH_NON_DISPATCH"} # {} =>
      "CLAIM" \notin rows[o] /\ sent[o] = 0

(***************************************************************************)
(* Closing an order as never sent excludes every other end of it.  What    *)
(* was closed before its authorization is never authorized, claimed or     *)
(* sent, though an executor may be about to authorize it when the          *)
(* reconciler reads it; and no recorded answer of the broker ever belongs  *)
(* to an order closed either way, so that a recovery cannot overrule one.  *)
(***************************************************************************)
NonDispatchIsExclusive ==
  \A o \in Orders :
    /\ "PRE_AUTH_NON_DISPATCH" \in rows[o] =>
         rows[o] \cap {"AUTHORIZATION", "CLAIM"} = {} /\ sent[o] = 0
    /\ rows[o] \cap {"NON_DISPATCH", "PRE_AUTH_NON_DISPATCH"} # {} =>
         "SUBMIT_EVIDENCE" \notin rows[o] /\ ~ bound[o] /\ state[o] = "REJECTED"

\* A recovery has closed o as never sent and has missed its claim.
Overlooked(o) == {"NON_DISPATCH", "CLAIM"} \subseteq rows[o]

(***************************************************************************)
(* One exposure at the broker.  Of the orders no recovery has overlooked   *)
(* at most one is at the broker, counting requests that are still on their *)
(* way and claims whose request is about to be sent: the race of the       *)
(* recovery is the only way to a second exposure.                          *)
(***************************************************************************)
OneBrokerExposure ==
  \A o, p \in Orders :
    Exposure(o) /\ Exposure(p) /\ o # p => Overlooked(o) \/ Overlooked(p)

(***************************************************************************)
(* The reservation covers the exposure.  No part of it is released while   *)
(* the broker could still fill the order, and what is kept afterwards is   *)
(* what was filled; except for an order a recovery has overlooked, whose   *)
(* reservation is gone.                                                    *)
(***************************************************************************)
ReservationCoversExposure ==
  \A o \in Orders :
    \/ Overlooked(o)
    \/ /\ Exposure(o) => state[o] \in Exposed /\ released[o] = 0
       /\ released[o] > 0 => Qty - released[o] = done[o]

(***************************************************************************)
(* The path keeps the account's promise, whatever is interleaved, lost or  *)
(* cut off, with one exception: the ledger's states are its phases, the    *)
(* broker's fills its trades, and the reservation what it keeps.  The only *)
(* steps of the code the promise may forbid are those of the recovery's    *)
(* race: the commit that misses a claim, and fills of the order after it.  *)
(***************************************************************************)
Phase(s) ==
  IF s = None THEN "new"
  ELSE IF s = "PLANNED" THEN "reserved"
  ELSE IF s \in Exposed THEN "live"
  ELSE "closed"

Promise == INSTANCE AccountPromise WITH
  phase  <- [o \in Orders |-> Phase(state[o])],
  traded <- done,
  kept   <- [o \in Orders |-> IF state[o] = None THEN 0 ELSE Qty - released[o]]

RecoveryRace ==
  \/ \E w \in Workers : CommitRecovery(w) /\ "CLAIM" \in rows[job[w]]
  \/ \E o \in Orders : BrokerFill(o) /\ Overlooked(o)

KeepsPromise == Promise!Init /\ [][Promise!Next \/ RecoveryRace]_(Promise!vars)

-----------------------------------------------------------------------------
(***************************************************************************)
(* Fairness.  Nothing in the engine runs by itself after a request: orders *)
(* are resolved because an operator presses "reconcile" (or "recover") for *)
(* them again and again, and because not every such request is cut off.    *)
(* Requests end (the platform bounds them), time passes, and requests on   *)
(* the wire arrive or are lost.  Nothing is assumed of executions, of      *)
(* cancels, or of what the broker decides.                                 *)
(***************************************************************************)
Serving(o, Step(_)) == \E w \in Workers : job[w] = o /\ Step(w)

Reads(o) == SF_vars(\E w \in Workers : ReadContext(w, o))

OperatorReconciles(o) ==
  /\ Reads(o)
  /\ SF_vars(Serving(o, RecoverPlanned))
  /\ SF_vars(Serving(o, BlockUnknown))
  /\ SF_vars(Serving(o, BeginRecovery))
  /\ SF_vars(Serving(o, CommitRecovery))

\* The broker is not down whenever it is asked, by the reconciler or for an
\* operator who recovers the order, and what it says is written down.
OperatorLooksUp(o) ==
  /\ Reads(o) /\ SF_vars(\E w \in Workers : RecoverUnknown(w, o))
  /\ \A actor \in {"RECONCILER", "OPERATOR"} :
       /\ SF_vars(\E w \in Workers : job[w] = o /\ memo[w].by = actor /\ CheckAccount(w))
       /\ SF_vars(\E w \in Workers : job[w] = o /\ memo[w].by = actor /\ GetOrder(w))
  /\ SF_vars(Serving(o, Record))

RequestsEnd == \A w \in Workers : WF_vars(Abandon(w))

TimePasses(o) == WF_vars(Age(o)) /\ WF_vars(Deliver(o))

FairSpec == Spec /\ RequestsEnd /\ \A o \in Orders : OperatorReconciles(o) /\ TimePasses(o)

\* The recoveries are left out: they never apply to an order with a broker id.
LookupSpec == Spec /\ RequestsEnd /\ \A o \in Orders : OperatorLooksUp(o) /\ TimePasses(o)

(***************************************************************************)
(* No order is stuck before its outcome is known: an order left PLANNED or *)
(* SUBMITTING by a crash, or UNKNOWN without a broker id, is closed by a   *)
(* non-dispatch proof or handed to the operator.                           *)
(***************************************************************************)
Undecided(o) ==
  state[o] \in {"PLANNED", "SUBMITTING"} \/ (state[o] = "UNKNOWN" /\ ~bound[o])

UndecidedIsResolved == \A o \in Orders : Undecided(o) ~> ~Undecided(o)

(***************************************************************************)
(* What the broker has finally decided about an order the ledger can name  *)
(* reaches the ledger (ADR 0004: the final state is settled by looking up  *)
(* the original order).  As coded only the first lookup of an order can be *)
(* audited, and it usually comes right after the submit reply.             *)
(***************************************************************************)
BrokerFinal(o) == status[o] \in Terminal /\ bound[o] /\ o \notin late

FinalReachesLedger == \A o \in Orders : BrokerFinal(o) ~> state[o] \in Terminal
=============================================================================
