---------------------------- MODULE OrderStates ----------------------------
(***************************************************************************)
(* The normalized order states shared by the paper and the live ledger,    *)
(* and the two places of the code that decide which moves between them are *)
(* legal: the trigger guard_order_state_history (the authority: every row  *)
(* of order_state_history passes it) and evaluateOrderTransition of        *)
(* packages/application (the rule the documents describe).                 *)
(***************************************************************************)
EXTENDS Integers

\* No row of order_state_history exists yet.
None == "NONE"

Terminal == {"FILLED", "CANCELED", "REJECTED"}

\* States that guard_order_submission_authorization and the risk gate count
\* as holding the account: a possible exposure at the broker.
Exposed == {"SUBMITTING", "PENDING", "PARTIAL_FILLED", "UNKNOWN", "UNKNOWN_BLOCKED"}

\* UNRESOLVED_STATES of the execution risk gate: also a ledger row that has
\* not been authorized.
Unresolved == Exposed \cup {"PLANNED"}

States == Unresolved \cup Terminal

\* States that an UNKNOWN_BLOCKED order can be recovered to.
Resolved == {"PENDING", "PARTIAL_FILLED"} \cup Terminal

(***************************************************************************)
(* The moves guard_order_state_history accepts.                            *)
(***************************************************************************)
MayMove(s, t) ==
  \/ s = "PLANNED" /\ t \in {"SUBMITTING", "REJECTED"}
  \/ s = "SUBMITTING" /\ t \in {"PENDING", "REJECTED", "UNKNOWN", "UNKNOWN_BLOCKED"}
  \/ s \in {"PENDING", "PARTIAL_FILLED"}
       /\ t \in (Resolved \cup {"UNKNOWN", "UNKNOWN_BLOCKED"}) \ {"PENDING"}
  \/ s = "UNKNOWN" /\ t \in Resolved \cup {"UNKNOWN_BLOCKED"}
  \/ s = "UNKNOWN_BLOCKED" /\ t \in Resolved

(***************************************************************************)
(* What one row says about its fills, given the row before it: fills never *)
(* shrink, never exceed the order, and agree with the state.  full is the  *)
(* ordered quantity, old and new the cumulative fills.                     *)
(***************************************************************************)
FillsAgree(s, old, new, full) ==
  /\ new \in old .. full
  /\ s = "PARTIAL_FILLED" => new > 0 /\ new < full
  /\ s = "FILLED" => new = full
  /\ s \in {"CANCELED", "REJECTED"} => new < full
  /\ s = "UNKNOWN_BLOCKED" => new = old

=============================================================================
