--------------------------- MODULE AccountPromise ---------------------------
(***************************************************************************)
(* What the whole live order path promises its owner, without triggers,    *)
(* claims, audit rows or retries: an order first takes its part of the     *)
(* daily limit, is handed to the broker at most once and never beside      *)
(* another one, trades only while it is live, and once closed trades no    *)
(* more and keeps exactly what it traded.                                  *)
(***************************************************************************)
EXTENDS Integers

CONSTANTS Orders, Qty

VARIABLES
  phase,   \* "new", "reserved", "live" or "closed"
  traded,  \* what the broker has bought or sold for the order
  kept     \* the part of the daily limit the order takes

vars == <<phase, traded, kept>>

Init ==
  /\ phase = [o \in Orders |-> "new"]
  /\ traded = [o \in Orders |-> 0]
  /\ kept = [o \in Orders |-> 0]

Move(o, from, to) == phase[o] \in from /\ phase' = [phase EXCEPT ![o] = to]

Reserve(o) ==
  /\ Move(o, {"new"}, "reserved")
  /\ kept' = [kept EXCEPT ![o] = Qty]
  /\ UNCHANGED traded

\* One live order at a time.
Dispatch(o) ==
  /\ Move(o, {"reserved"}, "live")
  /\ \A p \in Orders : phase[p] # "live"
  /\ UNCHANGED <<traded, kept>>

Trade(o) ==
  /\ phase[o] = "live"
  /\ \E q \in traded[o] + 1 .. Qty : traded' = [traded EXCEPT ![o] = q]
  /\ UNCHANGED <<phase, kept>>

Close(o) ==
  /\ Move(o, {"reserved", "live"}, "closed")
  /\ kept' = [kept EXCEPT ![o] = traded[o]]
  /\ UNCHANGED traded

Next == \E o \in Orders : Reserve(o) \/ Dispatch(o) \/ Trade(o) \/ Close(o)

Spec == Init /\ [][Next]_vars

=============================================================================
