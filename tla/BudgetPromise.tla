---------------------------- MODULE BudgetPromise ----------------------------
(***************************************************************************)
(* What the daily limit promises, without transactions, snapshots, locks   *)
(* and retries: a day's limit is fixed once, the orders of a plan take     *)
(* what they reserve of it together and at one moment, and an order keeps  *)
(* all of that until it is finished and then exactly what it traded.       *)
(***************************************************************************)
EXTENDS Integers, Functions

CONSTANTS Orders, Plans, Reserve, Days, Amounts, Absent

VARIABLES
  limit,   \* the limit of each day
  day,     \* the day whose limit an order counts against
  kept,    \* what it keeps of it
  traded   \* what it has traded

vars == <<limit, day, kept, traded>>

Init ==
  /\ limit \in [Days -> Amounts \cup {Absent}]
  /\ day = [o \in Orders |-> Absent]
  /\ kept = [o \in Orders |-> 0]
  /\ traded = [o \in Orders |-> 0]

Used(d) == SumFunctionOnSet(kept, {o \in Orders : day[o] = d})

Fix(d) ==
  /\ limit[d] = Absent
  /\ \E amount \in Amounts : limit' = [limit EXCEPT ![d] = amount]

FixLimit == (\E d \in Days : Fix(d)) /\ UNCHANGED <<day, kept, traded>>

Take(plan, d) ==
  /\ \A o \in plan : day[o] = Absent
  /\ UNCHANGED limit \/ \E e \in Days : Fix(e)
  /\ limit'[d] # Absent
  /\ Used(d) + SumFunctionOnSet(Reserve, plan) <= limit'[d]
  /\ day' = [o \in Orders |-> IF o \in plan THEN d ELSE day[o]]
  /\ kept' = [o \in Orders |-> IF o \in plan THEN Reserve[o] ELSE kept[o]]
  /\ UNCHANGED traded

\* More is traded, the order is finished, or both.
Trade(o) ==
  /\ kept[o] = Reserve[o]
  /\ \E amount \in traded[o]..Reserve[o] :
       /\ traded' = [traded EXCEPT ![o] = amount]
       /\ kept' \in {kept, [kept EXCEPT ![o] = amount]}
  /\ UNCHANGED <<limit, day>>

Next ==
  \/ FixLimit
  \/ \E plan \in Plans, d \in Days : Take(plan, d)
  \/ \E o \in Orders : Trade(o)

Spec == Init /\ [][Next]_vars
=============================================================================
