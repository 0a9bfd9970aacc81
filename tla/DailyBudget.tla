---------------------------- MODULE DailyBudget ----------------------------
(***************************************************************************)
(* The gross amount the account may trade on one day.  The first execution *)
(* of a day inserts the day's limit, every order reserves its amount when  *)
(* it is created, and gives back what it did not trade when it is filled.  *)
(* Orders are created by Serializable transactions whose snapshot is taken *)
(* by the statement that inserts the limit: the sum of the reservations    *)
(* may be old when the limit row is locked at last.  What keeps two        *)
(* executions from overrunning the limit together is that the second one   *)
(* cannot be serialized.                                                   *)
(***************************************************************************)
EXTENDS Integers, FiniteSets, Functions

CONSTANTS
  Workers,  \* requests served at the same time
  Orders,   \* orders of the sealed plans
  Plans,    \* the orders of each plan, which are created together
  Reserve,  \* amount an order reserves
  Amounts,  \* daily limits an operator may configure
  LastDay,  \* bound: the trade days are 1..LastDay
  Absent    \* no such row

Days == 1..LastDay

\* A row of daily_trade_reservation: when the order was created, and its gross amounts.
Rows == [day : Days, filled : Nat, released : Nat]

ASSUME BudgetAssumption ==
  /\ LastDay \in Nat \ {0}
  /\ IsFiniteSet(Orders)
  /\ Amounts \subseteq Nat
  /\ Absent \notin Amounts \cup Days \cup Rows
  /\ Plans \subseteq SUBSET Orders
  /\ Reserve \in [Orders -> Nat \ {0}]

VARIABLES
  today,    \* the trade day in Seoul
  setting,  \* maxDailyGrossMinor of the active configuration
  limit,    \* daily_trade_limit, by day
  res,      \* daily_trade_reservation, by order
  tx        \* the transactions that create orders

Limits == [Days -> Amounts \cup {Absent}]

Reservations == [Orders -> Rows \cup {Absent}]

Creations ==
  [phase : {"IDLE"}]
    \cup [phase : {"OPEN", "LOCKED"}, plan : Plans, amount : Amounts, inserts : Days \cup {Absent},
          day : Days, limits : Limits, seen : Reservations]

BudgetTypeOK ==
  /\ today \in Days /\ setting \in Amounts
  /\ limit \in Limits
  /\ res \in Reservations
  /\ tx \in [Workers -> Creations]

-----------------------------------------------------------------------------
OrdersOf(rows, day) == {o \in Orders : rows[o] # Absent /\ rows[o].day = day}

\* What the orders of a day have reserved and not released.
Usage(rows, day) ==
  SumFunction([o \in OrdersOf(rows, day) |-> Reserve[o] - rows[o].released])

Idle == [phase |-> "IDLE"]

\* The limit of the first day is there if a creation before was refused under it.
BudgetInit ==
  /\ today = 1 /\ setting \in Amounts
  /\ \E earlier \in Amounts \cup {Absent} :
       limit = [d \in Days |-> IF d = 1 THEN earlier ELSE Absent]
  /\ res = [o \in Orders |-> Absent]
  /\ tx = [w \in Workers |-> Idle]

-----------------------------------------------------------------------------
(* Creating the orders of a plan.                                          *)

Inserting(w, day) == tx[w].phase # "IDLE" /\ tx[w].inserts = day

\* INSERT .. ON CONFLICT DO NOTHING, which waits for another insert of the same day.
OpenCreation(w, plan) ==
  /\ tx[w] = Idle
  /\ \A v \in Workers : ~Inserting(v, today)
  /\ tx' = [tx EXCEPT ![w] =
              [phase |-> "OPEN", plan |-> plan, amount |-> setting,
               inserts |-> IF limit[today] = Absent THEN today ELSE Absent,
               day |-> today, limits |-> limit, seen |-> res]]
  /\ UNCHANGED <<today, setting, limit, res>>

\* The limit of today as the transaction sees it: its own row, or the snapshot's.
LimitSeen(w) == IF tx[w].inserts = today THEN tx[w].amount ELSE tx[w].limits[today]

\* SELECT .. FOR UPDATE, with the day it is by now.
LockLimit(w) ==
  /\ tx[w].phase = "OPEN" /\ LimitSeen(w) = tx[w].amount
  /\ \A v \in Workers : tx[v].phase = "LOCKED" => tx[v].day # today
  /\ tx' = [tx EXCEPT ![w].phase = "LOCKED", ![w].day = today]
  /\ UNCHANGED <<today, setting, limit, res>>

WithInserted(w) ==
  IF tx[w].inserts = Absent THEN limit ELSE [limit EXCEPT ![tx[w].inserts] = tx[w].amount]

\* Another amount, or midnight has passed: no orders, but the inserted limit stays.
RefuseCreation(w) ==
  /\ tx[w].phase = "OPEN" /\ LimitSeen(w) # tx[w].amount
  /\ limit' = WithInserted(w)
  /\ tx' = [tx EXCEPT ![w] = Idle]
  /\ UNCHANGED <<today, setting, res>>

FitsLimit(w) ==
  Usage(tx[w].seen, tx[w].day) + SumFunctionOnSet(Reserve, tx[w].plan) <= tx[w].amount

NeverSerializable(w) == TRUE  \* wrong: the row lock alone protects the limit

\* No transaction that created orders of this day has committed since the snapshot.
Serializable(w) == OrdersOf(res, tx[w].day) = OrdersOf(tx[w].seen, tx[w].day)

UnusedAnyway(plan) == TRUE  \* wrong: no UNIQUE (plan_order_id)

Unused(plan) == \A o \in plan : res[o] = Absent

CommitCreation(w) ==
  /\ tx[w].phase = "LOCKED" /\ tx[w].day = today
  /\ Unused(tx[w].plan) /\ FitsLimit(w) /\ Serializable(w)
  /\ limit' = WithInserted(w)
  /\ res' = [o \in Orders |-> IF o \in tx[w].plan
                                THEN [day |-> today, filled |-> 0, released |-> 0]
                                ELSE res[o]]
  /\ tx' = [tx EXCEPT ![w] = Idle]
  /\ UNCHANGED <<today, setting>>

\* Over the limit, the day has ended, a serialization failure, a lost connection.
AbortCreation(w) ==
  /\ tx[w] # Idle
  /\ tx' = [tx EXCEPT ![w] = Idle]
  /\ UNCHANGED <<today, setting, limit, res>>

-----------------------------------------------------------------------------
(* The rows of one order.                                                  *)

\* Every row of an order carries its gross fills so far; they must fit the reservation,
\* and be there exactly if shares were filled.
Fits(o, shot) ==
  /\ shot.gross \in res[o].filled..Reserve[o]
  /\ shot.qty = 0 <=> shot.gross = 0

BookReleasesAll(o, gross, final) ==  \* wrong: releases what was traded, too
  res' = [res EXCEPT ![o].filled = gross,
                     ![o].released = IF final THEN Reserve[o] ELSE @]

Book(o, gross, final) ==
  res' = [res EXCEPT ![o].filled = gross,
                     ![o].released = IF final THEN Reserve[o] - gross ELSE @]

ChangeSetting ==
  /\ setting' \in Amounts \ {setting}
  /\ UNCHANGED <<today, limit, res, tx>>

Midnight ==
  /\ today < LastDay
  /\ today' = today + 1
  /\ UNCHANGED <<setting, limit, res, tx>>

-----------------------------------------------------------------------------
(* On no day the orders created on it have traded more than they keep      *)
(* reserved, or keep more reserved than the limit of that day, whatever    *)
(* executions, changes of the configured amount and midnights interleave   *)
(* (docs/SPEC.md:665; guard_daily_trade_reservation).                      *)
WithinDailyLimit ==
  \A d \in Days :
    IF limit[d] = Absent THEN OrdersOf(res, d) = {}
    ELSE /\ SumFunction([o \in OrdersOf(res, d) |-> res[o].filled]) <= Usage(res, d)
         /\ Usage(res, d) <= limit[d]

(* The transactions that create orders, however their snapshots, locks and *)
(* midnights interleave, and the rows that book fills do together what the  *)
(* promise does at one moment: a plan takes all of its amount of the limit  *)
(* that is in force, against everything taken so far, or nothing.           *)
(* (guard_daily_trade_limit, guard_daily_trade_reservation)                 *)
Promise == INSTANCE BudgetPromise WITH
  day    <- [o \in Orders |-> IF res[o] = Absent THEN Absent ELSE res[o].day],
  kept   <- [o \in Orders |-> IF res[o] = Absent THEN 0 ELSE Reserve[o] - res[o].released],
  traded <- [o \in Orders |-> IF res[o] = Absent THEN 0 ELSE res[o].filled]

KeepsBudget == Promise!Spec
=============================================================================
