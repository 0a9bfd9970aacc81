--------------------------- MODULE PaperExecution ---------------------------
(***************************************************************************)
(* Executing a PAPER plan.  One request gates on the ledger as it finds it,*)
(* creates all orders of the plan in one transaction, and then takes them  *)
(* one by one through SUBMITTING, a replay against the order book, PENDING *)
(* and, if the replay filled anything, PARTIAL_FILLED or FILLED.  Every    *)
(* row is a transaction of its own and nothing resumes a request that was  *)
(* cut off between two of them.                                            *)
(***************************************************************************)
EXTENDS DailyBudget, OrderStates, PaperReplay, SequencesExt

CONSTANTS
  Sells,  \* the orders that sell
  Qty,    \* shares of an order
  Price,  \* limit price of a share
  Looks   \* bound: what a look at quote, book and fees may bring, and when

ASSUME PaperAssumption ==
  /\ Sells \subseteq Orders
  /\ Qty \in Nat \ {0} /\ Price \in Nat \ {0}
  /\ \A o \in Orders : Reserve[o] = Qty * Price  \* createPaperOrders: the planned notional
  /\ {} \notin Plans  \* execute refuses a plan without orders
  /\ \A p, q \in Plans : p # q => p \cap q = {}
  /\ \A look \in Looks : look.book # Missing =>
       {look.book.asks, look.book.bids} \subseteq Seq([price : Int, qty : Int])

VARIABLES
  state,  \* last row of order_state_history
  fill,   \* its filled quantity
  job     \* the requests

vars == <<today, setting, limit, res, tx, state, fill, job>>

Shots == [qty : 0..Qty, gross : Nat]
Steps == {"SUBMIT", "REPLAY", "ACCEPT", "PROGRESS"}

Job == [phase : {"IDLE"}] \cup [phase : {"GATED", "CREATING"}, plan : Plans]
         \cup [phase : Steps, queue : Seq(Orders) \ {<<>>}, shot : Shots]

TypeOK ==
  /\ BudgetTypeOK
  /\ state \in [Orders -> States \cup {None}]
  /\ fill \in [Orders -> 0..Qty]
  /\ job \in [Workers -> Job]

Init ==
  /\ BudgetInit
  /\ state = [o \in Orders |-> None]
  /\ fill = [o \in Orders |-> 0]
  /\ job = [w \in Workers |-> [phase |-> "IDLE"]]

-----------------------------------------------------------------------------
NothingUnresolved == \A o \in Orders : state[o] \notin Unresolved

\* NO_UNRESOLVED_ORDERS, on an execution context that is not read again.
Gate(w, plan) ==
  /\ job[w].phase = "IDLE" /\ NothingUnresolved
  /\ job' = [job EXCEPT ![w] = [phase |-> "GATED", plan |-> plan]]
  /\ UNCHANGED <<today, setting, limit, res, tx, state, fill>>

Create(w) ==
  /\ job[w].phase = "GATED"
  /\ OpenCreation(w, job[w].plan)
  /\ job' = [job EXCEPT ![w].phase = "CREATING"]
  /\ UNCHANGED <<state, fill>>

LockTheLimit(w) == LockLimit(w) /\ UNCHANGED <<state, fill, job>>

EndRequest(w) == job' = [job EXCEPT ![w] = [phase |-> "IDLE"]]

NotCreated(w) ==
  /\ RefuseCreation(w) \/ AbortCreation(w)
  /\ EndRequest(w)
  /\ UNCHANGED <<state, fill>>

\* Sells come before buys in the code; the model takes any order.
Created(w) ==
  /\ CommitCreation(w)
  /\ state' = [o \in Orders |-> IF o \in tx[w].plan THEN "PLANNED" ELSE state[o]]
  /\ \E queue \in SetToSeqs(tx[w].plan) :
       job' = [job EXCEPT ![w] = [phase |-> "SUBMIT", queue |-> queue, shot |-> NoFill]]
  /\ UNCHANGED fill

\* The order the request works on.
At(w) == Head(job[w].queue)

\* appendPaperState: one row, accepted by guard_order_state_history.
MayAppend(o, s, shot) ==
  /\ MayMove(state[o], s)
  /\ FillsAgree(s, fill[o], shot.qty, Qty)
  /\ Fits(o, shot)

AppendPaperState(o, s, shot) ==
  /\ MayAppend(o, s, shot)
  /\ state' = [state EXCEPT ![o] = s]
  /\ fill' = [fill EXCEPT ![o] = shot.qty]
  /\ Book(o, shot.gross, s \in Terminal)
  /\ UNCHANGED <<today, setting, limit, tx>>

Submit(w) ==
  /\ job[w].phase = "SUBMIT"
  /\ AppendPaperState(At(w), "SUBMITTING", NoFill)
  /\ job' = [job EXCEPT ![w].phase = "REPLAY"]

Order(o) ==
  [side |-> IF o \in Sells THEN "SELL" ELSE "BUY", qty |-> Qty, limit |-> Price]

\* The replays an order may see; a read that fails fills nothing either.
Replays ==
  [o \in Orders |-> {NoFill} \cup {simulatePaperLimitDayOrder(Order(o), look) : look \in Looks}]

Replay(w) ==
  /\ job[w].phase = "REPLAY"
  /\ \E shot \in Replays[At(w)] :
       job' = [job EXCEPT ![w].phase = "ACCEPT", ![w].shot = shot]
  /\ UNCHANGED <<today, setting, limit, res, tx, state, fill>>

Accept(w) ==
  /\ job[w].phase = "ACCEPT"
  /\ AppendPaperState(At(w), "PENDING", NoFill)
  /\ job' = [job EXCEPT ![w].phase = "PROGRESS"]

\* The next order of the plan, or the end of the request.
GoOn(w) ==
  IF Len(job[w].queue) = 1 THEN EndRequest(w)
  ELSE job' = [job EXCEPT ![w] = [phase |-> "SUBMIT", queue |-> Tail(job[w].queue),
                                  shot |-> NoFill]]

Filled(w) == IF job[w].shot.qty = Qty THEN "FILLED" ELSE "PARTIAL_FILLED"

Progress(w) ==
  /\ job[w].phase = "PROGRESS"
  /\ IF job[w].shot = NoFill
       THEN UNCHANGED <<today, setting, limit, res, tx, state, fill>>
       ELSE AppendPaperState(At(w), Filled(w), job[w].shot)
  /\ GoOn(w)

\* The trigger refuses the row of the fill: the request throws.
ProgressFails(w) ==
  /\ job[w].phase = "PROGRESS" /\ job[w].shot # NoFill
  /\ ~MayAppend(At(w), Filled(w), job[w].shot)
  /\ EndRequest(w)
  /\ UNCHANGED <<today, setting, limit, res, tx, state, fill>>

\* The platform cuts the request off; a transaction it had open rolls back.
CutOff(w) ==
  /\ job[w].phase # "IDLE"
  /\ EndRequest(w)
  /\ tx' = [tx EXCEPT ![w] = Idle]
  /\ UNCHANGED <<today, setting, limit, res, state, fill>>

Operator == (ChangeSetting \/ Midnight) /\ UNCHANGED <<state, fill, job>>

Works(w) ==
  \/ Create(w) \/ LockTheLimit(w) \/ NotCreated(w) \/ Created(w)
  \/ Submit(w) \/ Replay(w) \/ Accept(w) \/ Progress(w) \/ ProgressFails(w)

Next ==
  \/ \E w \in Workers : Works(w) \/ CutOff(w) \/ \E plan \in Plans : Gate(w, plan)
  \/ Operator

Spec == Init /\ [][Next]_vars

-----------------------------------------------------------------------------
Expects == [SUBMIT |-> "PLANNED", REPLAY |-> "SUBMITTING", ACCEPT |-> "SUBMITTING",
            PROGRESS |-> "PENDING"]

(* A request finds every order where it left it: the one it works on in    *)
(* the state of its last row, the later ones untouched, and no order has   *)
(* two requests working on it (executePaper's loop reads no state back).   *)
OrdersBelongToOneRequest ==
  \A w \in Workers : job[w].phase \in Steps =>
    /\ state[At(w)] = Expects[job[w].phase]
    /\ \A o \in Range(Tail(job[w].queue)) : state[o] = "PLANNED"
    /\ \A v \in Workers \ {w} :
         job[v].phase \in Steps => Range(job[v].queue) \cap Range(job[w].queue) = {}

(* What the ledger says of an order and what its reservation keeps agree   *)
(* whatever a request left undone: an order that can still trade holds all *)
(* of its amount, a finished one exactly what it traded                    *)
(* (guard_order_state_history's update of daily_trade_reservation).        *)
ReservationFollowsLedger ==
  \A o \in Orders :
    IF state[o] = None THEN res[o] = Absent
    ELSE /\ res[o] # Absent
         /\ Reserve[o] - res[o].released
              = IF state[o] \in Terminal THEN res[o].filled ELSE Reserve[o]
         /\ (res[o].filled > 0) <=> (state[o] \in {"PARTIAL_FILLED", "FILLED"})

(* The row of a buy's replay is never refused, whatever other requests, the *)
(* operator and the clock do between the order's creation and its fill: a   *)
(* buy never trades more than it reserved (guard_order_state_history).      *)
BuysAreStored ==
  \A w \in Workers :
    job[w].phase = "PROGRESS" /\ job[w].shot # NoFill /\ At(w) \notin Sells =>
      MayAppend(At(w), Filled(w), job[w].shot)

\* The orders whose replay cannot be bettered, whatever the look.
BestReplayed ==
  {o \in Orders :
     \A look \in Looks :
       /\ validateEvidence(Order(o), look) /\ look.fees
       /\ Crosses(Order(o), look.quote.price)
       => BestExecution(Order(o), Levels(Order(o), look.book),
                        simulatePaperLimitDayOrder(Order(o), look))}

(* Whatever book a request is about to replay its order against, the level *)
(* by level walk through the sorted book fills as much as the permitted     *)
(* part allows, at the best price there is: no other way to divide the      *)
(* order over the levels does better (simulateBookFill).                    *)
ReplayIsBestExecution ==
  \A w \in Workers : job[w].phase = "REPLAY" => At(w) \in BestReplayed
=============================================================================
