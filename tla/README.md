# A TLA+ model of the portfolio rebalancer

This directory holds the specifications kept beside the code in `src/`: TLA+
modules translated from the TypeScript engine and the PostgreSQL triggers, TLC
configurations that check them on small instances, and TLAPS proofs for every
value of the constants. Paths below are relative to `src/` unless they name a
file of this directory.

## 1. The system

A person approves target weights; the engine collects the account's holdings,
computes a rebalancing plan, and, in LIVE mode, sends one limit order to the
Toss brokerage. There is no background scheduler for orders: everything happens
inside HTTP requests to a serverless engine, several of which may run at once,
and any of which may be cut off. PostgreSQL is the only state they share; most
rules live in its triggers.

| Component | State | Operations | Interacts through |
|---|---|---|---|
| Live order ledger (`packages/database/prisma/migrations/20260716167000..171000`) | `order_ledger`, `order_state_history`, authorization A, dispatch claim B, evidence, `daily_trade_reservation`, cancel claims | inserts guarded by triggers | row locks on account, ledger and limit rows |
| Order service (`apps/engine/src/modules/orders`) | none of its own | execute, reconcile, cancel, recoverUnknown, setKillSwitch, createLivePlanApproval | transactions of the repository, calls of the adapter |
| Broker write adapter (`packages/broker-toss/src/live-order-adapter.ts`, `packages/broker/src/order-write.ts`) | spent authorizations | submit, lookup, cancel, classify | HTTP; an audit callback into the service |
| Daily limit and reservations | `daily_trade_limit`, `daily_trade_reservation` | create the day's limit, reserve, fill, release | row lock on the limit |
| Operational configuration, promotion, kill switch | config versions, the active pointer, promotion events, kill switch events | save, activate, promote, demote, engage, disengage | account row lock against authorization and claim |
| Portfolio collection (`modules/portfolio`) | `runtime_lease`, `collection_run`, snapshots | acquire, heartbeat, persist, finish | lease with fencing token |
| Plan store (`shadow-plan.use-case.ts`, migration 166000) | rebalance runs, plans, plan orders | create a run, complete or fail it, store a plan | guard triggers |
| Paper execution (`paper-order-executor.ts`) | the same ledger in PAPER mode | replay each order against the broker's order book and store the fill | the ledger |
| Token provider and transport (`packages/broker-toss/src/auth`, `transport.ts`, `client.ts`) | cached token, pending promise, a queue per operation group | get, invalidate, issue; enqueue, send, retry, release | promise shared by concurrent callers; audit rows |
| Evidence of the broker (`toss-read-source.adapter.ts`, `neutral-read-models.ts`) | attempt and validation rows | read, normalise, refuse, store | collection, plans and the gate are built from it |
| Pure calculations (`packages/domain`, `packages/application`) | none | bands, allocation, rebalance, commission, reservation, risk limits | called by the above |
| Web console, BFF, presenters, contracts | none that matters here | rendering and validation | HTTP |

### What is hard, and what makes each part correct

* **Orders.** Two requests for one plan, a crash between any two of
  authorization, claim, POST and outcome, lost answers, stale observations,
  cancels that cross with fills, an operator working at the same time. Correct:
  one POST per order and none without a claim; one exposed order per account;
  a closed order stays closed and tells the broker's truth; the reservation
  covers whatever can still trade; nothing stays undecided for ever.
* **Daily limit.** Reservations by concurrent executions, fills and releases.
  Correct: reserved minus released never exceeds the limit, and what is kept
  never falls below what was traded.
* **Configuration, promotion, kill switch.** They change between the gate, the
  authorization and the claim. Correct: no claim under a policy that was no
  longer in force when it was written.
* **Collection.** A collector that stalls past its lease and comes back.
  Correct: only the holder of the current fencing token writes a snapshot.
* **Target settings and plans.** Two settings pages at once; a plan sealed for
  a snapshot or target that has been replaced meanwhile; lost answers of a
  commit. Correct: one version in force; a run and its plan agree; what is
  sealed without the check of the current state is blocked.
* **Paper execution.** Repeated or interrupted runs. Correct: one request works
  on an order, and reservations agree with the ledger.
* **Token, queue, one-shot authorization.** Concurrent calls share one token, of
  which the broker keeps only the last one valid; a refused token must not be
  used again; a queue's slot passes on exactly once; one authorization sends one
  order; what the adapter is certain of is true and audited.
* **Snapshot and plan.** Several answers of the broker are put together to one
  snapshot, and a plan is made of it in rounded amounts. Correct: every share is
  counted once, the cash target is kept, no class is bought past its band, and
  planning again comes to an end.
* **Gate and claim.** A verdict on eight pieces of evidence of different ages is
  used a dozen awaits later. Correct: at the claim each is still fresh, the
  market is in continuous trading, the approval is in force, and the reservation
  covers every possible fill.

`PROJECT.json` lists the single hazards, each at its line.

## 2. The modules

```
OrderStates ── LiveOrder ── LiveOrderSafety ── LiveOrderProofs
                                 └─ INSTANCE AccountPromise
MarketGate ── MarketGateProofs
SafetyPolicy ── PolicyProofs
DailyBudget ─┬─ PaperExecution ─┬─ PaperProofs
PaperReplay ─┘             Sums ─┘
     └─ INSTANCE BudgetPromise (DailyBudget)
PortfolioStore ─┬─ Collection ────┐
                ├─ TargetSettings ├─ Portfolio
                └─ PlanRuns ──────┘    └─ PortfolioProofs
SnapshotEvidence ── Rebalancing ─┬─ RebalancingProofs
                            Sums ┘
TossClient ── TossProofs
```

A line means that the module on the right EXTENDS the one on its left. Each `MC*` module fixes
the instance for TLC: symmetry, the plans and looks of the paper runs, the
bounds of the logs, the sessions of the day, the account that is planned.

| Module | Models | State and its source | Actions and their source |
|---|---|---|---|
| `OrderStates` | the ledger's states and legal moves | `guard_order_state_history` (171000), `OrderLedgerState` | `MayMove`, `FillsAgree` |
| `LiveOrder` | the LIVE orders of an account, the requests working on them, the broker | `state`, `fill`, `bound` = last `order_state_history` row; `released` = reservation; `rows` = authorization A, claim B, evidence and cancel rows; `pc`, `job`, `memo` = where a request is and what it remembers; `wire`, `status`, `done`, `creq` = the network and the broker | one per transaction (`Authorize`, `Claim`, `RecordOutcome`, `BeginRecovery`/`CommitRecovery`, `Record`, `AuthorizeCancel`, `ClaimCancel`, ...) and one per exchange with the broker (`Send`, `ReceiveReply`, `CheckAccount`, `GetOrder`, `SendCancel`, ...), plus `Abandon`, `Expire`, `Age` and the broker's own moves |
| `LiveOrderSafety` | its properties and its fairness | | |
| `AccountPromise` | what the whole path promises, without triggers, claims or retries | `phase`, `traded`, `kept` | `Reserve`, `Dispatch`, `Trade`, `Close` |
| `MarketGate` | one LIVE execution against the clock: eight reads, one judgement, four stored rows, the claim | `answers`, `at` = what was read and when; `risk`, `verdict`, `authority`, `permit` = the rows and their limits; `market`, `approvedUntil` = the day | one per await (`EvaluateRisk`, `Read`, `Decide`, `createLivePreSubmitEvidenceAndLedger`, `composeLiveSubmitRiskDecision`, `prepareLiveSubmission`, `issueLiveOrderSubmitAuthorization`, `claimLiveDispatch`) and `Tick` |
| `TossClient` | calls of the broker inside one engine process | `cached`, `inFlight` = the token and its shared issue; `before`, `holding` = the queues; `ordinal`, `rows`, `checks` = the audit; `valid`, `denied`, `posts`, `took` = what the broker knows | `BeginIssue`, `Enqueue`, `Send`, `Retry`, `Answer`, `TimeOut`, `AuditFails`, `Validate`, `ConsumeAuthorization`, `Lapse`, `TokenAges`, `TokenRevoked`, ... |
| `DailyBudget` | the daily limit and the transaction that creates orders under it | `daily_trade_limit`, `daily_trade_reservation`, one open creation per request | `OpenCreation`, `LockLimit`, `RefuseCreation`, `CommitCreation`, `AbortCreation`, `Book`, `ChangeSetting`, `Midnight` |
| `BudgetPromise` | what the daily limit promises, without transactions, snapshots and locks | `limit`; `day`, `kept`, `traded` of each order | `FixLimit`, `Take` (all orders of a plan at one moment), `Trade` |
| `PaperReplay` | the replay of one order against a look at quote and order book: what each level gives, as far as the better ones left of the order | none: operators, with a reference definition of the best execution (every way to divide the order over the book) | `validateEvidence`, `simulateBookFill`, ... |
| `PaperExecution` | `executePaper` on top of both | ledger state and fill of every order; the loop of each request | `Gate`, `Create`, `Submit`, `Replay`, `Accept`, `Progress`, `CutOff`, ... |
| `SafetyPolicy` | configuration versions, activations, promotions, kill switch | the four append-only logs; the snapshot of each open command; the execution between gate and claim | `BeginCommand`, `LockAccount`, `CommitCommand`, `ReadBack`, `Gate`, `SealEvidence`, `AuthorizePolicy`, `ClaimLocks`, `ClaimChecks`, `ClaimCommits`, ... |
| `PortfolioStore` | the tables on which the next three meet | `snaps`, `versions` | |
| `Collection` | `collectPortfolio` and the lease | `lease`, `runs`, `clock`, `collect` | `AcquireLease`, `Heartbeat`, `LockLease`, `CompleteCollection`, `FailCollection`, `CutOffCollection`, ... |
| `TargetSettings` | `createTargetDraft`, `activateTargetDraft` | `edit`: each open transaction and its snapshot | `BeginDraft`, `CommitDraft`, `BeginActivation`, `CommitActivation`, `EditFails` |
| `PlanRuns` | `createAndStoreRebalancePlan` | `planRun`, `sealed`, `planner` | `CommitStart`, `ReadNewest`, `ReadActive`, `CommitSeal`, `ComputeAgain`, `FailRun`, ... |
| `Portfolio` | the composition | | the actions above, interleaved |
| `SnapshotEvidence` | what a snapshot holds: from the broker's answers to the rows that are stored and to the planner's input | none: operators | `normalizeHolding`, `canonicalHoldingSnapshots`, `canonicalPriceSnapshots`, `buildPlanInput`, ... |
| `Rebalancing` | the plan made of it and the account it is traded on | `qty`, `price`, `money` = the account; `target` = weights, points and managed cash; `plan` | `ApplyTarget` (with `TargetSettingsDraftInputSchema`), `Calculate` (both passes of `calculatePlanWithPreflight`), `Trade` (only what the limits of exposure let through), `PriceMoves` |

The mapping of every definition to its lines is in `PROJECT.json`.

### How the database is modelled

* A READ COMMITTED transaction is split at each statement whose result is used
  after another transaction may have committed; a row lock it holds in between
  is state (`lease.locked`, `HOLDING`).
* A Serializable transaction takes its snapshot with its **first statement**,
  so before it waits for any lock. In PostgreSQL, `SELECT ... FOR UPDATE` of a
  row that others have only locked, not changed, does not fail: the transaction
  goes on with the old snapshot. That is why `SafetyPolicy` and `DailyBudget`
  keep the snapshot (`log` at `BeginCommand`, `seen` in a creation) apart from
  the state at commit. What does stop a stale transaction is modelled at its
  commit: unique keys (`NoNewRows` for UNIQUE (account, version), `Unused` for
  UNIQUE (plan_order_id)), and the serialization failure of
  two transactions that each read what the other writes (`Serializable` in
  `DailyBudget`, `Commits` in `TargetSettings`). Serializability protects only
  against other Serializable transactions: claims of LIVE orders and
  collections are READ COMMITTED, and cross them freely.
* `INSERT ... ON CONFLICT` waits for another transaction's uncommitted row of
  the same key (`Inserting`, a locked lease).
* A commit may succeed although its answer is lost; the request then goes on
  as after an error (`CompleteCollection`, `CommitSeal`, `ReadBackFails`).
* A request may be cut off at any step; what it held in memory is gone and its
  locks are released (`Abandon`, `CutOff`, `CutOffCollection`, `EndPlanner`).

What is abstracted: digests, canonical texts, request parsing, authentication
and wording. An identity (a hash, a UUID) is taken for what it identifies.
`LiveOrder` lets the gate of an execution pass or refuse freely: what it decides
on, prices, fees and ages, is `MarketGate`, which in turn has one execution and
no other operation on the order. `Rebalancing` collects and plans in one step;
what may happen between the two is in `Collection` and `PlanRuns`.

The constant `FreshBinding` of `LiveOrder` says whether a later account check of
an order may be audited. As coded it may not (section 6). The safety runs take
`TRUE`, which allows everything the code does and more; the liveness runs take
`FALSE`, the code.

## 3. What the runs check

Every property of a passing run is violated by a small change of a named
definition, the one a plausible bug would make (the operators marked `wrong:` or
`Mutant of` in the modules).

| Run | Bounds | What it shows |
|---|---|---|
| `live_cancel` | one order of 2 shares, 2 requests of any kind, recovery as coded | `LedgerFollowsBroker`, `FinalIsFinal`, `OnlyOperatorUnblocks`, `CancelToken`: late, stale and crossing answers never take back a fill or reopen a closed order; a blocked one is unblocked by an operator's own step only; at most one cancel leaves, under its claim, whether the first is answered or not |
| `live_exposure` | two orders of 1 share, 2 requests (execute, reconcile, recover), recovery as coded | `DispatchToken`, `OneOrderExposed`, `NonDispatchIsExclusive`; and, of every order but one whose claim the recovery has missed (`Overlooked`), `OneBrokerExposure` and `ReservationCoversExposure`; and `KeepsPromise`: the path implements `AccountPromise` except in the steps of that race (`RecoveryRace`) |
| `live_liveness` | one order of 1 share, 2 requests, no cancels, recovery and account check as coded | `UndecidedIsResolved` under `FairSpec` |
| `policy` | 2 operator requests, 1 execution, 3 contents (2 of them LIVE), logs of 2 versions, 3 activations, 3 promotions, 3 kill switch events | `ClaimsUnderCurrentPolicy`, `OnlyOperatorTurnsOn`, `GrantsReviewedConfig` |
| `gate` | one order of 2 shares; ticks of ten seconds, a clock of 5 ticks; 4 sessions, 3 price ranges; ages of 3 and 4 ticks, rows that last 3; 1 answer out of the ordinary | `ClaimedOnFreshEvidence`, `ClaimedInContinuousTrading`, `ClaimedUnderApproval`, `ClaimCoversEveryFill` |
| `toss` | a read of the evidence and a lookup of the live adapter in one group, 2 writes that present the same authorization; 2 tokens | `AloneNeverDenied`, `DeniedTokenIsDropped`, `OneRequestPerGroup`, `NobodyWaitsInVain`, `OneSendPerAuthorization`, `CertainAnswersAreTrue` |
| `paper_budget` | 3 orders in 2 plans, 2 requests, 2 possible amounts, 2 days, replays against the looks of `MCLooks` of which a tenth counts | `OrdersBelongToOneRequest`, `ReservationFollowsLedger`, `BuysAreStored`, `ReplayIsBestExecution`, and `KeepsBudget`: creating and filling orders implements `BudgetPromise` |
| `portfolio` | 2 collectors, 2 settings pages, 1 planner, of which 2 are served at a time; 3 observations, 2 versions, 2 contents | `SnapshotsInOrder`, `OneVersionInForce`, `RunsMatchResults`, `UncheckedPlansAreBlocked`, and `StaleForGood`: what a plan run was started for never becomes current again once it has stopped being so |
| `calc` | 3 instruments in 2 of 3 classes and cash, money 17, 8 holdings to start from, prices 2, 3 and 5, weights in twentieths (one set that does not add up, one for a class without instruments), limits of 9, 14 and 13 twentieths for an instrument, a class and the risky classes, 2 events; one answer of the broker wrong at a time | `CashIsRetained`, `BuysStopAtTheEdge`, `PointsAddUp`, `VerifiedIsPlannable`, `PlansCountEveryShare`, `Settles` |
| `live_recovery_race` (violation) | one order, 2 requests, recovery as coded | the recovery of an authorized order overlooks a claim committed while it waits for its locks |
| `live_lookup_once` (violation) | one order, 2 requests, account check as coded, `LookupSpec` | what the broker does after the first lookup of an order never reaches the ledger |
| `calc_residual` (violation) | as `calc` | a sale that the engine asked no sellable quantity for blocks the whole plan |

**Why the bounds are enough for what they check.** The races of the live path
are between one request that acts and one that comes late for the same order,
or between two orders that want to be exposed: two requests and two orders. Two
shares give a partial fill a before and an after. A third request adds no new
kind of stale memory, and the proofs of section 5 cover any number of them. In
`policy`, three rows per switch are needed for off, on, off; two versions are
needed for an old one to be activated by mistake. In `gate`, five ticks let
every limit run out before, at and after every step, and the sessions cover an
auction ahead, an auction running, a market not yet open and one without
auction; the proofs cover every other choice. In `toss`, a read and a lookup wait for one
slot while two writes compete for one authorization, and two tokens let a 401
arrive for a token that has been replaced. In `paper_budget`, three orders of two plans
fit the smaller limit only in part and the larger one fully; the second day
makes midnight fall inside a creation. In `portfolio` two requests at a time are
the two collectors of a lost lease, or one edit against a collection or a plan;
three observations let a snapshot become stale after a run was started for it.
In `calc`, a class of two instruments and one of one share rounding between
them, prices that do not divide each other leave remainders everywhere, and two
events move a price after a plan and set the target again.

`MaxServed`, `MaxObservations`, `MaxVersions`, `MaxRows`, `LastDay`, `MaxTokens`,
`MaxTime`, `MaxOdd` and `MaxEvents` are bounds of the models, not of the code.
Deadlock is checked except in `gate`, where the one execution ends, in `toss`,
where all calls end, and in `calc`, where the events run out and an account in
balance has nothing left to trade.

## 4. Fairness

Only `UndecidedIsResolved` (`FairSpec`) and `FinalReachesLedger` (`LookupSpec`)
need any.

* `OperatorReconciles`: nothing in the engine runs by itself after a request, so
  an order is resolved because somebody presses "reconcile" again and again and
  not every such request is cut off; strong fairness of the steps of *some* such
  request, not of a given one.
* `OperatorLooksUp`: the same for the lookup of an order and for the operator's
  recovery; and the broker answers a lookup infinitely often if it is asked
  infinitely often. Nothing is assumed of what it answers, nor that it ever
  fills or cancels an order.
* `RequestsEnd`: the platform bounds each request, so that it goes on or is cut
  off.
* `TimePasses`: claims age past the recovery windows and requests on the wire
  arrive or are lost.

Executions, cancels, edits of the settings and collections are never assumed to
happen. `Settles` needs no fairness: planning, trading and the bounded events
come to an end, or they repeat themselves without moving a share.

## 5. What is proved

TLAPS checks the proofs for every value of the constants, under the named
assumptions of the modules (a positive quantity, a mark for "no order" that is
no order, Boolean `FreshBinding`, natural bounds, ages and
amounts, finitely many PAPER orders in plans that are disjoint and not empty,
books that are sequences of prices and quantities, at most the whole book used;
finitely many instruments and classes, whose texts have distinct places in the
text order, positive prices, limits and target weights within the scale).

* `LiveOrderProofs` proves `TypeOK`, `FinalIsFinal`, `OneOrderExposed`,
  `DispatchToken`, `LedgerFollowsBroker`, `OnlyOperatorUnblocks` and
  `CancelToken`, with the recovery as coded. `TypeOK` is not inductive: what a request will write comes from
  its memory. `TypeInv == TypeOK /\ BrokerInv /\ MemoInv` adds that the memory
  was true when it was told and stays true where the broker cannot change it (a
  final state, a lower bound of the fills), and that an order at the broker is
  open exactly while it can trade. `DispatchToken` is inductive beside it: the
  claim is a token held by nobody, then by one armed request, then spent;
  `CancelToken` says the same of the one cancel claim an order ever has.
* It also proves `NonDispatchIsExclusive`, `ReservationCoversExposure`,
  `OneBrokerExposure` and `KeepsPromise`, all with the recovery as coded. The
  invariant is `PromiseInv == TypeInv /\ DispatchToken /\ OneOrderExposed
  /\ WireInv /\ RowInv /\ CloseInv`: requests on the wire were sent once and have
  not arrived; outcomes belong to claimed orders and never to one closed as never
  sent; and a closed order is no exposure and keeps what it traded, unless it is
  `Overlooked`. Exposure follows from it (`ExposureIsClaimed`), and each step
  maps to a step of `AccountPromise`, leaves its variables alone, or is a step
  of the race (`MoveKeepsPromise`, `BrokerKeepsPromise`).
* What is **not** true as coded is that a non-dispatch proof excludes the claim
  (`NonDispatchProvesNoClaim`; run `live_recovery_race`), nor, in consequence,
  that no second order comes near an unsettled one (`docs/SPEC.md:525`) or that
  the path implements `AccountPromise` without exception. Without the exception
  for `Overlooked` orders, TLC finds in `live_exposure` a request that claims in
  the recovery's window, the recovery that closes its order, and a second order
  authorized and claimed while the first is still to be sent. The theorems say
  that such a commit is the only way there: no order is `Overlooked` before one,
  and `RecoveryRace` is the commit and the later fills of its order. A guard that
  counted the claims after its locks would leave no order overlooked.
* `MarketGateProofs` proves the four properties of the run `gate` for any ages,
  sessions, approvals, prices and delays. `GateInv` says, step by step, that
  each time limit is at most every limit it was made from and that the grounds
  of the verdict are not touched after it; the claim compares itself with the
  stored limits, so it is earlier than the first of their grounds. The age of
  the instrument's listing, which no check looks at, follows because the quote
  is read before it. `FundsInv` adds that the verdict reserves the order at the
  highest price it can be filled at, within the day's limit.
* `PolicyProofs` proves `TypeOK` of `SafetyPolicy`,
  `ClaimsUnderCurrentPolicy` from `ClaimInv` (while a claim holds the account
  lock no command commits, so that what it has checked is still so),
  `GrantsReviewedConfig` and `OnlyOperatorTurnsOn`. A command decides on a
  snapshot that may be old when it commits; `LogInv` says that every such
  snapshot is a beginning of the logs as they are now, and since the logs only
  grow and no version is activated twice, what was reviewed in it still is.
* `PortfolioProofs` proves `TypeOK` of `Portfolio`, `SnapshotsInOrder`,
  `RunsMatchResults`, `OneVersionInForce`, `UncheckedPlansAreBlocked` and the
  action property `StaleForGood` for any number of collectors, pages, planners,
  observations and versions. Collections (`CollectInv`): a collector that writes
  has the lease locked in its name and observed later than every stored
  snapshot, and no two have observed at the same time; so what is newest by its
  observation is what was written last (`NewestIsLast`). Settings
  (`SettingsInv`): in the rows a transaction saw at most one version was in
  force, and a transaction nobody has overtaken saw the rows as they are. Plans:
  `PlansMatchRuns` is inductive with its types. That nothing that stopped being
  current becomes current again is the argument of `HistoryInv`: the target of a
  snapshot was drafted from an older one (`TargetOlder`); a version comes back
  only for the snapshot it was drafted from; the commit that retires a pinned
  target overtakes every transaction that saw an older snapshot as the newest,
  and whoever begins later sees this one or a newer one. `StaleForGood` states it
  of every snapshot with a plan run, and needs the run: without one TLC finds a
  target that is retired while the collection pinned to it commits, and returns
  with an activation that was open beside it. The proof also needs that a
  transaction is overtaken by a commit even if later ones put back what it had
  found: comparing the rows with those it saw would not be enough, with four
  requests at a time.
* `TossProofs` proves the six properties of the run `toss` for any number of
  calls, workflows, groups, authorizations and tokens. `IssueInv` says that the
  cached token and a request for a new one exclude each other, `TokenInv` that a
  token is new until it is cached, so that only a token that was handed out can
  be denied, `AloneInv` that whoever has a token has the cached one until
  somebody interferes. `QueueInv` orders the calls of a group: of two in the
  line one waits for the other, and all but the tail are before the tail.
  `SendInv` ties a write that has begun or was sent to its spent authorization,
  and `AnswerInv` an answer to what the broker has done.

* `PaperProofs` proves `KeepsBudget`, `ReservationFollowsLedger` and
  `OrdersBelongToOneRequest` for any number of requests, plans, orders, days and
  amounts. A creation decides on a snapshot that may be old when it commits:
  `LimitsSeenInv` says that a limit it has seen is still the limit, `InsertInv`
  that the limit it inserts is inserted by nobody else, and `RowsSeenInv` that the
  reservations it has seen are still there and have released no less. If no other
  creation of the day has committed since, what is used is at most what was seen
  to be used (`UsageShrinks`), so that what it creates fits beside all that is
  used by then (`CommittedFits`). Hence the refinement: a commit is the step
  `Take` of `BudgetPromise`, with the limit fixed in the same step or before; a
  refused creation at most fixes a limit; a row of a fill is a `Trade`; the rest
  of a transaction, the setting and midnight are no step at all. The invariant
  `WithinDailyLimit`, the same in sums, is proved as well. `WalkInv` says that no order is in two places of the
  requests' queues and that every later order of a queue is untouched; new orders
  cannot be in a queue, because an order in the ledger has a reservation.
* `PaperProofs` also proves `ReplayIsBestExecution`, for books of any length, and
  `BuysAreStored`. Some price divides the book (`BookIsDivided`): every level
  better than it is used up, every worse one is untouched. Exchanging a share of
  any other division for one of the replay's never makes it dearer (`Exchange`),
  and summed over the levels this is `ReplayIsOptimal`. A level's price is at
  most a buy's limit, so that its fill costs at most what was reserved
  (`FillFacts`); `ShotInv` says that what a request is about to store is such a
  fill of the order it works on, and `FillInv` that nothing was filled before.
  The trigger's three conditions on the row follow.
* `RebalancingProofs` proves `TypeOK` of `Rebalancing` and the five invariants of
  the run `calc`, for any instruments, classes, weights, prices and holdings.
  None is inductive alone. `Inv` adds to `TypeOK` that the weights in force passed
  the checks of a draft (`WeightsAreFounded`), that the points of a class add up
  (`PointsOfTarget`) and that a plan is the one its stored basis leads to
  (`PlanIsMade`), so that what was proved of the calculation holds of the plan as
  long as it is kept. Points: what rounding down leaves of an amount is less than
  one for each member, and as many members come first in the order of the
  remainders as there is left to give out (`SharesAddUp`). Cash: dealt out to the
  largest needs first, no prefix of them takes more than there is
  (`TakenInOrder`), and the order of quantities rounded down costs no more with
  its commissions than it was given. Edges: a class is bought up to the first amount
  inside its band, and what its members buy is at most what each lacks of its
  part. Snapshots: in one that is stored as VERIFIED every row is read back as
  what the broker holds, and one that lacks a row is not VERIFIED (`StoredIsHeld`).
* `Sums` is what these proofs need of sums over finite sets and of strict
  orderings. Sums do not depend on the order (`SumAdds`), add up over parts
  (`SumOfParts`), are monotone (`SumAtMost`) and linear (`SumPlus`, `SumTimes`);
  a strict order on a finite set has exactly n elements with fewer than n before
  them (`FirstsCount`). The induction is over sets of numbers and of sets, as
  theorems with operator parameters cannot be used.

**Only model-checked:** the liveness properties, among them that trading comes to
an end (`Settles`): neither liveness nor `ENABLED` is within the provers' reach. The sorts and folds of the code are stated in
the modules as sums over what comes first, which is what made them provable; that
a loop over a sequence computes such a sum was not proved but read.

## 6. Disagreements met, and observations without a run

The violation runs above are the disagreements with a document that have a run;
`PROJECT.json` quotes each under "findings". Seen while modelling, without a run
of their own:

*Live orders*

* An order the recovery has closed although it was claimed stays REJECTED for
  ever: a reply that finds it at the broker is refused by the guard, its fills
  never reach the ledger, and its reservation is gone (`170000:154`,
  `prisma-order.repository.ts:862`).
* An UNKNOWN order whose broker id is known is only looked up: `reconcile`
  never reaches the ten-minute rule of `docs/SPEC.md:467` while lookups fail
  (`orders.service.ts:593`).
* An order claimed but never received by the broker ends in UNKNOWN_BLOCKED and
  stays there: `recoverUnknown` settles an order only by a lookup that finds it
  (`orders.service.ts:540`). It blocks the account until then.
* After an accepted cancel the guard takes nothing but CANCELED for the order,
  so that a fill which won the race at the broker can never be recorded
  (`orders.service.ts:594`; ADR 0004 settles the final state by looking up the
  original order).
* A partially filled order whose cancel is pending is PENDING_CANCEL for the
  adapter (`live-order-adapter.test.ts:573`) and PARTIALLY_FILLED for the
  database (`expected_broker_normalized_state`, 167000:1111): the observation
  is refused.
* The account check of a cancel is audited under the order's id as well
  (`orders.service.ts:311`) and has the same fate as a second lookup. The cancel
  gate judges a context read before that check; the claim's guard catches what
  has changed.
* A refused cancel can never be repeated: one cancel claim per order, ever.
* A submit reply that arrives after the order was moved to UNKNOWN_BLOCKED is
  refused, and the broker id it brings is lost (`prisma-order.repository.ts:862`).
* Nothing keeps an operator from binding two ledger orders to the same broker
  order (`orders.service.ts:505`).
* A broker order time outside the dispatch window, from clocks that disagree,
  makes every later observation of the order unrecordable
  (`orders.service.ts:1493`; such orders are `late` in the model).

*Gate and claim*

* No check looks at the age of the instrument's listing; it is fresh only
  because the quote is read earlier. The context of the gate is read before the
  account check but is stamped with the time after it.
* The database knows nothing of auctions: only the verdict's end carries them.
  Its own limit of 30 seconds is fixed; the configured ages are the engine's.
* The limits of a single order are checked with the planned amount, while a
  sell reserves at the day's upper price: its fills may exceed the single-order
  limit, though never the reservation or the day's limit.
* One configured age serves for the quote and for the pretrade answers.

*PAPER orders*

* The gate's check that no order is open is repeated for LIVE orders by the
  authorization, but not by the transaction that creates PAPER orders: two
  executions of different plans may pass it together (`docs/SPEC.md:525`).
* A sell is reserved at its limit price and replayed at the bids, which may be
  higher; the guard then refuses the fill and the request fails
  (`orders.service.ts:758`; `docs/SPEC.md:641`).
* Nothing resumes a PAPER order whose request was cut off
  (`orders.service.ts:773`; `docs/SPEC.md:663`).

*Configuration and console*

* After a committed command whose answering read fails, the operator is told
  that nothing was changed (`operational-config.service.ts:187`, `:284`).
* Engaging a kill switch that is engaged in the command's snapshot answers
  "unchanged" although a concurrent release may commit; both requests overlap,
  and no document promises more.
* `saveTargetDraftAction` activates the draft version it reads again, which may
  be another page's draft, and reports success; saving a content equal to the
  active one yields no draft and ends in an error.
  `setLiveTradingFromShellAction` says in its catch block that trading was not
  switched on although the grant may have been committed.

*Snapshots and plans*

* A rebalance run whose request is cut off stays RUNNING, and its deduplication
  key refuses another plan of that snapshot until a new one is collected.
* A draft may be activated on a Serializable snapshot while a READ COMMITTED
  collection commits a newer portfolio snapshot; `docs/SPEC.md:574` says the
  latest one is read again. No plan results: the next one needs a collection
  under the new target (`UncheckedPlansAreBlocked` holds all the same).
* `sealRebalancePlan` also returns null when a clock has stepped back behind
  the start of the run. The second calculation, made for a stale identity, then
  uses the plan's base input without the broker's answers. The model's clocks
  do not step back.
* A need to sell that is too small for any order, with nothing else to sell,
  defers all buys, in every plan (`docs/SPEC.md:287`).
* Instruments of a class inside its band are still traded towards their points
  (`docs/SPEC.md:284`, `:659`), and a selling phase may push a class below its
  band, since what would be bought is deferred (`docs/SPEC.md:285`).
* The spendable cash does not subtract the `reserved_cash` of
  `docs/SPEC.md:304`, and the rounded projection of `docs/SPEC.md:344` is
  stored but never blocks a plan. Managed cash is fixed in won when the target
  is saved (`prisma-portfolio.repository.ts:1284`) and not updated by fills.
* A Korean quote that is not in whole won passes the collection only for an
  instrument that is not held, and then blocks the plan for a missing price.

*The broker's client*

* An authorization's end is checked once, before the intent is stored, a token
  is issued and the request is queued: the order may be sent after it
  (`order-write.ts:244`; `docs/API_TOSS.md:259`).
* A 401 drops whatever token is cached (`client.ts:80`), which may already be a
  newer, good one; the next call then issues another, and the good one dies.
* When no token can be issued, the submit was never sent, yet it is classified
  as ambiguous and the order becomes UNKNOWN (`live-order-adapter.ts:671`).
* What the live order adapter looks up is parsed but leaves no
  `broker_response_validation` row, unlike every read of the read source
  (`live-order-adapter.ts:258`, `toss-read-source.adapter.ts:600`).
* The row of an attempt is written after it was sent: a crash in between leaves
  a request the audit does not know.

## 7. What is not modelled, and the plan

`PROJECT.json` names the status of every component. Not modelled, and why:

* the console, its screens and presenters, the engine's HTTP surface: they keep
  no state of the system. Every call they make is a request of a model, issued
  in any order; what their messages get wrong is in section 6;
* digests, canonical texts and client order ids: an identity stands for what it
  identifies, and collisions of hashes are not a question for a model;
* the generated broker schema, the prototype, the design and deployment files;
* the CANCEL_REJECTED and REPLACE_REJECTED actions, which no path of the engine
  turns into a row of an order;
* the TARGET policy of managed cash, which no path reaches, custom bands, the
  limit of turnover, the exchange rate;
* liveness of PAPER orders, since as coded nothing resumes one.

Done, in the order of what can lose money first: the live order path and its
proofs; policy, budget and paper execution; the portfolio store; then the broker's client
and the one-shot authorization with their proofs, the rebalancing calculations
over collected snapshots, the gate against the clock with its proofs, the
replay of PAPER orders, the budget's promise, and the proofs of the budget, the
replay and the calculations. Left:

1. `LockOrder`: the row locks of every transaction in the order they are taken,
   and which cycles only PostgreSQL's deadlock detection ends.
2. The chains of the console (`actions.ts`), composed with `SafetyPolicy` and
   `Portfolio`.
3. An abstract specification of the store of snapshots, which only grows
   (`Collection` implements it).

One run stays for each question; where a new module shares its configuration
with an old one, they share the run.
