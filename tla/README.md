# AutoMoney in TLA+

A verification development for the trader in `src/src/trader/`: TLA+ modules of
its order paths, TLC runs over small instances, and TLAPS proofs for all values
of the constants.

    tlc -config LiveControl.cfg MCLiveControl.tla     # one run; see the table below
    tlapm LiveControlProofs.tla                       # the proofs; also of
                                                      # LiveRefinementProofs, LiveRulesProofs,
                                                      # SoakProofs, AcceptanceProofs, PaperProofs,
                                                      # ExperimentProofs, AiCycleProofs

## 1. The system

One Python package, several programs that share SQLite files and lock files.

| component (files) | state it keeps | operations | what makes it correct |
|---|---|---|---|
| **Live control** `live_control.py` | the `live_state` row: ledger cash and BTC, bound account base, pending id, proposal, loss latches, trades, approved addresses, `armed`, last slot | `ip-check`, `preflight`, `prepare`, `approve`, `reconcile`, `resume`, `stop` | an order is sent at most once and never forgotten; books and account agree; a stop stops |
| **Automatic runner** `live_auto.py` | `armed` and `lastSlot` in the same row | `arm`, `run` (one cycle per slot), `disarm` | one evaluation per five-minute slot; never submits a proposal the operator prepared |
| **HTTP control, egress** `live_server.py`, `egress.py` | none of its own | requests become the operations above; a thread checks the address | an address that moved takes the proposal away |
| **Exchange adapter** `exchange/binance.py`, transports | rate-limit and clock offset in memory, one-use grant | `place_order`, `reconcile`, `cancel_order`, reads | a lost reply is queried, not repeated |
| **Submission journal** `storage/exchange_journal.py` | `exchange_submissions` | `claim`, `expected_request`, `observe` | an id is claimed once, with one request |
| **Persistent stop** `safety/kill_switch.py` | `system_state.killed` and its reason | `kill`, `trip`, `resume` | read at every look, by every process |
| **Testnet worker** `testnet_soak.py` | the `soak_state` row, `soak_events` | `run`, `stop`, `recover-read-failure`, `recover-pending`, `recover-transient`, `resume-reconciled` | as live control, and: repairs accept only an explained account |
| **Testnet acceptance** `testnet_acceptance.py` | `acceptance_runs`, the journal and the stop of its own database | `--execute-testnet`, `--resume-testnet`, `--stop`, `--check-auth` | one purchase and one sale however often it is repeated; PASS only for an account these two explain |
| **Readiness** `live_readiness.py` | none; reads the worker's database | `assess` | production orders are released on its verdict, so the verdict must stay true |
| **Risk** `risk/` | daily-loss latch, opening equity | assess a proposal | no entry past a limit |
| **Paper engine** `execution/paper.py`, `portfolio/`, `execution/filters.py`, `strategy/budget.py` | portfolio, ledger, decisions | one idempotent `step` | a step is applied once; equity adds up |
| **Experiment** `experiment.py` | comparison.db and one database per arm | sample a bucket, settle, stop | every arm sees the same buckets |
| **AI worker** `local_ai.py`, `scheduler.py`, `strategy/ai_strategy.py`, `strategy/prefilter.py`, `strategy/budget.py` | the simulated account in its own database, the rows of its calls | rounds over the symbols: collect, ask, recheck, `step` | a late answer is not used; budgets promise what the risk engine accepts |
| **Observations** `shadow.py` | `AI_SHADOW_STARTED` reservations | `observe` behind a question that was spared | they keep their distance, pairs alternate |
| reports, dashboard, research, bridge | none | read only | - |

How they interact: the processes of the live path (HTTP control, the automatic
runner's loop, its disarm) exclude each other by `control.lock`, those of the
testnet worker by `worker.lock`; the *stop* of either takes no lock and writes
`system_state` at any moment. Every lock holder copies a whole row at its start
and writes the whole row back at every save. Orders pass
`place_order` -> journal claim -> last look at the stop -> POST -> query by id.
The live path reads the testnet worker's database through `assess` before it
releases an order.

What is hard here: a process may die between any two of those writes; a reply
may be lost and the order still execute, at once or after the query that did
not find it; a save may fail after memory has changed, and the handler's own
save then persists that memory; the stop lands in the middle of other
operations; operator commands come in any order; UTC midnight falls between a
check and an execution; a model answers minutes after it was asked; a request
to the exchange may need another one inside it, sleep, and be retried.
`PROJECT.json` lists each of these under `hazards` at
the line where it bites.

## 2. The modules

| module | models | extends |
|---|---|---|
| `LiveControl` | live control, automatic runner, address monitor, `place_order`/`reconcile`, grant, journal, stop, and the account and exchange around them | |
| `OrderOnce` | what an order path promises: intended, sent, executed, booked, each once, one order at a time | |
| `LiveRefinement` | the mapping under which LiveControl implements OrderOnce | `LiveControl` |
| `LiveControlProofs`, `LiveRulesProofs`, `LiveRefinementProofs`, `SoakProofs` (also of `SoakReport`), `AcceptanceProofs` | theorems and proofs | the module they are about, TLAPS |
| `PaperProofs` | lemmas about the simulated account: sums, amounts, assessment, fills | `PaperArm`, TLAPS |
| `ExperimentProofs`, `AiCycleProofs` | theorems and proofs | `Experiment` or `AiCycle`, `PaperProofs` |
| `Soak` | the testnet worker with its stop and four repairs, and the readiness verdict | |
| `SoakReport` | the readiness report that is read while the worker writes | `Soak` |
| `PaperArm` | one simulated account: what a step of the paper engine, with the risk checks and the rounding, makes of its ledger (operators, no state) | |
| `Experiment` | the comparison worker: rounds, arms, commits, published samples, the stop | `PaperArm` |
| `Adapter` | one HTTP request of the exchange adapter, from call to answer or error | |
| `Acceptance` | the testnet acceptance command on top of it, with `place_order` and `reconcile` request by request, the stop and the exchange | `Adapter` |
| `AiCycle` | the local AI worker with its observations and the simulated account | `PaperArm` |
| `MCLiveControl`, `MCSoak`, `MCSoakReport`, `MCExperiment`, `MCAcceptance`, `MCAiCycle` | instances for TLC | |

### LiveControl

Durable state is `disk` (the row), `killed`, `journal`. The lock holder has a
program counter `pc`, the operation `op`, the check it is in (`phase`), its copy
of the row `mem`, the order under way `ord`, the last quote, the address resume
saw first (`before`) and the transport's one-use `grant`. Around it move the
exchange (`ex`, `fill`, `funds`), the clock, the stop (`EmergencyStop`), a crash
at any step, and deposits behind the ledger. `posts`, `minted`, `lateStop`,
`evals`, `lossDays`, `ext` are history that properties read.

An operation is a chain of actions, one for each stretch of code between two
points where something outside can be seen or can intervene: `Begin...` (guards
and the copy), `IpVerified`/`IpRefused`/`AcceptIp`, `Released`, `Preflight`,
then for resume `Resume`, for arm `Arm`, for the cycle `ClaimSlot`, `Offer`,
`GatePassed`/`GateClosed`, `Act`, and for a submission `Intend` (the intent is
saved) `Place`, `Claim`, `Recheck`, `Send`, `Answered`/`NoAnswer`, `QueryFound`,
`VerifyFound`, `Book`. Each place where the code raises has a step of its own,
down to the handlers: `Halt`, `Park` for the automatic runner, `Unresolved` for
a submission. The two saves whose failure has an effect beyond a crash are
`IntendUnsaved` and `BookUnsaved`: memory has changed, the handler saves it.

Left out: the label `status` and the counter `orders` (always the number of
trades); log lines; the separate fee asset (folded into a fill's amounts); bid
and ask are one price. Refusals whose reason the model does not carry
(permissions, policy or key change, testnet evidence, environment switches, a
stale price) are `Refused`, possible wherever the code raises.
`LIVE_IP_GUARD` is taken to be on. The runtime event of the stop is not needed:
each operation builds a new `KillSwitch`. The clock does not go back. Three
failures are folded into others: a malformed time reply before the POST goes to
`Unresolved` without the query for an order that is not there; an automatic cycle
whose completion is not saved, and an operation whose reply cannot be made behind
a booked fill, stop and disarm, which is what a stop and a `disarm` behind them do.

### Soak

`disk` is the `soak_state` row, `log` what `soak_events` tells its readers (the
FILL events in order, how many precede the present window, whether BLOCKED
occurs in it), `killed` and `reason` the stop, `journal` the submissions. The
holder of `worker.lock` has `pc`, `op`, its copy `st`, the order `ord` and the
exception `err`. `run` is the loop `Loop`, `Settle`/`SaveFill`, `FundsMatch`,
`Hold` or `Trade`, `Intend`, `Claim`, `Send`, ..., `Wake`; its two handlers are
`Retry`/`GiveUp` and `Block`/`BlockedSave`. Each repair is a `Begin...` with the
code's guards followed by its checks and its commit; in `recover-read-failure`
the stop is lifted before the new window is saved (`ClearFault`, `Renew`), in
`resume-reconciled` after (`Renew`, `Resume`), as in the code. A POST that does
not leave ends in `NotSent`, or in `ClockUnread`: an unreadable reply about the
server's time looks to `place_order` like an unreadable order, and it queries one
that was never sent. `Passed` is `assess`.

`SoakReport` reads for that verdict as `read_report` does: `ReadRow`, `ReadLog`,
`ReadSwitch`, with anything of `Soak` in between; `report` says how far a report
has come that may still pass. One thing may not happen between the row and the
log: the clock does not tick (`ReportNext`). A read that lasted for a whole new
observation, a purchase and a sale with a cooldown between them, would mix two
windows; TLC shows that without the bound. The readings are milliseconds apart.

An order is named by the number of its evaluation, because the code derives the
client id from that number and from a start time that repairs keep.

Left out: the `status` command, equity and diagnostics in the row, the policy
refusal on a used ledger (it ends the run without effect). `Amounts`, `Prices`
and the limits are small numbers; the strategy's choice is free. `MayTrip`
stands for the adapter's own stops. The copy of the database that a report makes
when the worker is gone (`readonly_connection`) is its reading at one moment.

### PaperArm and Experiment

An account is a record: `open`, `cash`, `realized`, quantities and cost basis by
symbol, the ids of evaluated candles (`cycles`), the newest risk day with its
opening value and loss latch, and the trades. `Baselined`, `LossTriggered`,
`UnderLimits`, `BuyApproved`, `SellApproved`, `Bought` and `Sold` are the stages
of `step`. The whole step is one transaction, so `Experiment` has two actions
for it: `Propose` is the assessment, the first look at the stop, and `Fill` the
second look with the commit; `FillStopped` is the second look raising. `Pass` is
a step that trades nothing. A stop between the second look and the commit is
the same as one behind the commit, as nothing looks again.

The worker goes `Collect`, `Sample` (the clock is read, the inception is
saved), `Repeated` or, for each arm, `EnterArm`, its steps and `Mark`, then
`Publish`, and sleeps until another bucket (`Wake`). A crash may come anywhere;
the next start meets the same bucket with another observation. An observation
remembers when it was fetched (`seen`) and when the round was stamped (`at`);
they may fall in two buckets, and `Newest` is the candle the code then takes
for the newest closed one. Prices are free in every fetch, the prices of each
midnight are fixed in `opens`.

Left out: the strategies' signals, confidence and estimated costs, exchange
filters and the average price (`Pass` is possible whatever they say); bid and
ask apart from the last price; the fees column, portfolio snapshots and the
error log (written, never read by the worker); the alternation of the symbols'
order (both orders are always possible); a bounded number of cycles (its end
is a `Crash` in `sleep`); the adapter's own stops, which are a `Kill` at that
moment (that the process which gave one stays stopped until its end is a
`Resume` that comes no earlier); the refusal of an account whose value at midnight
is zero; one clock for the observations of both symbols in a round. Money and lots are whole numbers, rounded down.

### Adapter and Acceptance

`LiveControl` and `Soak` take a request for one step with an outcome. `Adapter`
opens it up: `frames` is the stack of requests under way (the synchronisation of
the clock is a request inside a request), `at` says where the innermost one is,
`age`, `quiet` and `nap` are what `_synced_at`, `_blocked_until` and `sleep`
mean to it, counted down. `Synchronize`, `Enter`, `Send`, `RetryLost`,
`RetryLimited`, `WakeUp`, `Resync`, `Synchronized` are the lines of `_request`
in their order; `Answered` and `Raises` are how it ends, guards to which the
caller conjoins what it does next. `Raises` lists the errors with the stop each
trips and the limit it leaves behind for the requests that follow (`Limits`).

`Acceptance` is `run` of `testnet_acceptance.py` with its process: `pc` names the
request it is waiting for (`KindOf`), so `order1`/`fills1` are the two requests of
the `reconcile` inside `place_order` and `order2`/`fills2` those of the one behind
it. `saved` are the rows, `state` the process's copy, `journal` the quantity
claimed for an id. `Block` is `main`'s handler. A resumption (`BeginResume`,
`Examine`, `Resolved`, `Lift`) has an adapter without stop or transport
(`armed` is false): what it meets trips nothing. Both hold `worker.lock`, so
there is one process; `Stop` and `Crash` come at any step, `Execute` lets an
order that was sent execute whole or in part at any later moment, at a fee that
is a part of what the execution brings, `External` moves the account.

Left out: paging of fills; the count of failed requests behind
REPEATED_EXCHANGE_FAILURES (one of the stops a refusal may trip); reasons of
parsing, filters and metadata (`Refused` wherever the code raises one); several
fills of one order (one fill with its fee in the asset bought for a purchase, in
USDT for a sale); the three market reads before a size are one; a retry that
sleeps longer each time sleeps `Backoff`. `cancel_order` is called by no program.
The `order` field is taken to answer the request (a mismatch is `Malformed`).

### AiCycle

`arm` is the account of `PaperArm`, `shadows` the reservations, `killed` the
persistent stop and `tripped` the worker's own event. The worker goes round its
symbols (`Round`, `Rest`, `Wake`); one symbol is `Collect`, then `Skip` by the
prefilter or `Ask`, `Answer`, `Refetch`, `Recheck`, and `Execute` or `Hold`, as in
`run_paper`. `ai` is the call with its answer and diagnostics; `Verdict` is
`revalidate`, `Stands` is `propose`, and `Outcomes` what `step` then makes of it,
with the risk checks of `PaperArm`. The clock may tick between any two of these. A
spared question leads to `observe`: `Reserve`, then `AskVariant` and `Complete` for
each variant. `based` is history: the call each trade was made on. The price at
midnight, which opens a day, is chosen apart from the quote, and anew in each
evaluation.

Left out: the day's realised result among what the model is shown (it changes only
with the day's trades, which are kept); the collection of all symbols has one time; confidence, edge, filters and
the direction rule (`Hold` and `Ask` are always possible); observations are
switched on; a refreshed quote is never older than the one before, so
AI_REFRESHED_QUOTE_STALE means a wait behind the fetch; prompts, redaction and the
stored text of calls; `open_account`'s refusal of changed settings (the worker
does not start); other worker programs (`paper-run` has no AI strategy).

## 3. The runs

All runs check for what TLC reaches from the initial state with no
restriction but the bounds. Every system may come to rest (the clock is
bounded and the operator need not act), so deadlock is not checked.

| run | shows | bounds |
|---|---|---|
| `live_control` | the `Inductive` invariant of the proofs and its corollaries `NoOrphanOrder`, `Books`; `ProposalMatchesMode`, `OneEvaluationPerSlot`, `DailyTradeLimit`, `Spaced`; of steps, `StopHaltsPosting`, `NoBuyAfterLoss`, `ResumeOnlyWhenSettled` | 2 orders, 1 address, 2 prices, clock 0..3 over a midnight, 1 trade a day |
| `live_account` | `TypeOK` and `RefinesOrderOnce` with a deposit behind the ledger and executions it cannot pay | 2 orders, 2 prices, 2 addresses, clock 0..1 |
| `live_late_stop` | violation: a stop during a resume is erased by it | 1 order |
| `soak` | the `Inductive` invariant of the proofs, `SentOnce`, `RepairFindsAllBooked`, `OrderOnlyWhenMatched`; of reports begun and continued at any step, `ReportIsTrue` | clock 0..5, windows of 2, 2 counted evaluations a window, restarts behind either, 2 trades a day; the clock stands between a report's first two readings |
| `soak_days` | `ExecutionsSpaced`, `NoBuyAfterLoss`, `VerdictStands` | 2 prices, windows of 3, 3 evaluations, a day of 3 units, clock 0..4, 2 trades a day |
| `soak_ends` | `RunEnds` under `FairSpec` | one window, clock 0..2, an execution may cost more than the ledger has |
| `soak_refill` | violation: a fill is booked twice | two windows, clock 0..5 |
| `experiment` | `OneFillPerCandle`, `TradesSpaced`, `PublishedIsFinal`; of steps, `RoundIsWhole` | 2 arms, 2 symbols at one price, clock 0..2, days of 2 buckets, hours of 2, the stop in use |
| `experiment_arm` | the `Inductive` invariant of the proofs, `BooksBalance`, `OpeningIsMidnightEquity`; of steps, `NoBuyAfterLoss` | the five-minute arm, 2 symbols that move between 2 prices, clock 0..2, no stop |
| `acceptance` | the `Inductive` invariant of the proofs, `OneRoundTrip`, `PassIsRoundTrip`, `HoldingsKept`; of steps, `ResumeOnlyWhenSettled`, `QuietWhileLimited`; `CommandEnds` under `FairSpec` | 2 run ids, orders of 4 lots in steps of 2 at one price, 1 movement by others, 2 attempts a read, waits shorter and longer than what is slept through |
| `acceptance_auth` | violation: a stop for an authentication failure is stored under another reason | as `acceptance` |
| `ai_cycle` | the `Inductive` invariant of the proofs, `FreshTrades`, `ShadowSpaced`, `BudgetCovers` | 2 symbols, 2 quotes (one symbol moves within the drift limit, one beyond), clock 0..2 over a midnight, 1 trade a day |

Two orders suffice for the live path since a row holds one pending order and
one proposal: the second order is the one that must not start too early, and
ids are interchangeable (symmetry). The clock covers a proposal that expires, a
cooldown that ends, a new slot and a new day.

The verdict on the testnet worker takes two evaluations (a buy and a sale), and a
third to break it, for which the window of `soak_days` has room. In `soak` a
run may also start behind the second evaluation, so that a finished observation
meets the worker again, and the clock leaves room for a repair to open another
window while a report is under way.

Bounds of the model are the constants so named: `MaxTime` (where the clock stops,
windows are opened only if it can outlast them, the last sleep ends there),
`MaxExternal`, `MaxCycles` (the count stays there and nothing is traded),
`LastStart`, `MayStop` (whether the operator uses the stop).

The experiment's question has two halves with little in common, what happens
between the arms and the published samples and what happens inside a ledger, so
the first run has two arms at a constant price and the second one arm at moving
prices. Three buckets give a day with two evaluations and a new day after it; a
bucket missed because of a crash or a refusal makes the first evaluation of the
day a late one. The order limit makes a sale leave part of a holding. A symbol's
name matters nowhere, hence the symmetry; the prices are the same for both
symbols, so the set of quotes is symmetric too.

In `acceptance` a second run id is what may start too early; the account can pay
for a second round trip when the outside movement has helped it, and otherwise
refuses. A purchase of 4 lots less its fee leaves a sale that must be rounded,
and may execute by half. Two attempts and two clock ages make every path through a
request possible; a third attempt repeats the second. There is no symmetry
reduction because `CommandEnds` is checked. In `ai_cycle` the clock has room for
an answer that is too old, a question before and an execution after midnight, an
order of the symbols that turns, a purchase with its sale the next day, and two
pairs of observations; `MaxAge` is one unit, so an answer is used, or is too
late, by one tick.

Fairness: safety is checked without any. `RunEnds` assumes that the lock holder
is scheduled (`WF(Worker)`) and that time passes (`WF(Tick)`). The worker never
waits for a lock or a peer: its network calls have timeouts and either answer
or raise, and both are steps. Nothing is assumed of the exchange or the operator.
`CommandEnds` assumes the same of the acceptance command (`WF(Process)`,
`WF(Clock)`): requests have a timeout of ten seconds, and a sleep ends as time
passes. `AiCycle` claims no liveness: its worker is meant to run on.

### Where the code and its documents disagree

* **A late stop is erased by a resume** (`live_late_stop`,
  `live_control.py:417`). The stop takes no lock and answers at once; a resume
  that is between its remote checks and `switch.resume()` does not look again.
* **A fill can be booked twice** (`soak_refill`, `testnet_soak.py:508`). A
  renewed window counts its evaluations from zero with the old start time, so
  it makes the ids of the old window again. A crash just behind the saved
  INTENT then finds the old order in the journal and books its fill once more.
  The next account comparison notices, unless the window ends first (line 396).
* **An authentication failure is renamed** (`acceptance_auth`,
  `exchange/binance.py:336`). Met inside `reconcile`, it trips its own stop and
  then RECONCILIATION_REQUIRED, which overwrites the reason; `--resume-testnet`,
  which the documentation prescribes for this case, goes by the reason and
  refuses.

Four more were met and are not among the runs. The first three have their
action property in the module; under PROPERTIES in the `.cfg` given, TLC shows
each violated.

* A refused resume approves the address (`live_control.py:413`): it is saved as
  approved before it is compared with the one seen first, and the refusal does
  not take it back. `ApprovedOnlyIfUnmoved`, `LiveLateStop.cfg`.
* A repair lifts a manual stop (`testnet_soak.py:542`): the worker's handler
  overwrites the operator's reason. `RepairSparesManualStop`, `SoakRefill.cfg`.
* An open candle passes for a closed one (`experiment.py:197`): candles are
  filtered by a clock read after they were fetched; one that ends in between is
  evaluated as it was, and never again. `ClosedCandlesOnly`, `Experiment.cfg`.
* Pairs of observations alternate by the parity of half the number of starts
  (`shadow.py:97`); single observations between two pairs, after a restart with
  another setting, upset it. `ShadowSpaced` speaks of pairs that follow each
  other directly.

A stop given during `--resume-testnet` is lifted by it (`testnet_acceptance.py:130`):
the race of `live_late_stop` again.

## 4. The proofs

`LiveControlProofs` proves, for all constants that satisfy the three named
assumptions of `LiveControl` (the sentinel is no id, sets of positive numbers,
limits are naturals):

* `InvariantHolds`: `Spec => []IInv`, and from it `TypeCorrect`, `NoOrderIsLost`
  (`NoOrphanOrder`), `BooksBalance` (`Books`), `NothingOfferedWhilePending`
  (`PendingExcludesProposal`, in the runs a part of `Inductive`);
* `ResumeFindsAllBooked` (`ResumeOnlyWhenSettled`) and `StopIsFinal`
  (`StopHaltsPosting`), as action properties.

`NoOrphanOrder` and `Books` are not inductive: they speak of the row on disk, but
whether a step keeps them depends on what the lock holder is about to save.
`IInv` adds `OrderInv` (how the journal, the exchange and the number of POSTs of
an id go together), `RowInv` (what a stored row may say), `CopyInv` (how far the
copy in memory may differ from the row at each program counter: not at all, by
a proposal, by the intent, or by the one booked fill) and `FlowInv` (which
operation and phase each program counter belongs to, and what has been
established there). The induction has one lemma for each group of actions, and
within it one step for each action; conjuncts an action cannot touch
are disposed of by small frame lemmas. `StopIsFinal` needs one auxiliary
invariant, that `lateStop` records a stop behind the last look.

`LiveRefinementProofs` proves `OrderPathIsOnce`: `Spec => RefinesOrderOnce`. An
order's stage is read off the row, the exchange and `posts` only; with `IInv`,
every action is a step of `OrderOnce` or a stutter.

`LiveRulesProofs` proves what counts or orders executions over time:
`SlotsAreEvaluatedOnce`, `ModesStayApart` (`ProposalMatchesMode`),
`ExecutionsAreSpaced`, `DaysStayWithinLimit`, `LossesStopBuying`. A trade is
booked long after the limits were looked at, so these need a second
strengthening on top of `IInv`, `RulesInv`: that what was checked before an intent
is saved still holds of the row while the order is under way, and that nothing
else is booked meanwhile. `Inductive` is `IInv /\ RulesInv`.

`SoakProofs` proves all safety properties of the testnet worker from one
`Inductive`: `SentOnce`, `ExecutionsSpaced`, `RepairFindsAllBooked`,
`OrderOnlyWhenMatched`, `NoBuyAfterLoss`, `VerdictStands`, and on top of it
`ReportIsTrue` of `SoakReport`. Its layers are the types
of the row and of what surrounds it (`RowOK`, `WorldOK`), the orders
(`OrdersInv`), the lock holder at each program counter (`HolderInv`), how the
ledger and the account stand to each other (`PhaseInv`), the spacing of the
executions (`SpaceInv`) and the losses (`LossInv`). The difficulty is that this
program does not always know its own state: an order can be booked twice
(`soak_refill`), and a lost one is found by nobody. The invariant therefore
distinguishes three phases: the books are right, an order has been counted once
too often, an order has been lost; and says that the second and third are left only
through a stop that no repair lifts. The limits hold for late executions because
room is kept for the one order that is named.

A report is true at its end (`ReportsAreTrue`) because of what may become of a
completed row that was read (`ReportInductive`): it stays; or a stop met by the
worker blocked it for good, and the report will read that stop (`Shut`); or a
repair opened a new window this very moment (`JustOpened`), whose log cannot hold
two executions yet, as they are a cooldown apart. `ReportsLeaveSoak` carries the
invariant of `Soak` over. This assumes a positive cooldown.

`AcceptanceProofs` is about `Acceptance` with `Adapter` in it. The request under
way comes first (`RequestInv`: a request inside another is the one for the
server's time, and a limit still in force means nothing is about to leave), then
each order by itself (`OrderInv`), the sale against the purchase (`SaleInv`), the
rows against each other (`RowInv`), the points of an execution (`RunInv`, `LegInv`,
`SizeInv`), those of a resumption (`ResumeInv`), and the holdings. `OneRoundTrip`,
`PassIsRoundTrip`, `HoldingsKept`, `ResumeOnlyWhenSettled` and `QuietWhileLimited`
follow. `HoldingsKept` is the least obvious: an order may execute at any later
time, so the invariant must know that at most one run has orders that can
(`RowInv` with `PassIsRoundTrip`), and that its sale was sized when the purchase
was final.

`PaperProofs` has the lemmas that both users of `PaperArm` need. The balances of an
account are compared with sums over its trades and its symbols, and the community
modules' `SumFunctionOnSet` adds in an order nobody knows (a `CHOOSE` at every
step). The first lemmas show that this order does not matter: `SumTake` takes any
element out of a sum, by induction over the subsets of a finite set. Then come
the amounts (division, fees, lots, days), and what the stages of a step do to a
sound account: `Assessed` leaves its books alone, and `Bought` and `Sold` are each a
`Posting`, one execution more with what it moves (`BoughtPosting`,
`SoldPosting`), which keeps the account sound when it was within its limits
(`PostingSound`).

`ExperimentProofs` proves everything the runs check of `Experiment`: `BooksBalance`,
`OneFillPerCandle`, `TradesSpaced`, `OpeningIsMidnightEquity` (`OpeningHolds`),
`PublishedIsFinal`, `NoBuyAfterLoss` and `RoundIsWhole`. Its `Inductive` is the soundness of
each ledger (`ArmsSound`), of the newest sample (`SampleSound`), of the history of
losses (`LossesKept`), of the clock (`WorldSound`) and of the worker between two
steps (`WorkerSound`, with `OrderSound`: an order that was approved is still approved
when it is filled, because only a stop comes in between). Two properties speak of
the past: a day opens with the equity at its midnight, and a sample shows the
equity of its bucket. Both become inductive when equity is computed from the
trades before a time; no later step changes those, and `Succeeds` collects what a
round may do to a ledger so that this stays true. Assumed of the constants: finite symbols,
at least one price list, prices positive and no lower than the slippage.

`AiCycleProofs` proves `FreshTrades`, `ShadowSpaced` and `BudgetCovers`, and
nonnegative balances under every answer (`TypesHold`). `Inductive` adds to these the
account, `AnswerSound` (what may be executed was accepted, is within its budget, and is
near the price it was asked at: from the recheck on nothing refreshes the quote)
and `PairInTurn` (the order of the newest pair is determined by the number of calls
started before it, which makes the next pair turn). `FreshTrades` compares what the
model was shown with the sum of all earlier trades, so it rests on the soundness
of the account; a purchase at the price it was made at is compared with one at the
highest price allowed, fees included (`PaidFairly`). `BudgetCovers` is arithmetic:
the marked loss and the fee of a purchase are rounded down lot by lot, the
allocation is rounded down once, and `MarkedLossCovered` shows by multiplying out
that the second is never more generous. Prices are again assumed positive and no lower
than the slippage.

Model-checked only: liveness (`RunEnds`, `CommandEnds`), which is out of the
prover's reach. Every safety and action property that a passing run checks is a theorem.

## 5. Plan

In this order; each module is to be checked before anything is proved of it.

1. *Done*: `LiveControl`, `OrderOnce`, the refinement; `Soak`; `PaperArm` and
   `Experiment`; `Adapter` and `Acceptance`; `AiCycle`; and the proof of all their
   safety properties.
2. `Sizing`: the filters and the rounding of `market_quantity` on bounded
   integers, checked against "never more than asked, owned or affordable, and
   on the step grid".
3. Abstract specifications of the testnet worker and of the acceptance command
   like `OrderOnce`, if one can be stated that survives `soak_refill`.

Not planned: `cancel_order` (dead code), parsing (conversions without state), reports, dashboard, exports, replays and research scripts (they
read and compute, and keep no state), the schema module (its single-row reads
and commits are part of the actions above), and the OpenTeddy bridge (a read-only
HTTP façade).
