-------------------------------- MODULE Soak --------------------------------
(***************************************************************************)
(* The testnet observation: the worker of testnet_soak.py, its four        *)
(* recovery commands, the stop, and the readiness verdict of               *)
(* live_readiness.py on which the production path is gated.                *)
(*                                                                         *)
(* Every command but the stop holds worker.lock, so there is one lock      *)
(* holder with one program counter.  It loads the soak_state row into st   *)
(* and writes the whole row back with each event.  The stop only sets the  *)
(* switch, with its own reason, at any moment.  Any step may be the last   *)
(* one before the process dies.                                            *)
(*                                                                         *)
(* An order's client id is a hash of the first start and the number of the *)
(* evaluation, so in the model an order is named by that number.           *)
(***************************************************************************)
EXTENDS Integers, Sequences, FiniteSets

CONSTANTS
    Prices,        \* quotes and execution prices
    Amounts,       \* what the strategy may ask to spend
    Capital, OrderLimit, ExposureLimit, DailyLoss, CumulativeLoss,
    MinPosition,   \* a holding worth this much counts as a position
    MaxTrades,     \* orders per UTC day
    Cooldown,      \* clock units between two orders
    Period,        \* clock units the worker sleeps between evaluations
    Window,        \* clock units of one observation
    DayLen,        \* clock units of one UTC day
    Retries,       \* consecutive read failures that end a run
    MinSpan, MinCycles, MaxGap,   \* what the verdict asks of a window
    AccountCash, AccountBtc,      \* the account before the first start
    MaxTime,       \* bound of the model: the clock stops there
    MaxCycles,     \* bound of the model: the evaluations it counts in a window
    LastStart      \* bound of the model: evaluations after which no run starts

ASSUME SoakAssumption ==
    /\ Prices \subseteq Nat \ {0} /\ Amounts \subseteq Nat \ {0}
    /\ {Capital, OrderLimit, ExposureLimit, DailyLoss, CumulativeLoss,
        MinPosition, MaxTrades, Cooldown, Window, MinSpan, MinCycles,
        MaxGap, AccountCash, AccountBtc, MaxTime, MaxCycles,
        LastStart} \subseteq Nat
    /\ Period \in Nat \ {0} /\ DayLen \in Nat \ {0} /\ Retries \in Nat \ {0}

VARIABLES
    \* durable: soak.db
    disk,       \* the soak_state row
    log,        \* what soak_events tells its readers
    killed, reason,   \* system_state
    journal,    \* exchange_submissions
    \* the process that holds worker.lock
    pc, op,
    st,         \* its copy of the row
    ord,        \* the order being decided and placed
    err,        \* the exception under way
    \* the exchange and the account
    ex, fill, funds, posts,
    now,
    \* history
    manual,     \* an operator's stop came before the command now running
    lossDays    \* days on which an evaluation saw a loss; -1: the total

process == <<pc, op, st, ord, err>>
exchange == <<ex, fill, funds, posts>>
vars == <<disk, log, killed, reason, journal, process, exchange, now,
          manual, lossDays>>

----------------------------------------------------------------------------
(* Data *)

Ids == 1 .. MaxCycles
Sides == {"BUY", "SELL"}
ReadErrors == {"Transient", "ReadRejected", "Other"}

NoOrder == [side |-> "NONE", amount |-> 0, qty |-> 0]
NoRequest == [side |-> "NONE", qty |-> 0]
NoFill == [cash |-> 0, btc |-> 0, at |-> 0]

\* `times`, the list of the day's executions, is only counted and filtered by
\* day, so it is a set; the number of the order keeps two executions apart.
FreshRow ==
    [status |-> "NONE", active |-> FALSE, error |-> "none",
     cash |-> Capital, btc |-> 0, base |-> [cash |-> 0, btc |-> 0],
     pending |-> 0, orders |-> 0, times |-> {}, last |-> -1,
     day |-> -1, opening |-> Capital, loss |-> FALSE, cum |-> FALSE,
     cycles |-> 0, seen |-> -1, gap |-> 0, fails |-> 0,
     since |-> 0, deadline |-> 0]

\* FILL, BLOCKED and RECOVERY_VERIFIED are the events somebody reads: the
\* fills in order, how many of them precede the present window, and whether
\* the worker was blocked within it.
FreshLog == [fills |-> <<>>, before |-> 0, blocked |-> FALSE]

DayOf(t) == t \div DayLen
Today == DayOf(now)

Init ==
    /\ disk = FreshRow /\ log = FreshLog
    /\ killed = FALSE /\ reason = "none"
    /\ journal = [i \in Ids |-> NoRequest]
    /\ pc = "idle" /\ op = "none" /\ st = FreshRow
    /\ ord = NoOrder /\ err = "none"
    /\ ex = [i \in Ids |-> "absent"]
    /\ fill = [i \in Ids |-> NoFill]
    /\ funds = [cash |-> AccountCash, btc |-> AccountBtc]
    /\ posts = [i \in Ids |-> 0]
    /\ now = 0 /\ manual = FALSE /\ lossDays = {}

----------------------------------------------------------------------------
(* Control flow of the lock holder *)

Unchanged == UNCHANGED <<disk, log, killed, reason, journal, exchange, now,
                         manual, lossDays>>

Begin(o, first) ==
    /\ pc = "idle"
    /\ pc' = first /\ op' = o /\ st' = disk
    /\ UNCHANGED <<ord, err>>
    /\ Unchanged

Continue(next) == pc' = next /\ UNCHANGED <<op, ord, err>>

\* The process ends.
Leave ==
    /\ pc' = "idle" /\ op' = "none" /\ st' = disk'
    /\ ord' = NoOrder /\ err' = "none"

\* The loop retries a transient read, everything else ends the run.
Raise(e) ==
    /\ pc' = IF e = "Transient" THEN "retry" ELSE "blocked"
    /\ err' = e
    /\ ord' = NoOrder /\ UNCHANGED op

Fail(e) == Raise(e) /\ UNCHANGED st

\* An adapter may stop everything by itself before its caller hears of it.
MayTrip ==
    \/ UNCHANGED <<killed, reason>>
    \/ killed' = TRUE /\ reason' = "exchange"

SlipLogFill(i) == UNCHANGED log

LogFill(i) == log' = [log EXCEPT !.fills = Append(@, i)]

LogBlocked == log' = [log EXCEPT !.blocked = TRUE]
LogRecovery == log' = [log EXCEPT !.before = Len(log.fills), !.blocked = FALSE]

\* A new observation starts now, on the same ledger.
Renewed(m) ==
    [m EXCEPT !.status = "RUNNING", !.error = "none", !.since = now,
              !.deadline = now + Window, !.cycles = 0, !.gap = 0,
              !.fails = 0, !.seen = -1]

\* Bound of the model: a window is opened only if the clock can outlast it.
RoomForWindow(t) == t + Window + Period <= MaxTime

----------------------------------------------------------------------------
(* Money and limits *)

Equity(m, p) == m.cash + m.btc * p

Matches(m) ==
    /\ funds.btc = m.base.btc + m.btc
    /\ funds.cash = m.base.cash + m.cash - Capital

SlipLatched(m, p) ==
    LET opened == IF m.day = Today THEN m
                  ELSE [m EXCEPT !.day = Today, !.opening = Equity(m, p)]
        total == Equity(m, p) <= Capital - CumulativeLoss
    IN  [opened EXCEPT
            !.cum = @ \/ total,
            !.loss = total \/ Equity(m, p) <= opened.opening - DailyLoss,
            !.times = {t \in @ : DayOf(t.at) = Today}]

\* An evaluation at bid p: a new day opens, losses latch, old trades drop out.
Latched(m, p) ==
    LET opened == IF m.day = Today THEN m
                  ELSE [m EXCEPT !.day = Today, !.opening = Equity(m, p),
                                 !.loss = FALSE]
        total == Equity(m, p) <= Capital - CumulativeLoss
    IN  [opened EXCEPT
            !.cum = @ \/ total,
            !.loss = @ \/ total \/ Equity(m, p) <= opened.opening - DailyLoss,
            !.times = {t \in @ : DayOf(t.at) = Today}]

\* Bound of the model: the count stays at MaxCycles, and nothing is traded there.
NextCycle(m) == IF m.cycles < MaxCycles THEN m.cycles + 1 ELSE m.cycles

SlipEvaluated(m, p) ==
    [Latched(m, p) EXCEPT !.cycles = NextCycle(m), !.seen = now,
                          !.deadline = now + Window]

Evaluated(m, p) ==
    [Latched(m, p) EXCEPT
        !.cycles = NextCycle(m),
        !.gap = IF m.seen # -1 /\ now - m.seen > @ THEN now - m.seen ELSE @,
        !.seen = now]

Losses(m) == (IF m.loss THEN {m.day} ELSE {}) \cup (IF m.cum THEN {-1} ELSE {})

SlipUnderLimits(m) == m.last # -1 => now - m.last >= Cooldown

UnderLimits(m) ==
    /\ Cardinality(m.times) < MaxTrades
    /\ m.last # -1 => now - m.last >= Cooldown

\* guard: what may be asked for, at this quote.
Guard(m, side, amount, p) ==
    /\ amount <= OrderLimit
    /\ UnderLimits(m)
    /\ side = "BUY" =>
        /\ ~m.loss /\ ~m.cum
        /\ m.btc * p < MinPosition
        /\ m.btc * p + amount <= ExposureLimit
        /\ 1003 * amount <= 1000 * m.cash
    /\ side = "SELL" => m.btc > 0

\* market_quantity rounds down, and never sells more than is owned.
Quantity(m, side, amount, p) ==
    IF side = "SELL" /\ m.btc < amount \div p THEN m.btc ELSE amount \div p

\* apply_fill, and the order counter beside it.
Booked(m, i) ==
    [m EXCEPT !.cash = @ + fill[i].cash, !.btc = @ + fill[i].btc,
              !.pending = 0, !.orders = @ + 1,
              !.last = fill[i].at,
              !.times = @ \cup {[n |-> m.orders + 1, at |-> fill[i].at]}]

Affordable(m) == m.cash >= 0 /\ m.btc >= 0

----------------------------------------------------------------------------
(* run: the first start and the head of the loop *)

BeginRun ==
    /\ disk.cycles <= LastStart
    /\ disk.active \/ RoomForWindow(now)
    /\ Begin("run", "start")

\* A stop, wherever the loop looks at it.
Stopped ==
    /\ pc \in {"start", "loop"}
    /\ pc = "loop" => st.pending # 0 \/ now < st.deadline
    /\ killed
    /\ pc' = "blocked" /\ err' = "Other"
    /\ UNCHANGED <<op, st, ord>>
    /\ Unchanged

\* The account is read and the ledger is bound to it.
Start ==
    /\ pc = "start" /\ ~killed
    /\ st.status = "NONE"
    /\ funds.cash >= Capital
    /\ st' = [st EXCEPT !.status = "RUNNING", !.base = funds]
    /\ disk' = st'
    /\ Continue("policy")
    /\ UNCHANGED <<log, killed, reason, journal, exchange, now, manual, lossDays>>

StartRefused ==
    /\ pc = "start" /\ ~killed
    /\ st.status = "NONE"
    /\ MayTrip
    /\ pc' = "blocked" /\ err' \in ReadErrors
    /\ UNCHANGED <<op, st, ord>>
    /\ UNCHANGED <<disk, log, journal, exchange, now, manual, lossDays>>

Restart ==
    /\ pc = "start" /\ ~killed
    /\ st.status # "NONE"
    /\ Continue(IF st.active THEN "loop" ELSE "policy") /\ st' = st
    /\ Unchanged

\* The policy is activated on an unused ledger only: the window starts here.
Activate ==
    /\ pc = "policy"
    /\ st.pending = 0 /\ st.btc = 0 /\ st.orders = 0
    /\ RoomForWindow(now)
    /\ st' = [st EXCEPT !.active = TRUE, !.since = now, !.cycles = 0,
                        !.deadline = now + Window, !.gap = 0, !.seen = -1]
    /\ disk' = st'
    /\ Continue("loop")
    /\ UNCHANGED <<log, killed, reason, journal, exchange, now, manual, lossDays>>

Loop ==
    /\ pc = "loop" /\ ~killed
    /\ st.pending # 0 \/ now < st.deadline
    /\ Continue(IF st.pending # 0 THEN "settle" ELSE "funds") /\ st' = st
    /\ Unchanged

WindowOver ==
    /\ pc \in {"loop", "funds"}
    /\ st.pending = 0 /\ now >= st.deadline
    /\ Continue("end") /\ st' = st
    /\ Unchanged

End ==
    /\ pc = "end"
    /\ disk' = [st EXCEPT !.status = "COMPLETE"]
    /\ Leave
    /\ UNCHANGED <<log, killed, reason, journal, exchange, now, manual, lossDays>>

----------------------------------------------------------------------------
(* run: the pending order, the account and the evaluation *)

Settle ==
    /\ pc = "settle"
    /\ journal[st.pending] # NoRequest
    /\ ex[st.pending] = "filled"
    /\ Affordable(Booked(st, st.pending))
    /\ st' = Booked(st, st.pending)
    /\ Continue("fillsave")
    /\ Unchanged

\* INTENT_NOT_SENT, an incomplete or unaffordable fill, a failed query.
SettleRefused ==
    /\ pc = "settle"
    /\ MayTrip
    /\ \E e \in {"Ambiguous", "Other"} : Fail(e)
    /\ UNCHANGED <<disk, log, journal, exchange, now, manual, lossDays>>

SaveFill ==
    /\ pc = "fillsave"
    /\ disk' = st
    /\ LogFill(disk.pending)
    /\ Continue("funds") /\ st' = st
    /\ UNCHANGED <<killed, reason, journal, exchange, now, manual, lossDays>>

\* A save that raises leaves what it was to save in st.
Unsaved ==
    /\ pc = "fillsave"
    /\ Fail("Other")
    /\ Unchanged

FundsMatch ==
    /\ pc = "funds"
    /\ now < st.deadline
    /\ Matches(st)
    /\ Continue("decide") /\ st' = st
    /\ Unchanged

\* ACCOUNT_DRIFT, an open order, a read that failed, a stale or invalid quote.
ReadRefused ==
    /\ pc \in {"funds", "decide", "order"}
    /\ pc = "funds" => now < st.deadline
    /\ MayTrip
    /\ \E e \in ReadErrors : Fail(e)
    /\ UNCHANGED <<disk, log, journal, exchange, now, manual, lossDays>>

Evaluate(p) ==
    /\ pc = "decide"
    /\ disk' = Evaluated(st, p)
    /\ lossDays' = lossDays \cup Losses(disk')
    /\ UNCHANGED <<log, killed, reason, journal, exchange, now, manual>>

\* HOLD, a guard or the cost gate: sleep until the next evaluation.
Hold(p) ==
    /\ Evaluate(p)
    /\ st' = [disk' EXCEPT !.fails = 0]
    /\ Continue("sleep")

Trade(p, side, amount) ==
    /\ Evaluate(p) /\ st.cycles < MaxCycles
    /\ Guard(disk', side, amount, p)
    /\ st' = disk'
    /\ ord' = [side |-> side, amount |-> amount, qty |-> 0]
    /\ pc' = "order" /\ UNCHANGED <<op, err>>

\* Bound of the model: the clock stops at MaxTime, past every deadline, and
\* the last sleep ends there.
Wake ==
    /\ pc = "sleep"
    /\ now >= st.seen + Period \/ now = MaxTime
    /\ Continue("loop") /\ st' = st
    /\ Unchanged

\* The guard holds at a fresh quote too; the intent is saved before the order.
Intend(p) ==
    /\ pc = "order"
    /\ Guard(st, ord.side, ord.amount, p)
    /\ Quantity(st, ord.side, ord.amount, p) > 0
    /\ ord' = [ord EXCEPT !.qty = Quantity(st, ord.side, ord.amount, p)]
    /\ disk' = [st EXCEPT !.pending = st.cycles]
    /\ st' = [disk' EXCEPT !.fails = 0]
    /\ pc' = "place" /\ UNCHANGED <<op, err>>
    /\ UNCHANGED <<log, killed, reason, journal, exchange, now, manual, lossDays>>

IntentUnsaved ==
    /\ pc = "order"
    /\ st' = [st EXCEPT !.pending = st.cycles]
    /\ Raise("Other")
    /\ Unchanged

----------------------------------------------------------------------------
(* place_order *)

SlipClaimed(request) == journal[st.pending] = request

\* journal.claim says of an id it already holds whether the request is the same.
Claimed(request) == journal[st.pending] # NoRequest

Claim ==
    /\ pc = "place" /\ ~killed
    /\ LET request == [side |-> ord.side, qty |-> ord.qty]
       IN  IF ~Claimed(request)
           THEN /\ journal' = [journal EXCEPT ![st.pending] = request]
                /\ Continue("send")
           ELSE /\ UNCHANGED journal
                /\ IF journal[st.pending] = request THEN Continue("query")
                   ELSE Raise("Other")
    /\ st' = st
    /\ UNCHANGED <<disk, log, killed, reason, exchange, now, manual, lossDays>>

\* Stopped, rate limited, or the request for the clock failed before the order
\* was sent.
NotSent ==
    /\ pc \in {"place", "send"}
    /\ IF pc = "send" THEN MayTrip ELSE UNCHANGED <<killed, reason>>
    /\ \E e \in IF pc = "send" THEN ReadErrors ELSE {"Other"} : Fail(e)
    /\ UNCHANGED <<disk, log, journal, exchange, now, manual, lossDays>>

\* An unreadable clock: place_order cannot tell it from an unreadable order, and
\* looks for one that never left.
ClockUnread ==
    /\ pc = "send"
    /\ killed' = TRUE /\ reason' = "exchange"
    /\ Continue("query") /\ st' = st
    /\ UNCHANGED <<disk, log, journal, exchange, now, manual, lossDays>>

Send ==
    /\ pc = "send" /\ ~killed
    /\ posts' = [posts EXCEPT ![st.pending] = @ + 1]
    /\ ex' = [ex EXCEPT ![st.pending] = "transit"]
    /\ Continue("await") /\ st' = st
    /\ UNCHANGED <<disk, log, killed, reason, journal, fill, funds, now,
                   manual, lossDays>>

\* An order comes back, or nothing anybody could read: place_order queries it.
Replied ==
    /\ pc = "await"
    /\ MayTrip
    /\ Continue("query") /\ st' = st
    /\ UNCHANGED <<disk, log, journal, exchange, now, manual, lossDays>>

Rejected ==
    /\ pc = "await"
    /\ ex[st.pending] = "refused"
    /\ MayTrip
    /\ \E e \in {"OrderRejected", "Other"} : Fail(e)
    /\ UNCHANGED <<disk, log, journal, exchange, now, manual, lossDays>>

QueryFound ==
    /\ pc = "query"
    /\ ex[st.pending] \in {"filled", "odd"}
    /\ MayTrip
    /\ pc' = "loop" /\ ord' = NoOrder /\ UNCHANGED <<op, st, err>>
    /\ UNCHANGED <<disk, log, journal, exchange, now, manual, lossDays>>

SlipQueryFails ==
    /\ pc = "query"
    /\ pc' = "loop" /\ ord' = NoOrder /\ UNCHANGED <<op, err>>
    /\ st' = [st EXCEPT !.pending = 0]
    /\ Unchanged

QueryFails ==
    /\ pc = "query"
    /\ killed' = TRUE /\ reason' = "exchange"
    /\ Fail("Ambiguous")
    /\ UNCHANGED <<disk, log, journal, exchange, now, manual, lossDays>>

----------------------------------------------------------------------------
(* The two handlers *)

MayRetry == st.pending = 0 /\ ~killed

\* record_read_retry, and the save of READ_RETRY.
Retry ==
    /\ pc = "retry" /\ MayRetry
    /\ st.fails + 1 < Retries
    /\ st' = [st EXCEPT !.fails = @ + 1]
    /\ disk' = st'
    /\ pc' = "loop" /\ err' = "none" /\ UNCHANGED <<op, ord>>
    /\ UNCHANGED <<log, killed, reason, journal, exchange, now, manual, lossDays>>

GiveUp ==
    /\ pc = "retry"
    /\ MayRetry => st.fails + 1 >= Retries
    /\ st' = IF MayRetry THEN [st EXCEPT !.fails = @ + 1] ELSE st
    /\ Continue("blocked")
    /\ Unchanged

\* Whatever stopped the run, and whoever: the reason is overwritten.
Block ==
    /\ pc = "blocked"
    /\ killed' = TRUE /\ reason' = "soak"
    /\ UNCHANGED disk
    /\ IF st.status = "NONE" THEN Leave
       ELSE /\ st' = [st EXCEPT !.status = "BLOCKED", !.error = err]
            /\ Continue("blockedsave")
    /\ UNCHANGED <<log, journal, exchange, now, manual, lossDays>>

BlockedSave ==
    /\ pc = "blockedsave"
    /\ disk' = st
    /\ LogBlocked
    /\ Leave
    /\ UNCHANGED <<killed, reason, journal, exchange, now, manual, lossDays>>

----------------------------------------------------------------------------
(* The recovery commands, and the verdict *)

FilledIds == {log.fills[k] : k \in DOMAIN log.fills}

SubmittedIds == {i \in Ids : journal[i] # NoRequest}

\* Only the worker's own stop may be repaired.
Repairable == killed /\ reason = "soak"

\* Every submission has an accounted fill, in whatever window.
AccountedFor(m) ==
    /\ SubmittedIds = FilledIds
    /\ Cardinality(FilledIds) = m.orders

BeginRecoverTransient ==
    /\ Repairable
    /\ disk.status = "BLOCKED" /\ disk.error = "Transient"
    /\ disk.pending = 0
    /\ AccountedFor(disk)
    /\ Begin("recover-transient", "rtcheck")

CommitTransient ==
    /\ pc = "rtcheck"
    /\ Matches(st)
    /\ disk' = [st EXCEPT !.status = "RECONCILED"]
    /\ Leave
    /\ UNCHANGED <<log, killed, reason, journal, exchange, now, manual, lossDays>>

BeginRecoverPending ==
    /\ Repairable
    /\ disk.error = "Ambiguous"
    /\ disk.pending # 0 /\ journal[disk.pending] # NoRequest
    /\ Begin("recover-pending", "rpquery")

RecoverFound ==
    /\ pc = "rpquery"
    /\ ex[st.pending] = "filled"
    /\ Affordable(Booked(st, st.pending))
    /\ st' = [Booked(st, st.pending) EXCEPT !.status = "RECONCILED"]
    /\ Continue("rpcheck")
    /\ Unchanged

\* The fill is booked while everything is still stopped.
CommitPending ==
    /\ pc = "rpcheck"
    /\ Matches(st)
    /\ disk' = st
    /\ LogFill(disk.pending)
    /\ Leave
    /\ UNCHANGED <<killed, reason, journal, exchange, now, manual, lossDays>>

SlipBeginResume ==
    /\ Repairable
    /\ disk.pending = 0
    /\ Begin("resume-reconciled", "rrcheck")

BeginResume ==
    /\ Repairable
    /\ disk.status = "RECONCILED" /\ disk.pending = 0
    /\ Begin("resume-reconciled", "rrcheck")

\* The new window is saved first, then the stop is lifted.
Renew ==
    /\ pc \in {"rrcheck", "rfsave"}
    /\ pc = "rrcheck" => Matches(st)
    /\ RoomForWindow(now)
    /\ disk' = Renewed(st)
    /\ LogRecovery
    /\ IF pc = "rrcheck" THEN Continue("rrresume") /\ st' = disk' ELSE Leave
    /\ UNCHANGED <<killed, reason, journal, exchange, now, manual, lossDays>>

Resume ==
    /\ pc = "rrresume"
    /\ killed' = FALSE /\ reason' = "resumed" /\ manual' = FALSE
    /\ UNCHANGED disk
    /\ Leave
    /\ UNCHANGED <<log, journal, exchange, now, lossDays>>

\* The repair of a read failure before any order: here the stop is lifted
\* first, then the new window is saved.
BeginRecoverRead ==
    /\ Repairable
    /\ disk.error \in {"OrderRejected", "ReadRejected"}
    /\ disk.pending = 0 /\ disk.orders = 0 /\ disk.btc = 0
    /\ SubmittedIds = {}
    /\ Begin("recover-read-failure", "rfcheck")

ClearFault ==
    /\ pc = "rfcheck"
    /\ RoomForWindow(now)
    /\ funds = st.base
    /\ killed' = FALSE /\ reason' = "resumed" /\ manual' = FALSE
    /\ Continue("rfsave") /\ st' = st
    /\ UNCHANGED <<disk, log, journal, exchange, now, lossDays>>

\* A mismatch or a read that failed: nothing is repaired.
Abandon ==
    /\ pc \in {"rtcheck", "rpquery", "rpcheck", "rrcheck", "rfcheck"}
    /\ MayTrip
    /\ UNCHANGED disk
    /\ Leave
    /\ UNCHANGED <<log, journal, exchange, now, manual, lossDays>>

\* The sides of the fills of the present window.
WindowSides ==
    {journal[log.fills[k]].side : k \in {n \in DOMAIN log.fills : n > log.before}}

SlipObserved == disk.seen - disk.since >= MinSpan /\ disk.cycles >= MinCycles

Observed ==
    /\ disk.active
    /\ disk.seen - disk.since >= MinSpan
    /\ disk.cycles >= MinCycles
    /\ 0 < disk.gap /\ disk.gap <= MaxGap
    /\ disk.status = "COMPLETE"

\* assess: what the row, the log and the switch must say.
RowPasses == Observed /\ disk.pending = 0
LogPasses == Sides \subseteq WindowSides /\ ~log.blocked

\* REVIEW_REQUIRED.
Passed == RowPasses /\ LogPasses /\ ~killed

----------------------------------------------------------------------------
(* What moves beside the lock holder *)

\* The stop command takes no lock.
Stop ==
    /\ killed' = TRUE /\ reason' = "operator"
    /\ manual' = (manual \/ op = "none" \/ op = "run")
    /\ UNCHANGED <<disk, log, journal, process, exchange, now, lossDays>>

Crash ==
    /\ pc # "idle"
    /\ UNCHANGED disk
    /\ Leave
    /\ UNCHANGED <<log, killed, reason, journal, exchange, now, manual, lossDays>>

Tick ==
    /\ now < MaxTime
    /\ pc \in {"start", "policy"} /\ ~st.active => RoomForWindow(now + 1)
    /\ now' = now + 1
    /\ UNCHANGED <<disk, log, killed, reason, journal, process, exchange,
                   manual, lossDays>>

\* The exchange executes a request in transit, whole or in part.
Execute(i, p, qty) ==
    LET buy == journal[i].side = "BUY"
        f == [cash |-> IF buy THEN -(qty * p) ELSE qty * p,
              btc |-> IF buy THEN qty ELSE -qty, at |-> now]
    IN  /\ ex[i] = "transit"
        /\ ex' = [ex EXCEPT ![i] = IF qty = journal[i].qty THEN "filled" ELSE "odd"]
        /\ fill' = [fill EXCEPT ![i] = f]
        /\ funds' = [cash |-> funds.cash + f.cash, btc |-> funds.btc + f.btc]
        /\ UNCHANGED <<disk, log, killed, reason, journal, process, posts,
                       now, manual, lossDays>>

Refuse(i) ==
    /\ ex[i] = "transit"
    /\ ex' = [ex EXCEPT ![i] = "refused"]
    /\ UNCHANGED <<disk, log, killed, reason, journal, process, fill, funds,
                   posts, now, manual, lossDays>>

Worker ==
    \/ Stopped \/ Start \/ StartRefused \/ Restart \/ Activate
    \/ Loop \/ WindowOver \/ End
    \/ Settle \/ SettleRefused \/ SaveFill \/ Unsaved \/ FundsMatch \/ ReadRefused
    \/ \E p \in Prices : Hold(p) \/ Intend(p)
    \/ \E p \in Prices, side \in Sides, amount \in Amounts : Trade(p, side, amount)
    \/ Wake \/ IntentUnsaved
    \/ Claim \/ NotSent \/ ClockUnread \/ Send \/ Replied \/ Rejected \/ QueryFound \/ QueryFails
    \/ Retry \/ GiveUp \/ Block \/ BlockedSave

Recovery ==
    \/ BeginRecoverTransient \/ CommitTransient
    \/ BeginRecoverPending \/ RecoverFound \/ CommitPending
    \/ BeginResume \/ Renew \/ Resume
    \/ BeginRecoverRead \/ ClearFault \/ Abandon

Environment ==
    \/ Stop \/ Crash \/ Tick
    \/ \E i \in Ids, p \in Prices : \E qty \in 0 .. journal[i].qty : Execute(i, p, qty)
    \/ \E i \in Ids : Refuse(i)

Next == BeginRun \/ Worker \/ Recovery \/ Environment

Spec == Init /\ [][Next]_vars

\* The lock holder is not starved and the clock goes on; nothing is asked of
\* the exchange.
FairSpec == Spec /\ WF_vars(Worker) /\ WF_vars(Tick)

----------------------------------------------------------------------------
(* Properties *)

Requests == [side : Sides \cup {"NONE"}, qty : Nat]
Fills == [cash : Int, btc : Int, at : Nat]
Money == [cash : Int, btc : Int]
Executions == [n : Nat, at : Nat]
Rows == [status : {"NONE", "RUNNING", "COMPLETE", "BLOCKED", "RECONCILED"},
         active : BOOLEAN,
         error : ReadErrors \cup {"none", "Ambiguous", "OrderRejected"},
         cash : Nat, btc : Nat, base : Money,
         pending : Ids \cup {0}, orders : Nat, times : SUBSET Executions, last : Int,
         day : Int, opening : Int, loss : BOOLEAN, cum : BOOLEAN,
         cycles : 0 .. MaxCycles, seen : Int, gap : Nat, fails : Nat,
         since : Nat, deadline : Nat]
Logs == [fills : Seq(Ids), before : Nat, blocked : BOOLEAN]
Steps == {"idle", "start", "policy", "loop", "end", "settle", "fillsave",
          "funds", "decide", "sleep", "order", "place", "send", "await",
          "query", "retry", "blocked", "blockedsave", "rtcheck", "rpquery",
          "rpcheck", "rrcheck", "rrresume", "rfcheck", "rfsave"}
Commands == {"none", "run", "recover-transient", "recover-pending",
             "resume-reconciled", "recover-read-failure"}

\* Types; the observation's cash and BTC never go below zero.
TypeOK ==
    /\ disk \in Rows /\ st \in Rows
    /\ log \in Logs
    /\ killed \in BOOLEAN
    /\ reason \in {"none", "operator", "exchange", "soak", "resumed"}
    /\ journal \in [Ids -> Requests]
    /\ pc \in Steps /\ op \in Commands
    /\ ord \in [side : Sides \cup {"NONE"}, amount : Nat, qty : Nat]
    /\ err \in ReadErrors \cup {"none", "Ambiguous", "OrderRejected"}
    /\ ex \in [Ids -> {"absent", "transit", "filled", "odd", "refused"}]
    /\ fill \in [Ids -> Fills] /\ funds \in Money
    /\ posts \in [Ids -> Nat] /\ now \in Nat
    /\ manual \in BOOLEAN /\ lossDays \subseteq Int

Posted == {i \in Ids : posts[i] > 0}

\* An order leaves at most once, whatever is restarted or repaired, and is never
\* forgotten: the row names it, the log has its fill, or the order counter
\* contradicts the log, which no repair accepts.
SentOnce ==
    \A i \in Posted :
        /\ posts[i] = 1
        /\ \/ disk.pending = i
           \/ i \in FilledIds
           \/ disk.orders # Cardinality(FilledIds)

\* A repair lifts the stop only when every order ever sent has its fill in the
\* log and the ledger explains the account.
RepairFindsAllBooked ==
    [][killed /\ ~killed' => Posted \subseteq FilledIds /\ Matches(disk)]_vars

\* No order leaves while the ledger does not explain the account.
OrderOnlyWhenMatched == [][posts' # posts => Matches(disk)]_vars

Executed == {i \in Posted : ex[i] \in {"filled", "odd"}}

\* Executions, complete ones or not, stay within the daily number and a
\* cooldown apart, across restarts, repairs and midnight.
ExecutionsSpaced ==
    /\ \A d \in 0 .. DayOf(MaxTime) :
        Cardinality({i \in Executed : DayOf(fill[i].at) = d}) <= MaxTrades
    /\ \A i, j \in Executed :
        i # j /\ fill[i].at <= fill[j].at => fill[j].at - fill[i].at >= Cooldown

\* No buy leaves on a day whose loss was ever seen, nor after the total loss.
NoBuyAfterLoss ==
    [][posts' # posts /\ ord.side = "BUY" => lossDays \cap {disk.day, -1} = {}]_vars

\* Once the verdict has passed only a stop takes it back; no order leaves while
\* it stands, so the production path is not released on a moving observation.
VerdictStands == [][Passed => posts' = posts /\ (Passed' \/ killed')]_vars

\* Every run comes to an end: the window closes, or the worker stops itself.
RunEnds == op = "run" ~> op = "none"

\* tests/integration/test_soak.py:56, testnet_soak.py:141: a pending fill is
\* applied once, and a crash cannot apply it twice.
FillAppliedOnce ==
    \A j, k \in DOMAIN log.fills : log.fills[j] = log.fills[k] => j = k

\* testnet_soak.py:88: the repair of a read failure never clears manual stops.
RepairSparesManualStop ==
    [][op = "recover-read-failure" /\ killed /\ ~killed' => ~manual]_vars

----------------------------------------------------------------------------
(* The inductive strengthening                                             *)

\* Equal but for the label, the error and the count of failed reads.
SameRow(m, n) ==
    /\ m.active = n.active /\ m.base = n.base /\ m.cash = n.cash /\ m.btc = n.btc
    /\ m.pending = n.pending /\ m.orders = n.orders
    /\ m.times = n.times /\ m.last = n.last
    /\ m.day = n.day /\ m.opening = n.opening /\ m.loss = n.loss /\ m.cum = n.cum
    /\ m.cycles = n.cycles /\ m.seen = n.seen /\ m.gap = n.gap
    /\ m.since = n.since /\ m.deadline = n.deadline

\* What the journal, the exchange and the log say of one order.
OrderInv(i) ==
    /\ posts[i] \in {0, 1}
    /\ posts[i] = 0 <=> ex[i] = "absent"
    /\ posts[i] > 0 => journal[i] # NoRequest
    /\ journal[i] # NoRequest => journal[i].side \in Sides /\ journal[i].qty > 0
    /\ ex[i] \notin {"filled", "odd"} => fill[i] = NoFill
    /\ ex[i] = "filled" => fill[i].btc # 0
    /\ fill[i].at <= now
    /\ i \in FilledIds => ex[i] = "filled"

\* Nothing is under way: every order ever sent has its fill in the log.
AllLogged == Posted \subseteq FilledIds

\* The ledger explains the account.
Matched == Matches(disk)

\* The copy holds the row ...
Same == SameRow(st, disk)

\* ... or the row with its pending order booked ...
BookedCopy ==
    /\ disk.pending # 0 /\ ex[disk.pending] = "filled"
    /\ SameRow(st, Booked(disk, disk.pending))

\* ... or an intent that could not be saved.
IntentCopy ==
    /\ disk.pending = 0 /\ AllLogged /\ Matched
    /\ SameRow(st, [disk EXCEPT !.pending = disk.cycles])

CopyInv ==
    /\ pc \notin {"fillsave", "rpcheck", "blocked", "blockedsave"} => Same
    /\ pc \in {"fillsave", "rpcheck"} => BookedCopy
    /\ pc \in {"blocked", "blockedsave"} =>
        Same \/ (err = "Other" /\ (BookedCopy \/ IntentCopy))
    /\ pc \notin {"rpcheck", "blockedsave"} => st.status = disk.status
    /\ pc # "blockedsave" => st.error = disk.error
    /\ pc = "rpcheck" => st.status = "RECONCILED"
    /\ pc = "blockedsave" => st.status = "BLOCKED" /\ st.error = err

RunSteps == {"start", "policy", "loop", "end", "settle", "fillsave", "funds",
             "decide", "sleep", "order", "place", "send", "await", "query",
             "retry", "blocked", "blockedsave"}

\* Where the holder may be, and what it has established by then.
FlowInv ==
    /\ pc = "idle" <=> op = "none"
    /\ pc \in RunSteps => op = "run"
    /\ op = "recover-read-failure" <=> pc \in {"rfcheck", "rfsave"}
    /\ pc \in {"end", "funds", "decide", "order"} => disk.pending = 0
    /\ pc \in {"settle", "place", "send", "await", "query"} => disk.pending # 0
    /\ pc \in {"decide", "order", "place", "send"} => AllLogged /\ Matched
    /\ pc \in {"order", "place", "send"} =>
        ord.side \in Sides /\ disk.cycles # 0
    /\ pc \in {"order", "place", "send"} /\ ord.side = "BUY" =>
        ~disk.loss /\ ~disk.cum
    /\ pc \notin {"order", "place", "send", "await", "query"} => ord.side = "NONE"
    /\ pc = "place" => ord.qty > 0
    /\ pc = "send" =>
        posts[disk.pending] = 0 /\ journal[disk.pending] # NoRequest
    /\ pc \notin {"idle", "start", "blocked"} => disk.status # "NONE"
    /\ pc \in {"blockedsave", "rtcheck", "rpquery", "rpcheck", "rrcheck", "rrresume",
               "rfcheck"} => killed
    /\ pc \in {"rtcheck", "rrcheck", "rrresume", "rfcheck", "rfsave"} => disk.pending = 0
    /\ pc \in {"rtcheck", "rrcheck", "rrresume"} => AllLogged
    /\ pc = "rpquery" => disk.pending # 0
    /\ pc = "rrresume" => Matched /\ disk.status = "RUNNING"
    /\ pc \in {"rfcheck", "rfsave"} =>
        SubmittedIds = {} /\ disk.orders = 0 /\ disk.error \in {"OrderRejected", "ReadRejected"}
    /\ pc = "rtcheck" => disk.error = "Transient"
    /\ pc \in {"rpquery", "rpcheck"} => disk.error = "Ambiguous"
    /\ pc \in RunSteps \ {"start", "policy", "blocked", "blockedsave"} => disk.active
    /\ pc \in RunSteps \ {"start", "blocked", "blockedsave"} => disk.status # "RECONCILED"
    /\ pc = "end" => now >= disk.deadline

\* What the labels of the row promise.
StatusInv ==
    /\ disk.status = "NONE" =>
        /\ disk.pending = 0 /\ disk.orders = 0
        /\ SubmittedIds = {} /\ disk.error = "none"
    /\ disk.orders = 0 => disk.cash = Capital /\ disk.btc = 0
    /\ disk.status = "RECONCILED" =>
        killed /\ disk.pending = 0 /\ AllLogged /\ disk.error \in {"Transient", "Ambiguous"}
    /\ disk.error # "none" => log.blocked
    /\ disk.status = "COMPLETE" =>
        /\ disk.pending = 0 /\ disk.active /\ now >= disk.deadline
        /\ pc \in {"idle", "start", "loop", "end", "blocked", "blockedsave", "rfcheck", "rfsave"}
        /\ pc = "blocked" => killed

\* The log has every order sent but the pending one, and as many fills as the
\* row counts.
Logged == Posted \subseteq FilledIds \cup {disk.pending} /\ disk.orders = Len(log.fills)

\* What the account holds beyond the ledger.
Open == IF disk.pending = 0 \/ disk.pending \in FilledIds THEN NoFill
        ELSE fill[disk.pending]

\* Every fill was booked once ...
Clean ==
    /\ Logged
    /\ FillAppliedOnce
    /\ disk.status # "NONE" =>
        /\ funds.cash = disk.base.cash + disk.cash - Capital + Open.cash
        /\ funds.btc = disk.base.btc + disk.btc + Open.btc

\* ... or one was booked twice, and nothing is ever sent again ...
Doubled == Logged /\ disk.pending = 0 /\ ~Matched

\* ... or one was booked and not logged, and nothing is ever sent or repaired.
Lost ==
    /\ disk.status = "BLOCKED" /\ disk.error = "Other" /\ killed
    /\ disk.pending = 0 /\ disk.orders > Len(log.fills)
    /\ pc \in {"idle", "start", "blocked", "blockedsave"}
    /\ pc \in {"blocked", "blockedsave"} => err = "Other"
    /\ \A i \in Ids : ex[i] # "transit"
    /\ Same

PhaseInv == Clean \/ Doubled \/ Lost

\* An execution at t would respect the number and the distance of executions.
RoomAt(t) ==
    /\ Cardinality({j \in FilledIds : DayOf(fill[j].at) = DayOf(t)}) < MaxTrades
    /\ \A j \in FilledIds : t - fill[j].at >= Cooldown

\* When an order was executed, or could be at the earliest.
Due(i) == IF ex[i] \in {"filled", "odd"} THEN fill[i].at ELSE now

\* The row remembers the executions of its day and the last one, and there is
\* room for the order it names, whenever that executes.
SpaceInv ==
    /\ ExecutionsSpaced
    /\ Clean =>
        /\ \A j \in FilledIds : fill[j].at <= disk.last
        /\ \A k \in DOMAIN log.fills :
             DayOf(fill[log.fills[k]].at) >= disk.day =>
                 [n |-> k, at |-> fill[log.fills[k]].at] \in disk.times
        /\ disk.pending # 0 /\ disk.pending \notin FilledIds
           /\ (posts[disk.pending] > 0 \/ pc \in {"place", "send"}) =>
               RoomAt(Due(disk.pending))

\* The row still latches every loss that was seen on its day, or ever.
LossInv ==
    /\ disk.day <= Today
    /\ \A d \in lossDays : d <= disk.day
    /\ -1 \in lossDays => disk.cum
    /\ disk.day \in lossDays \ {-1} => disk.loss

Inductive ==
    /\ TypeOK
    /\ IsFiniteSet(disk.times)
    /\ \A i \in Ids : OrderInv(i)
    /\ CopyInv
    /\ FlowInv
    /\ StatusInv
    /\ PhaseInv
    /\ SpaceInv
    /\ LossInv

=============================================================================
