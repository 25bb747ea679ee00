----------------------------- MODULE Experiment -----------------------------
(***************************************************************************)
(* The comparison experiment (experiment.py): one worker samples the       *)
(* market once in every five-minute bucket and lets each arm, a simulated  *)
(* account with a strategy and a database of its own, evaluate the newest  *)
(* closed candle of every symbol; then it publishes the round.             *)
(*                                                                         *)
(* Each evaluation commits in its arm's database, the published sample in  *)
(* another one, so a crash can fall between any two of them.  The stop is  *)
(* in a third database and is set and cleared by other processes at any    *)
(* moment.  A clock unit is one bucket.                                    *)
(***************************************************************************)
EXTENDS PaperArm

CONSTANTS
    Order,      \* the arms, in the order of a round
    Quotes,     \* the prices an observation may show, one per symbol
    Amounts,    \* what a strategy may ask to trade
    Hour,       \* buckets of an hourly candle
    None,
    MayStop,    \* bound of the model: whether the operator uses the stop
    MaxTime     \* bound of the model: the clock stops there

ASSUME ExperimentAssumption ==
    /\ Order \in Seq({"sma5m", "trend1h"}) /\ Order # <<>>
    /\ Quotes \subseteq [Symbols -> Nat \ {0}] /\ Quotes # {}
    /\ \A q \in Quotes : \A s \in Symbols : q[s] >= Slip
    /\ Amounts \subseteq Nat \ {0}
    /\ Hour \in Nat \ {0} /\ MayStop \in BOOLEAN /\ MaxTime \in Nat

VARIABLES
    arms,       \* one ledger for each arm
    last,       \* the newest published sample, in comparison.db
    inception,  \* what the hold benchmark was bought at, in comparison.db
    killed,     \* the stop, in the main database
    \* the worker
    pc, turn, left,   \* the arm whose turn it is, its symbols still to come
    obs,        \* the observation of this round
    order,      \* what is about to be filled
    asleep,     \* the bucket in which it went to sleep
    \* the world
    now,
    opens,      \* the prices at the midnight that opened each day
    \* history
    losses      \* arms and days of which a committed assessment saw the loss

durable == <<arms, last, inception, losses>>
round == <<turn, left, obs, order, asleep>>
world == <<now, opens>>
vars == <<durable, killed, pc, round, world>>

----------------------------------------------------------------------------
(* Data *)

Arms == {Order[i] : i \in 1 .. Len(Order)}
Minutes(arm) == IF arm = "sma5m" THEN 1 ELSE Hour

NoSample == [bucket |-> -1, price |-> None,
             fills |-> [a \in Arms |-> 0], equity |-> [a \in Arms |-> 0]]
NoObs == [seen |-> -1, at |-> -1, price |-> None, fresh |-> FALSE,
          candle |-> FALSE, midnight |-> None]
NoOrder == [side |-> "HOLD", symbol |-> None, lots |-> 0]

\* The newest candle in the observation that is closed by the time of the round.
Newest(arm) == Min({(obs.at \div Minutes(arm)) - 1, obs.seen \div Minutes(arm)})

\* The cycle id.
Key(arm, s) == <<s, Newest(arm)>>

Arm == Order[turn]

SlipDone(s) == FALSE

\* Restarts and repeated rounds come by an evaluated candle again.
Done(s) == Key(Arm, s) \in arms[Arm].cycles

\* The ledger as this evaluation leaves it, before any fill.
Evaluated(s) == Assessed(arms[Arm], obs, Key(Arm, s))

\* Nothing is held at the first midnight: its prices are never read.
Init ==
    /\ arms = [a \in Arms |-> NewArm] /\ last = NoSample /\ inception = None
    /\ killed = FALSE /\ losses = {}
    /\ pc = "idle" /\ turn = 1 /\ left = {} /\ obs = NoObs /\ order = NoOrder
    /\ asleep = 0 /\ now = 0 /\ opens = [d \in {0} |-> CHOOSE q \in Quotes : TRUE]

----------------------------------------------------------------------------
(* run: the loop around sample *)

\* The worker has no memory of a round once it is over.
Quiet(p) ==
    /\ pc' = p
    /\ turn' = 1 /\ left' = {} /\ obs' = NoObs /\ order' = NoOrder
    /\ asleep' = IF p = "sleep" THEN now ELSE 0

StartWorker ==
    /\ pc = "idle"
    /\ Quiet("collect")
    /\ UNCHANGED <<durable, killed, world>>

Collect ==
    /\ pc = "collect"
    /\ \E q \in Quotes : obs' = [NoObs EXCEPT !.seen = now, !.price = q]
    /\ pc' = "sample"
    /\ UNCHANGED <<durable, killed, turn, left, order, asleep, world>>

CollectFailed ==
    /\ pc = "collect"
    /\ Quiet("sleep")
    /\ UNCHANGED <<durable, killed, world>>

\* Five minutes later it is another bucket.
Wake ==
    /\ pc = "sleep" /\ now > asleep
    /\ Quiet("collect")
    /\ UNCHANGED <<durable, killed, world>>

----------------------------------------------------------------------------
(* sample *)

\* A ticker may be a minute old, so a round may fall in the bucket after the
\* one it was collected in, or be refused there.
Stale ==
    /\ pc = "sample" /\ now > obs.seen
    /\ Quiet("sleep")
    /\ UNCHANGED <<durable, killed, world>>

\* The clock is read once, after the requests.  A ticker ahead of it passes here
\* but is not fresh to the arms; the candle of midnight may not be served yet.
Sample ==
    /\ pc = "sample" /\ now <= obs.seen + 1
    /\ \E fresh \in BOOLEAN, served \in BOOLEAN :
        obs' = [obs EXCEPT
            !.at = now, !.fresh = fresh, !.midnight = opens[DayOf(now)],
            !.candle = /\ DayOf(obs.seen) = DayOf(now)
                       /\ obs.seen % DayLen = 0 => served]
    /\ inception' = IF inception = None THEN obs.price ELSE inception
    /\ pc' = "round"
    /\ UNCHANGED <<arms, last, losses, killed, turn, left, order, asleep, world>>

\* The round of this bucket is already published.
Sampled == obs.at = last.bucket

Repeated ==
    /\ pc = "round" /\ Sampled
    /\ Quiet("sleep")
    /\ UNCHANGED <<durable, killed, world>>

EnterArm ==
    /\ pc = "round" /\ ~Sampled /\ turn <= Len(Order)
    /\ arms' = [arms EXCEPT ![Arm] = Initialized(@, obs.at)]
    /\ left' = Symbols /\ pc' = "arm"
    /\ UNCHANGED <<last, inception, losses, killed, turn, obs, order, asleep,
                   world>>

\* step commits: the evaluation, and what it made of the ledger.
Commit(s, ledger) ==
    /\ arms' = [arms EXCEPT ![Arm] = ledger]
    /\ losses' = IF LossTriggered(Baselined(arms[Arm], obs), obs)
                 THEN losses \cup {<<Arm, DayOf(obs.at)>>} ELSE losses
    /\ left' = left \ {s} /\ order' = NoOrder
    /\ pc' = "arm"

\* Within a round the symbols come in one order or the other, by the clock.
Skip(s) ==
    /\ pc = "arm" /\ s \in left /\ Done(s)
    /\ left' = left \ {s}
    /\ UNCHANGED <<durable, killed, pc, turn, obs, order, asleep, world>>

\* The strategy holds, or a check outside the model refuses.
Pass(s) ==
    /\ pc = "arm" /\ s \in left /\ ~Done(s)
    /\ Commit(s, Evaluated(s))
    /\ UNCHANGED <<last, inception, killed, turn, obs, asleep, world>>

\* The assessment is the first look at the stop.
Propose(s) ==
    /\ pc = "arm" /\ s \in left /\ ~Done(s)
    /\ ~killed
    /\ \E amount \in Amounts :
        LET a == Evaluated(s)
            sold == SellAmount(a, obs, s, amount)
            bid == Lots(amount, obs.price[s])
            offer == SellLots(a, obs, s, sold)
        IN  \/ /\ bid > 0 /\ BuyApproved(a, obs, s, amount)
               /\ order' = [side |-> "BUY", symbol |-> s, lots |-> bid]
            \/ /\ offer > 0 /\ SellApproved(a, obs, s, sold, offer)
               /\ order' = [side |-> "SELL", symbol |-> s, lots |-> offer]
    /\ pc' = "fill"
    /\ UNCHANGED <<durable, killed, turn, left, obs, asleep, world>>

\* The second look.
Fill ==
    /\ pc = "fill" /\ ~killed
    /\ LET s == order.symbol
           a == Evaluated(s)
       IN  Commit(s, IF order.side = "BUY"
                     THEN Bought(a, obs, s, order.lots, Key(Arm, s))
                     ELSE Sold(a, obs, s, order.lots, Key(Arm, s)))
    /\ UNCHANGED <<last, inception, killed, turn, obs, asleep, world>>

\* It raises what run does not catch: the evaluation is rolled back, and with it
\* the latch; the worker's process ends.
FillStopped ==
    /\ pc = "fill" /\ killed
    /\ Quiet("idle")
    /\ UNCHANGED <<durable, killed, world>>

SlipAllDone == pc = "arm"

AllDone == pc = "arm" /\ left = {}

Mark ==
    /\ AllDone /\ obs.fresh
    /\ turn' = turn + 1 /\ left' = {} /\ pc' = "round"
    /\ UNCHANGED <<durable, killed, obs, order, asleep, world>>

\* Nothing is valued at prices that are not fresh.
Unavailable ==
    /\ AllDone /\ ~obs.fresh
    /\ Quiet("sleep")
    /\ UNCHANGED <<durable, killed, world>>

Publish ==
    /\ pc = "round" /\ ~Sampled /\ turn > Len(Order)
    /\ last' = [bucket |-> obs.at, price |-> obs.price,
                fills |-> [a \in Arms |-> Len(arms[a].trades)],
                equity |-> [a \in Arms |-> Equity(arms[a], obs.price)]]
    /\ Quiet("sleep")
    /\ UNCHANGED <<arms, inception, losses, killed, world>>

----------------------------------------------------------------------------
(* Around the worker *)

\* The process ends; what is not committed is gone, and so is its lock.
Crash ==
    /\ pc # "idle"
    /\ Quiet("idle")
    /\ UNCHANGED <<durable, killed, world>>

Kill ==
    /\ MayStop /\ ~killed /\ killed' = TRUE
    /\ UNCHANGED <<durable, pc, round, world>>

Resume ==
    /\ killed /\ killed' = FALSE
    /\ UNCHANGED <<durable, pc, round, world>>

\* Within a round the clock is not read again.
Tick ==
    /\ pc \in {"idle", "collect", "sample", "sleep"}
    /\ now < MaxTime /\ now' = now + 1
    /\ IF DayOf(now') = DayOf(now) THEN opens' = opens
       ELSE \E q \in Quotes :
                opens' = [d \in 0 .. DayOf(now') |->
                            IF d = DayOf(now') THEN q ELSE opens[d]]
    /\ UNCHANGED <<durable, killed, pc, round>>

Worker ==
    \/ StartWorker \/ Collect \/ CollectFailed \/ Wake
    \/ Stale \/ Sample \/ Repeated \/ EnterArm
    \/ \E s \in Symbols : Skip(s) \/ Pass(s) \/ Propose(s)
    \/ Fill \/ FillStopped \/ Mark \/ Unavailable \/ Publish

Next == Worker \/ Crash \/ Kill \/ Resume \/ Tick

Spec == Init /\ [][Next]_vars

----------------------------------------------------------------------------
(* Properties *)

\* The quantities and the cash of an account by its trades before time t.
Before(a, t) == {k \in DOMAIN a.trades : a.trades[k].at < t}

CashBefore(a, t) == Capital + CashMoved(a, Before(a, t))

HeldBefore(a, t) == [s \in Symbols |-> LotsMoved(a, s, Before(a, t))]

EquityBefore(a, t, price) == CashBefore(a, t) + Worth(HeldBefore(a, t), price)

\* Types.  Cash and quantities are never negative: the simulator's own check at
\* the end of _fill never fires.
TypeOK ==
    /\ \A a \in Arms :
        /\ {arms[a].cash, arms[a].opening} \subseteq Nat
        /\ \A s \in Symbols : arms[a].qty[s] \in Nat /\ arms[a].cost[s] \in Nat
        /\ arms[a].open \in BOOLEAN /\ arms[a].loss \in BOOLEAN
        /\ arms[a].realized \in Int
    /\ last.bucket \in -1 .. now /\ inception \in Quotes \cup {None}
    /\ killed \in BOOLEAN
    /\ pc \in {"idle", "collect", "sample", "round", "arm", "fill", "sleep"}
    /\ turn \in 1 .. Len(Order) + 1 /\ left \subseteq Symbols

\* Cash and cost basis account for the capital and what was realized, whatever
\* was bought and sold in parts: realized_pnl, fees included, is what _fill says.
BooksBalance ==
    \A a \in Arms : arms[a].open =>
        arms[a].cash + SumFunctionOnSet(arms[a].cost, Symbols)
            = Capital + arms[a].realized

\* A candle of a symbol leads to at most one trade of an arm, through crashes,
\* restarts and repeated rounds (the cycle id and its transaction).
OneFillPerCandle ==
    \A a \in Arms :
        \A i, j \in DOMAIN arms[a].trades :
            arms[a].trades[i].key = arms[a].trades[j].key => i = j

\* No day has more trades than the limit, and no two of an arm are closer than
\* the cooldown; both symbols share the limits (RiskService.history).
TradesSpaced ==
    \A a \in Arms :
        /\ \A i, j \in DOMAIN arms[a].trades :
            i < j => arms[a].trades[j].at - arms[a].trades[i].at >= Cooldown
        /\ \A d \in 0 .. DayOf(now) : Cardinality(TradesOn(arms[a], d)) <= MaxTrades

\* Whenever the first evaluation of a day happens, the day's loss is counted from
\* what the ledger was worth at midnight (_baseline).
OpeningIsMidnightEquity ==
    \A a \in Arms : arms[a].open =>
        arms[a].opening = EquityBefore(arms[a], arms[a].day * DayLen,
                                       opens[arms[a].day])

\* A published sample stays true: the trades up to its bucket and the equity it
\* gives are those of the ledgers, at any later time (sample, report).
PublishedIsFinal ==
    last # NoSample =>
        \A a \in Arms :
            /\ last.fills[a] = Cardinality({k \in DOMAIN arms[a].trades :
                                    arms[a].trades[k].at <= last.bucket})
            /\ last.equity[a] =
                EquityBefore(arms[a], last.bucket + 1, last.price)

BuysNow(a) ==
    LET n == Len(arms[a].trades)
    IN  Len(arms'[a].trades) > n /\ arms'[a].trades[n + 1].qty > 0

\* Once an assessment saw the daily loss, the arm buys nothing more that day; a
\* restart or a resume does not change that (DAILY_BUY_LOSS_STOP).
NoBuyAfterLoss ==
    [][\A a \in Arms :
        BuysNow(a) => <<a, DayOf(obs.at)>> \notin losses]_vars

\* A round is published only when every arm has evaluated the newest candle of
\* every symbol, in this round or before a crash, and buckets only go forward.
RoundIsWhole ==
    [][last' # last =>
        /\ last'.bucket > last.bucket
        /\ \A a \in Arms, s \in Symbols : Key(a, s) \in arms[a].cycles]_vars

\* The inductive invariant.

\* Each key of a trade was evaluated, and once.
Keyed(a) ==
    /\ \A k \in DOMAIN a.trades : a.trades[k].key \in a.cycles
    /\ \A i, j \in DOMAIN a.trades : a.trades[i].key = a.trades[j].key => i = j

Opened(a) ==
    a.open => /\ a.day \in 0 .. DayOf(now)
              /\ a.opening = EquityBefore(a, a.day * DayLen, opens[a.day])

ArmsSound ==
    /\ arms \in [Arms -> Accounts(Symbols \X Int)]
    /\ \A a \in Arms : Sound(arms[a], now) /\ Keyed(arms[a]) /\ Opened(arms[a])

\* What may be published was evaluated by accounts that are open.
SampleSound ==
    /\ last.bucket \in -1 .. now
    /\ last # NoSample =>
        /\ last.bucket \in 0 .. now /\ last.price \in Quotes
        /\ \A a \in Arms : arms[a].open
    /\ PublishedIsFinal

\* A loss was seen on the account's day or before, and of its day it remembers.
LossesKept ==
    /\ losses \subseteq Arms \X Nat
    /\ \A l \in losses :
        /\ l[2] <= arms[l[1]].day
        /\ l[2] = arms[l[1]].day => arms[l[1]].loss

WorldSound ==
    /\ now \in Nat /\ opens \in [0 .. DayOf(now) -> Quotes]
    /\ killed \in BOOLEAN /\ inception \in Quotes \cup {None}

\* The clock stands still in a round, and the arms before this one are through.
RoundSound ==
    /\ obs.at = now /\ obs.midnight = opens[DayOf(now)]
    /\ {obs.fresh, obs.candle} \subseteq BOOLEAN
    /\ \A i \in 1 .. turn - 1 :
        /\ arms[Order[i]].open
        /\ \A s \in Symbols : Key(Order[i], s) \in arms[Order[i]].cycles

ArmSound ==
    /\ turn <= Len(Order) /\ ~Sampled /\ arms[Arm].open
    /\ \A s \in Symbols \ left : Done(s)

\* What is about to be filled was approved, and still is.
OrderSound ==
    LET s == order.symbol
        a == Evaluated(s)
    IN  /\ s \in left /\ ~Done(s) /\ order.lots > 0
        /\ \E amount \in Amounts :
            LET sold == SellAmount(a, obs, s, amount)
            IN  \/ /\ order.side = "BUY" /\ order.lots = Lots(amount, obs.price[s])
                   /\ BuyApproved(a, obs, s, amount)
                \/ /\ order.side = "SELL"
                   /\ order.lots = SellLots(a, obs, s, sold)
                   /\ SellApproved(a, obs, s, sold, order.lots)

WorkerSound ==
    /\ pc \in {"idle", "collect", "sample", "round", "arm", "fill", "sleep"}
    /\ turn \in 1 .. Len(Order) + 1 /\ left \subseteq Symbols
    /\ obs = [seen |-> obs.seen, at |-> obs.at, price |-> obs.price,
              fresh |-> obs.fresh, candle |-> obs.candle, midnight |-> obs.midnight]
    /\ pc \notin {"round", "arm", "fill"} => turn = 1
    /\ pc \in {"sample", "round", "arm", "fill"} =>
        obs.price \in Quotes /\ obs.seen \in 0 .. now
    /\ pc \in {"round", "arm", "fill"} => RoundSound
    /\ pc \in {"arm", "fill"} => ArmSound
    /\ pc = "fill" => OrderSound

\* TypeOK follows from this invariant, and so do the properties above; the two
\* properties of steps follow from it in the state before the step.
Inductive ==
    ArmsSound /\ SampleSound /\ LossesKept /\ WorldSound /\ WorkerSound

\* What the README says (line 55): an arm evaluates candles that have closed.
\* The code asks that of the time the round began, not of the time the candles
\* were fetched, so a candle may be evaluated that was still changing.
ClosedCandlesOnly ==
    [][\A a \in Arms : \A c \in arms'[a].cycles \ arms[a].cycles :
        (c[2] + 1) * Minutes(a) <= obs.seen]_vars

=============================================================================
