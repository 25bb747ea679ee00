------------------------------ MODULE AiCycle ------------------------------
(***************************************************************************)
(* The local AI worker (local_ai.py): it asks a model about one symbol     *)
(* after the other and lets the simulated account act on the answers       *)
(* (scheduler.py, strategy/ai_strategy.py, strategy/budget.py), or, where  *)
(* a prefilter has spared the question, observes what the model would have *)
(* said (strategy/prefilter.py, shadow.py).                                *)
(*                                                                         *)
(* A question takes time, and so does everything before and after it: the  *)
(* clock moves between any two steps, prices move from one collection to   *)
(* the next, the operator stops and resumes, the process dies and comes    *)
(* back.  What it leaves behind is the account and the reservations of the *)
(* observations; the rows of ai_calls and ai_call_diagnostics are written  *)
(* and never read again, so the row of the call under way is enough.       *)
(***************************************************************************)
EXTENDS PaperArm, SequencesExt

CONSTANTS
    None,
    Roster,       \* the symbols, sorted
    Quotes,       \* prices of all symbols
    Amounts,      \* what a model may ask for
    MaxAge,       \* of a quote, an answer, a snapshot to observe
    Drift,        \* a price that moved further than this is another price
    Pause,        \* between two rounds
    HalfHour,     \* the order of the symbols turns every half hour
    Single, Paired,   \* intervals between observations
    MaxTime           \* bound of the model: the clock

ASSUME AiAssumption ==
    /\ None \notin Symbols
    /\ Roster \in Seq(Symbols) /\ Range(Roster) = Symbols
    /\ Quotes \subseteq [Symbols -> Nat \ {0}] /\ Amounts \subseteq Nat \ {0}
    /\ \A q \in Quotes : \A s \in Symbols : q[s] >= Slip
    /\ {MaxAge, Drift, Single, Paired, MaxTime} \subseteq Nat
    /\ Pause \in Nat \ {0} /\ HalfHour \in Nat \ {0}
    /\ Single <= Paired

VARIABLES
    arm,       \* the account (paper.db)
    shadows,   \* AI_SHADOW_STARTED: when, and the variants in their order
    based,     \* history: the call each trade was based on
    killed,    \* the stop, in the main database
    tripped,   \* by the worker itself: its own process stays stopped
    pc, left,  \* the worker, and the symbols still to come in this round
    quote,     \* the last collection
    paired,    \* AI_SHADOW_PAIRED, as the worker was started
    ai,        \* the question under way, then its answer and diagnostics
    todo,      \* the variants still to observe
    wake, now

durable == <<arm, shadows, based>>
worker == <<pc, left, quote, paired, ai, todo, wake>>
stops == <<killed, tripped>>
vars == <<durable, stops, worker, now>>

NoQuote == [seen |-> 0, price |-> None]
NoShown == [cash |-> 0, qty |-> 0, cost |-> 0, trades |-> 0]
NoAi == [action |-> "HOLD", asked |-> 0, seen |-> 0, price |-> 0,
         shown |-> NoShown, limit |-> 0, recheck |-> "NONE"]

Variants == {"control", "unanchored"}

Init ==
    /\ arm = NewArm /\ shadows = <<>> /\ based = <<>>
    /\ killed = FALSE /\ tripped = FALSE
    /\ pc = "idle" /\ left = <<>> /\ quote = NoQuote /\ paired = FALSE
    /\ ai = NoAi /\ todo = <<>> /\ wake = 0
    /\ now = 0

Sym == Head(left)

\* KillSwitch.active, as the worker sees it.
Active == killed \/ tripped

\* The adapter may have given the stop.
MayTrip ==
    \/ UNCHANGED stops
    \/ killed' = TRUE /\ tripped' = TRUE

----------------------------------------------------------------------------
(* trade_budget: what a purchase and a sale may ask for *)

\* The largest N with existing + N <= AllocPct% of the equity less the loss N
\* marks, in whole units.
SlipAllocation(a, price, s) ==
    Max({0, AllocPct * Equity(a, price) - 100 * a.qty[s] * price[s]}) \div 100

Allocation(a, price, s) ==
    LET U == Upper(price[s])
    IN  (Max({0, AllocPct * Equity(a, price) - 100 * a.qty[s] * price[s]})
            * U * FeeDiv)
        \div (100 * U * FeeDiv + AllocPct * (Slip * FeeDiv + U))

TradeBudget(a, price, s) ==
    LET cash == (a.cash * FeeDiv) \div (FeeDiv + 1)
        room == Max({0, TotalLimit - Worth(a.qty, price)})
        held == a.qty[s] * Upper(price[s])
    IN  [buy |-> Min({OrderLimit, cash, room, Allocation(a, price, s)}),
         sell |-> Min({OrderLimit,
                       IF ExitPolicy = 1 THEN (held * FeeDiv) \div (FeeDiv + 1)
                       ELSE held})]

----------------------------------------------------------------------------
(* Freshness of an answer *)

\* The account as the model sees it.
Shown(s) ==
    [cash |-> arm.cash, qty |-> arm.qty[s], cost |-> arm.cost[s],
     trades |-> Cardinality(TradesOn(arm, DayOf(now)))]

SlipExpired == now - quote.seen > MaxAge

\* An answer is as old as the quote its question was about, whatever was
\* collected since.
Expired == now - ai.seen > MaxAge

Moved == quote.price[Sym] - ai.price \notin -Drift .. Drift

\* revalidate
Verdict ==
    IF ai.action = "HOLD" THEN "NOT_ACTIONABLE"
    ELSE IF Expired THEN "AI_SIGNAL_EXPIRED"
    ELSE IF now - quote.seen > MaxAge THEN "AI_REFRESHED_QUOTE_STALE"
    ELSE IF Shown(Sym) # ai.shown THEN "AI_CONTEXT_CHANGED"
    ELSE IF Moved THEN "AI_PRICE_MOVED"
    ELSE "ACCEPTED"

----------------------------------------------------------------------------
(* The rounds: run_local_ai *)

SlipForget == quote' = NoQuote /\ ai' = NoAi /\ UNCHANGED todo

\* Nothing of a symbol is remembered when the next one comes.
Forget == quote' = NoQuote /\ ai' = NoAi /\ todo' = <<>>

NextSymbol == pc' = "next" /\ left' = Tail(left) /\ Forget

\* The process ends.
Leave ==
    /\ pc' = "idle" /\ left' = <<>> /\ paired' = FALSE /\ wake' = 0 /\ Forget
    /\ tripped' = FALSE

StartWorker ==
    /\ pc = "idle"
    /\ pc' = "top" /\ paired' \in BOOLEAN
    /\ arm' = Initialized(arm, now)
    /\ UNCHANGED <<shadows, based, stops, left, quote, ai, todo, wake, now>>

\* A worker that is stopped only waits.
Round ==
    /\ pc = "top" /\ ~Active
    /\ left' = (IF (now \div HalfHour) % 2 = 1 THEN Reverse(Roster) ELSE Roster)
    /\ pc' = "next"
    /\ UNCHANGED <<durable, stops, quote, paired, ai, todo, wake, now>>

Rest ==
    /\ \/ pc = "top" /\ Active
       \/ pc = "next" /\ (left = <<>> \/ Active)
    /\ pc' = "sleep" /\ wake' = now + Pause /\ left' = <<>>
    /\ UNCHANGED <<durable, stops, quote, paired, ai, todo, now>>

Wake ==
    /\ pc = "sleep" /\ now >= wake
    /\ pc' = "top" /\ wake' = 0
    /\ UNCHANGED <<durable, stops, left, quote, paired, ai, todo, now>>

----------------------------------------------------------------------------
(* One symbol: run_paper *)

\* All prices are collected, for whatever the account may hold.
Collect ==
    /\ pc = "next" /\ left # <<>> /\ ~Active
    /\ \E q \in Quotes : quote' = [seen |-> now, price |-> q]
    /\ pc' = "filter"
    /\ UNCHANGED <<durable, stops, left, paired, ai, todo, wake, now>>

\* MARKET_ERROR: the round goes on with the next symbol.  A reply that cannot be
\* read, and the third request without an answer in a row, also trip the stop.
CollectFailed ==
    /\ pc = "next" /\ left # <<>> /\ ~Active
    /\ MayTrip
    /\ NextSymbol
    /\ UNCHANGED <<durable, paired, wake, now>>

Flat == \A s \in Symbols : arm.qty[s] = 0

\* prefilter: a flat account is spared a question whose costs or direction rule
\* a purchase out, on fresh data only.
Skip ==
    /\ pc = "filter" /\ Flat /\ now - quote.seen <= MaxAge
    /\ pc' = "hold"
    /\ UNCHANGED <<durable, stops, left, quote, paired, ai, todo, wake, now>>

Ask ==
    /\ pc = "filter"
    /\ ai' = [NoAi EXCEPT !.seen = quote.seen, !.price = quote.price[Sym],
                          !.shown = Shown(Sym)]
    /\ pc' = "infer"
    /\ UNCHANGED <<durable, stops, left, quote, paired, todo, wake, now>>

\* The budget in the question; neither account nor quote changes before Answer.
LimitOf(action) ==
    LET budget == TradeBudget(arm, quote.price, Sym)
    IN  CASE action = "BUY" -> budget.buy
          [] action = "SELL" -> budget.sell
          [] OTHER -> 0

\* No answer, one that asks for too much and a purchase against the direction
\* all count as HOLD.
Answer ==
    /\ pc = "infer"
    /\ \/ /\ ai' = [ai EXCEPT !.recheck = "NOT_RUN"]
          /\ pc' = "recheck"
       \/ \E side \in {"BUY", "SELL"}, asked \in Amounts :
            /\ asked <= LimitOf(side)
            /\ ai' = [ai EXCEPT !.recheck = "NOT_RUN", !.action = side,
                                !.asked = asked, !.limit = LimitOf(side)]
            /\ pc' = "refetch"
    /\ UNCHANGED <<durable, stops, left, quote, paired, todo, wake, now>>

\* Quotes only: the candles stay those the model has seen.
Refetch ==
    /\ pc = "refetch"
    /\ \E q \in Quotes : quote' = [seen |-> now, price |-> q]
    /\ pc' = "recheck"
    /\ UNCHANGED <<durable, stops, left, paired, ai, todo, wake, now>>

\* QUOTE_FETCH_FAILED is noted, and the cycle is over.
RefetchFailed ==
    /\ pc = "refetch"
    /\ MayTrip
    /\ NextSymbol
    /\ UNCHANGED <<durable, paired, wake, now>>

\* revalidate and record_recheck; from here the answer stands against the
\* refreshed snapshot.
Recheck ==
    /\ pc = "recheck"
    /\ ai' = [ai EXCEPT !.recheck = Verdict,
                        !.action = IF Verdict = "ACCEPTED" THEN @ ELSE "HOLD",
                        !.asked = IF Verdict = "ACCEPTED" THEN @ ELSE 0]
    /\ pc' = "step"
    /\ UNCHANGED <<durable, stops, left, quote, paired, todo, wake, now>>

\* The prices at midnight are the openings of candles that may not have come.
Obs(candle, midnight) ==
    [price |-> quote.price, at |-> now, fresh |-> now - quote.seen <= MaxAge,
     candle |-> candle, midnight |-> midnight]

\* The cycle id is new for each symbol and round, and never met again.
CycleId == "new"

Ledger(candle, midnight) == Assessed(arm, Obs(candle, midnight), CycleId)

\* propose looks at the age and the account again.
Stands == ai.action # "HOLD" /\ ~Expired /\ Shown(Sym) = ai.shown

\* What the account becomes if the risk engine lets the answer pass.
Outcomes(candle, midnight) ==
    LET a == Ledger(candle, midnight)
        o == Obs(candle, midnight)
        bid == Lots(ai.asked, o.price[Sym])
        offer == SellLots(a, o, Sym, ai.asked)
    IN  CASE ai.action = "BUY" /\ bid > 0 /\ BuyApproved(a, o, Sym, ai.asked)
               -> {Bought(a, o, Sym, bid, CycleId)}
          [] ai.action = "SELL" /\ offer > 0
               /\ SellApproved(a, o, Sym, ai.asked, offer)
               -> {Sold(a, o, Sym, offer, CycleId)}
          [] OTHER -> {}

Trades(candle, midnight) ==
    IF Stands /\ ~Active THEN Outcomes(candle, midnight) ELSE {}

\* The answer is executed.
Execute ==
    /\ pc = "step"
    /\ \E candle \in BOOLEAN, midnight \in Quotes : arm' \in Trades(candle, midnight)
    /\ based' = Append(based, ai)
    /\ NextSymbol
    /\ UNCHANGED <<shadows, stops, paired, wake, now>>

\* HOLD, or a refusal; the account is assessed all the same.
Hold ==
    /\ pc \in {"step", "hold"}
    /\ \E candle \in BOOLEAN, midnight \in Quotes : arm' = Ledger(candle, midnight)
    /\ IF pc = "step" THEN NextSymbol
       ELSE pc' = "observe" /\ UNCHANGED <<left, quote, ai, todo>>
    /\ UNCHANGED <<shadows, based, stops, paired, wake, now>>

\* A stop given between assessment and fill: the step raises what nobody catches.
FillStopped ==
    /\ pc = "step"
    /\ \E candle \in BOOLEAN, midnight \in Quotes : Trades(candle, midnight) # {}
    /\ killed' = TRUE
    /\ Leave
    /\ UNCHANGED <<durable, now>>

----------------------------------------------------------------------------
(* Observations: observe *)

Interval == IF paired THEN Paired ELSE Single

\* Started calls are counted, two for a pair.
Started ==
    SumFunctionOnSet([k \in DOMAIN shadows |-> Len(shadows[k].order)], DOMAIN shadows)

VariantOrder ==
    IF ~paired THEN <<"control">>
    ELSE IF (Started \div 2) % 2 = 1 THEN <<"unanchored", "control">>
    ELSE <<"control", "unanchored">>

SlipDue == shadows # <<>> => now - Last(shadows).at >= Single

\* From the last start, whatever became of it.
Due == shadows # <<>> => now - Last(shadows).at >= Interval

Observable == ~Active /\ now - quote.seen <= MaxAge /\ Due

\* The start is saved before the model is asked.
Reserve ==
    /\ pc = "observe" /\ Observable
    /\ shadows' = Append(shadows, [at |-> now, order |-> VariantOrder])
    /\ todo' = VariantOrder /\ pc' = "variant"
    /\ UNCHANGED <<arm, based, stops, left, quote, paired, ai, wake, now>>

\* No observation, or no more of them.
Pass ==
    /\ \/ pc = "observe" /\ ~Observable
       \/ pc = "variant" /\ (todo = <<>> \/ Active)
    /\ NextSymbol
    /\ UNCHANGED <<durable, stops, paired, wake, now>>

AskVariant ==
    /\ pc = "variant" /\ todo # <<>> /\ ~Active
    /\ pc' = "muse"
    /\ UNCHANGED <<durable, stops, left, quote, paired, ai, todo, wake, now>>

\* An answer or an error, both are saved; nothing reads them but the export.
Complete ==
    /\ pc = "muse"
    /\ todo' = Tail(todo) /\ pc' = "variant"
    /\ UNCHANGED <<durable, stops, left, quote, paired, ai, wake, now>>

----------------------------------------------------------------------------
(* Around the worker *)

\* Also what a cycle raises that is no ExchangeError.
Crash ==
    /\ pc # "idle"
    /\ Leave
    /\ UNCHANGED <<durable, killed, now>>

Stop == ~killed /\ killed' = TRUE /\ UNCHANGED <<durable, tripped, worker, now>>

Resume == killed /\ killed' = FALSE /\ UNCHANGED <<durable, tripped, worker, now>>

Tick ==
    /\ now < MaxTime /\ now' = now + 1
    /\ UNCHANGED <<durable, stops, worker>>

Next ==
    \/ StartWorker \/ Round \/ Rest \/ Wake
    \/ Collect \/ CollectFailed \/ Skip \/ Ask \/ Answer
    \/ Refetch \/ RefetchFailed \/ Recheck \/ Execute \/ Hold \/ FillStopped
    \/ Reserve \/ Pass \/ AskVariant \/ Complete
    \/ Crash \/ Stop \/ Resume \/ Tick

Spec == Init /\ [][Next]_vars

----------------------------------------------------------------------------
(* Properties *)

Verdicts == {"NONE", "NOT_RUN", "NOT_ACTIONABLE", "AI_SIGNAL_EXPIRED",
             "AI_REFRESHED_QUOTE_STALE", "AI_CONTEXT_CHANGED", "AI_PRICE_MOVED",
             "ACCEPTED"}

Stages == {"filter", "infer", "refetch", "recheck", "step", "hold", "observe",
           "variant", "muse"}

Snapshots == [cash : Nat, qty : Nat, cost : Nat, trades : Nat]

Asked == [action : {"BUY", "SELL", "HOLD"}, asked : Nat, seen : Nat, price : Nat,
          shown : Snapshots, limit : Int, recheck : Verdicts]

Orders == {<<"control">>, <<"control", "unanchored">>, <<"unanchored", "control">>}

\* Types; the simulator's balances stay nonnegative under every answer, and what
\* belongs to a cycle ends with it.
TypeOK ==
    /\ arm \in Accounts({CycleId})
    /\ based \in Seq(Asked) /\ Len(based) = Len(arm.trades)
    /\ shadows \in Seq([at : Nat, order : Orders])
    /\ {killed, tripped, paired} \subseteq BOOLEAN
    /\ tripped => pc # "idle"
    /\ pc \in {"idle", "top", "sleep", "next"} \cup Stages
    /\ left \in Seq(Symbols) /\ quote.seen \in Nat
    /\ pc \in Stages => left # <<>> /\ quote.price \in Quotes
    /\ ai \in Asked
    /\ ai # NoAi => pc \in {"infer", "refetch", "recheck", "step"}
    /\ todo \in Seq(Variants)
    /\ todo # <<>> => pc \in {"variant", "muse"}
    /\ pc = "muse" => todo # <<>>
    /\ now \in 0 .. MaxTime

\* Lots that were bought, or sold, for one amount of money.
FairlyPaid(t, price) ==
    LET n == IF t.qty > 0 THEN t.qty ELSE -t.qty
        dearest == n * Upper(price + Drift)
        cheapest == n * Lower(price - Drift)
    IN  IF t.qty > 0 THEN -t.cash <= dearest + Fee(dearest)
                     ELSE t.cash >= cheapest - Fee(cheapest)

\* The i-th trade of an account follows from call c.
FreshTrade(a, c, i) ==
    LET t == a.trades[i]
    IN  /\ c.recheck = "ACCEPTED"
        /\ t.at - c.seen <= MaxAge
        /\ c.asked <= c.limit
        /\ c.shown.cash = Capital + CashMoved(a, 1 .. i - 1)
        /\ c.shown.trades = Cardinality({j \in 1 .. i - 1 :
                               DayOf(a.trades[j].at) = DayOf(t.at)})
        /\ FairlyPaid(t, c.price)

\* A trade follows an accepted answer, no later than MaxAge after the quote it
\* was asked about, for no more than its budget, on the account it was shown, and
\* at a price no further than Drift from the one it was shown: through inference,
\* refreshed quotes, midnight, crashes and stops (PreparedAI).
FreshTrades == \A i \in DOMAIN arm.trades : FreshTrade(arm, based[i], i)

\* Observations keep their distance, whatever became of the last one, for all
\* symbols together; and of two pairs that follow each other, each asks first
\* what the other asked last.
ShadowSpaced ==
    \A k \in DOMAIN shadows : k > 1 =>
        LET last == shadows[k - 1]
            this == shadows[k]
            pairs == Len(last.order) = 2 /\ Len(this.order) = 2
        IN  /\ this.at - last.at >= (IF Len(this.order) = 2 THEN Paired ELSE Single)
            /\ pairs => this.order = Reverse(last.order)

\* The budget the model is given never promises what the amount checks of the
\* risk engine refuse at the same prices, fee and marked loss included; a budget
\* of nothing only says HOLD.
BudgetCovers ==
    arm.open =>
        \A q \in Quotes, s \in Symbols :
            LET buy == TradeBudget(arm, q, s).buy
            IN  buy > 0 => Affordable(arm, [price |-> q], s, buy)

----------------------------------------------------------------------------
(* What the proofs rest on *)

\* An account in use is as sound as a fill demands.
AccountSound == Sound(arm, now) /\ (pc # "idle" => arm.open)

\* An answer that may be executed is within its budget, and stands against the
\* prices it is executed at.
AnswerSound ==
    ai.action # "HOLD" =>
        /\ ai.asked \in Amounts /\ ai.asked <= ai.limit
        /\ pc \in {"refetch", "recheck", "step"}
        /\ pc = "step" => ai.recheck = "ACCEPTED" /\ ~Moved

\* The order of a pair is that of the calls started before it.
PairInTurn ==
    shadows # <<>> /\ Len(Last(shadows).order) = 2 =>
        Last(shadows).order =
            IF ((Started - 2) \div 2) % 2 = 1 THEN <<"unanchored", "control">>
            ELSE <<"control", "unanchored">>

\* What every step preserves: the types, the account, the answer and the last
\* pair, with the trades and the observations that follow from them.
Inductive ==
    TypeOK /\ AccountSound /\ AnswerSound /\ PairInTurn /\ FreshTrades /\ ShadowSpaced

=============================================================================
