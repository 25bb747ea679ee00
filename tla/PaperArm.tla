------------------------------ MODULE PaperArm ------------------------------
(***************************************************************************)
(* The ledger of one simulated account: what a step of PaperEngine         *)
(* (execution/paper.py) makes of it, with the checks of RiskService and    *)
(* RiskEngine (risk/) and the rounding of market_quantity                  *)
(* (execution/filters.py).                                                 *)
(*                                                                         *)
(* An account is a record; an observation gives prices, a time, whether it *)
(* is fresh, and whether the candles hold the midnight openings.  Money is *)
(* counted in whole units and quantities in whole lots; a fee is a         *)
(* fraction of the amount, rounded down.                                   *)
(***************************************************************************)
EXTENDS Integers, Sequences, FiniteSets, FiniteSetsExt

CONSTANTS
    Symbols,
    Capital, OrderLimit, TotalLimit, DailyLoss,
    AllocPct,      \* share of equity one symbol may take
    MaxTrades,     \* executions per UTC day
    Cooldown,      \* clock units between two executions
    Slip,          \* what a simulated price is worse than the quote
    FeeDiv,        \* a fee is one part in FeeDiv
    ExitPolicy,    \* 1 or 2
    DayLen         \* clock units of one UTC day

ASSUME PaperAssumption ==
    /\ {Capital, OrderLimit, TotalLimit, DailyLoss, AllocPct, MaxTrades,
        Cooldown, Slip} \subseteq Nat
    /\ IsFiniteSet(Symbols)
    /\ FeeDiv \in Nat \ {0} /\ DayLen \in Nat \ {0}
    /\ ExitPolicy \in {1, 2}

DayOf(t) == t \div DayLen

Nothing == [s \in Symbols |-> 0]

\* The account's database before its first use.  Of risk_days only the last row
\* is ever read again.  A trade carries what it moved, as the fills table does.
NewArm == [open |-> FALSE, cash |-> 0, realized |-> 0, qty |-> Nothing,
           cost |-> Nothing, cycles |-> {}, day |-> -1, opening |-> 0,
           loss |-> FALSE, trades |-> <<>>]

Initialized(a, t) ==
    IF a.open THEN a
    ELSE [a EXCEPT !.open = TRUE, !.cash = Capital,
                   !.day = DayOf(t), !.opening = Capital]

----------------------------------------------------------------------------
(* Valuation *)

Worth(qty, price) == SumFunctionOnSet([s \in Symbols |-> qty[s] * price[s]], Symbols)

Equity(a, price) == a.cash + Worth(a.qty, price)

Upper(p) == p + Slip
Lower(p) == p - Slip
Fee(amount) == amount \div FeeDiv

----------------------------------------------------------------------------
(* The risk day *)

SlipBaselined(a, o) ==
    IF a.day = DayOf(o.at) THEN a
    ELSE [a EXCEPT !.day = DayOf(o.at), !.opening = Equity(a, o.price),
                   !.loss = FALSE]

\* A new day opens with the ledger at midnight prices, and does not open without
\* the candle of a holding.
Baselined(a, o) ==
    IF \/ a.day = DayOf(o.at)
       \/ ~o.candle /\ \E s \in Symbols : a.qty[s] > 0
    THEN a
    ELSE [a EXCEPT !.day = DayOf(o.at), !.opening = Equity(a, o.midnight),
                   !.loss = FALSE]

LossTriggered(a, o) ==
    /\ o.fresh /\ a.day = DayOf(o.at)
    /\ Equity(a, o.price) - a.opening <= -DailyLoss

SlipAssessed(a, o, key) ==
    LET b == Baselined(a, o)
    IN  [b EXCEPT !.cycles = @ \cup {key}, !.loss = LossTriggered(b, o)]

\* What every step leaves behind, whatever it decides: the cycle, and the latch.
Assessed(a, o, key) ==
    LET b == Baselined(a, o)
    IN  [b EXCEPT !.cycles = @ \cup {key}, !.loss = @ \/ LossTriggered(b, o)]

----------------------------------------------------------------------------
(* RiskEngine *)

TradesOn(a, d) == {k \in DOMAIN a.trades : DayOf(a.trades[k].at) = d}

SlipUnderLimits(a, o) == Cardinality(TradesOn(a, DayOf(o.at))) < MaxTrades

UnderLimits(a, o) ==
    /\ Cardinality(TradesOn(a, DayOf(o.at))) < MaxTrades
    /\ a.trades # <<>> => o.at - a.trades[Len(a.trades)].at >= Cooldown

\* The checks both sides share; a is the account once assessed.
Tradable(a, o, amount) ==
    /\ o.fresh
    /\ a.day = DayOf(o.at)
    /\ UnderLimits(a, o)
    /\ amount <= OrderLimit

SlipLots(amount, p) == amount \div p

\* Quantities are bounded at the adverse price.
Lots(amount, p) == amount \div Upper(p)

WithinAllocation(a, o, s, value, drop) ==
    100 * value <= AllocPct * (Equity(a, o.price) - drop)

\* What a purchase may cost, with the loss it marks at once.
Affordable(a, o, s, amount) ==
    LET n == Lots(amount, o.price[s])
    IN  /\ amount + Fee(amount) <= a.cash
        /\ Worth(a.qty, o.price) + amount <= TotalLimit
        /\ WithinAllocation(a, o, s, a.qty[s] * o.price[s] + amount,
                            Slip * n + Fee(amount))

BuyApproved(a, o, s, amount) ==
    /\ Tradable(a, o, amount)
    /\ ~a.loss
    /\ Affordable(a, o, s, amount)

\* Exit policy 1 reserves a fee in the asset and keeps the limits of an entry.
SellApproved(a, o, s, amount, n) ==
    /\ Tradable(a, o, amount)
    /\ n <= a.qty[s]
    /\ ExitPolicy = 1 =>
        /\ n + Fee(n) <= a.qty[s]
        /\ Worth(a.qty, o.price) - n * o.price[s] <= TotalLimit
        /\ WithinAllocation(a, o, s, (a.qty[s] - n) * o.price[s],
                            Slip * n + Fee(amount))

\* Exit policy 2 sells the whole holding, up to the order limit.
SellAmount(a, o, s, amount) ==
    IF ExitPolicy = 1 THEN amount
    ELSE Min({a.qty[s] * Upper(o.price[s]), OrderLimit})

SellLots(a, o, s, amount) ==
    LET n == Lots(amount, o.price[s])
    IN  IF ExitPolicy = 1 THEN n ELSE Min({n, a.qty[s]})

----------------------------------------------------------------------------
(* _fill *)

SlipTrade(s, key, o, dcash, dqty) ==
    [symbol |-> s, key |-> key, at |-> o.seen, cash |-> dcash, qty |-> dqty]

Trade(s, key, o, dcash, dqty) ==
    [symbol |-> s, key |-> key, at |-> o.at, cash |-> dcash, qty |-> dqty]

Bought(a, o, s, n, key) ==
    LET paid == n * Upper(o.price[s]) + Fee(n * Upper(o.price[s]))
    IN  [a EXCEPT !.cash = @ - paid, !.qty[s] = @ + n, !.cost[s] = @ + paid,
                  !.trades = Append(@, Trade(s, key, o, -paid, n))]

SlipSold(a, o, s, n, key) ==
    LET gross == n * Lower(o.price[s])
        got == gross - Fee(gross)
        gone == (a.cost[s] * n) \div a.qty[s]
    IN  [a EXCEPT !.cash = @ + got, !.qty[s] = @ - n, !.cost[s] = @ - gone,
                  !.realized = @ + gross - gone,
                  !.trades = Append(@, Trade(s, key, o, got, -n))]

\* The cost basis leaves in proportion; the rest of the proceeds is realized.
Sold(a, o, s, n, key) ==
    LET gross == n * Lower(o.price[s])
        got == gross - Fee(gross)
        gone == (a.cost[s] * n) \div a.qty[s]
    IN  [a EXCEPT !.cash = @ + got, !.qty[s] = @ - n, !.cost[s] = @ - gone,
                  !.realized = @ + got - gone,
                  !.trades = Append(@, Trade(s, key, o, got, -n))]

----------------------------------------------------------------------------
(* What is true of an account *)

Executions(Keys) ==
    [symbol : Symbols, key : Keys, at : Nat, cash : Int, qty : Int]

Accounts(Keys) ==
    [open : BOOLEAN, cash : Nat, realized : Int, qty : [Symbols -> Nat],
     cost : [Symbols -> Nat], cycles : SUBSET Keys, day : Int, opening : Nat,
     loss : BOOLEAN, trades : Seq(Executions(Keys))]

\* What the trades K moved: money, and lots of a symbol.
CashMoved(a, K) ==
    SumFunctionOnSet([k \in DOMAIN a.trades |-> a.trades[k].cash], K)

LotsMoved(a, s, K) ==
    SumFunctionOnSet([k \in DOMAIN a.trades |-> a.trades[k].qty],
                     {k \in K : a.trades[k].symbol = s})

\* The balances are the capital and what the trades moved.
Posted(a) ==
    /\ a.open => a.cash = Capital + CashMoved(a, DOMAIN a.trades)
    /\ \A s \in Symbols : a.qty[s] = LotsMoved(a, s, DOMAIN a.trades)

Balanced(a) ==
    a.open => a.cash + SumFunctionOnSet(a.cost, Symbols) = Capital + a.realized

Spaced(a) ==
    \A i, j \in DOMAIN a.trades :
        i < j => a.trades[j].at - a.trades[i].at >= Cooldown

Limited(a) ==
    \A k \in DOMAIN a.trades :
        Cardinality(TradesOn(a, DayOf(a.trades[k].at))) <= MaxTrades

\* At time t.  Nothing is traded on a day that the account has not opened.
Dated(a, t) ==
    /\ a.day <= DayOf(t)
    /\ \A k \in DOMAIN a.trades :
        a.trades[k].at <= t /\ DayOf(a.trades[k].at) <= a.day

Sound(a, t) ==
    /\ ~a.open => a = NewArm
    /\ Posted(a) /\ Balanced(a) /\ Spaced(a) /\ Limited(a) /\ Dated(a, t)

=============================================================================
