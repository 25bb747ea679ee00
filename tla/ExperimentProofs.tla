--------------------------- MODULE ExperimentProofs ---------------------------
(***************************************************************************)
(* The properties of the comparison experiment, proved for every value of  *)
(* its constants from the invariant Inductive.  Its part about one account *)
(* rests on the lemmas of PaperProofs.                                     *)
(***************************************************************************)
EXTENDS Experiment, PaperProofs

(* An account and its past *)

CycleIds == Symbols \X Int

LEMMA BeforeFinite ==
    ASSUME NEW K, NEW a \in Accounts(K), NEW t
    PROVE  Before(a, t) \subseteq DOMAIN a.trades /\ IsFiniteSet(Before(a, t))
  <1>1. Before(a, t) \subseteq DOMAIN a.trades
    BY DEF Before
  <1>. QED BY <1>1, DomainFinite, FS_Subset

\* After all its trades, the past of an account is the account.
LEMMA PastIsNow ==
    ASSUME NEW K, NEW a \in Accounts(K), Posted(a), a.open, NEW t, NEW price,
           \A k \in DOMAIN a.trades : a.trades[k].at < t
    PROVE  EquityBefore(a, t, price) = Equity(a, price)
  <1>1. Before(a, t) = DOMAIN a.trades
    BY DEF Before
  <1>2. CashBefore(a, t) = a.cash
    BY <1>1 DEF Posted, CashBefore
  <1>3. HeldBefore(a, t) = a.qty
    <2>1. a.qty = [s \in Symbols |-> a.qty[s]]
      BY AccountFields
    <2>2. \A s \in Symbols : a.qty[s] = LotsMoved(a, s, Before(a, t))
      BY <1>1 DEF Posted
    <2>. QED BY <2>1, <2>2 DEF HeldBefore
  <1>. QED BY <1>2, <1>3 DEF EquityBefore, Equity

LEMMA PastOfSameTrades ==
    ASSUME NEW a, NEW b, b.trades = a.trades, NEW t
    PROVE  /\ Before(b, t) = Before(a, t)
           /\ \A p : EquityBefore(b, t, p) = EquityBefore(a, t, p)
  <1>1. Before(b, t) = Before(a, t)
    BY DEF Before
  <1>2. CashBefore(b, t) = CashBefore(a, t)
    BY <1>1 DEF CashBefore, CashMoved
  <1>3. HeldBefore(b, t) = HeldBefore(a, t)
    BY <1>1 DEF HeldBefore, LotsMoved
  <1>. QED BY <1>1, <1>2, <1>3 DEF EquityBefore

\* A fill changes nothing that was before it.
LEMMA PastOfPosting ==
    ASSUME NEW K, NEW a \in Accounts(K), NEW b, NEW e \in Executions(K), NEW dk,
           Posting(b, a, e, dk), NEW t \in Int, t <= e.at
    PROVE  /\ Before(b, t) = Before(a, t)
           /\ \A p : EquityBefore(b, t, p) = EquityBefore(a, t, p)
  <1>1. /\ DOMAIN b.trades = DOMAIN a.trades \cup {Len(a.trades) + 1}
        /\ \A k \in DOMAIN a.trades : b.trades[k] = a.trades[k]
        /\ b.trades[Len(a.trades) + 1] = e
    BY Appended
  <1>2. e.at \in Nat
    BY DEF Executions
  <1>3. Before(b, t) = Before(a, t)
    BY <1>1, <1>2 DEF Before
  <1>4. Before(a, t) \in SUBSET DOMAIN a.trades
    BY DEF Before
  <1>5. CashBefore(b, t) = CashBefore(a, t)
    BY <1>3, <1>4, MovedKept DEF CashBefore
  <1>6. HeldBefore(b, t) = HeldBefore(a, t)
    <2>1. \A s \in Symbols : LotsMoved(b, s, Before(a, t)) = LotsMoved(a, s, Before(a, t))
      BY <1>4, MovedKept
    <2>. QED BY <1>3, <2>1 DEF HeldBefore
  <1>. QED BY <1>3, <1>5, <1>6 DEF EquityBefore

----------------------------------------------------------------------------
(* What a round does to an account *)

\* b may take the place of a in a round: it is as sound, and what a sample
\* published before says of a, it says of b.
Succeeds(b, a) ==
    /\ b \in Accounts(CycleIds)
    /\ Sound(b, now) /\ Keyed(b) /\ Opened(b) /\ b.open
    /\ a.cycles \subseteq b.cycles
    /\ \A t \in 0 .. now : /\ Before(b, t) = Before(a, t)
                           /\ \A p : EquityBefore(b, t, p) = EquityBefore(a, t, p)
    /\ a.day <= b.day
    /\ a.day = b.day /\ a.loss => b.loss

LEMMA Clock ==
    ASSUME WorldSound
    PROVE  /\ now \in Nat /\ DayOf(now) \in Nat /\ DayOf(now) \in 0 .. DayOf(now)
           /\ opens[DayOf(now)] \in Quotes
           /\ \A d \in 0 .. DayOf(now) : opens[d] \in Quotes /\ d * DayLen \in 0 .. now
  <1>1. now \in Nat /\ opens \in [0 .. DayOf(now) -> Quotes]
    BY DEF WorldSound
  <1>2. DayOf(now) \in Nat /\ DayOf(now) * DayLen <= now /\ DayLen \in Nat \ {0}
    BY <1>1, DayOrder, PaperAssumption
  <1>3. ASSUME NEW d \in 0 .. DayOf(now) PROVE d * DayLen \in 0 .. now
    <2>1. d * DayLen \in Nat /\ DayOf(now) * DayLen \in Nat
      BY <1>2
    <2>2. d * DayLen <= DayOf(now) * DayLen
      BY <1>2
    <2>. QED BY <1>1, <1>2, <2>1, <2>2
  <1>. QED BY <1>1, <1>2, <1>3

\* A price list is a function of the symbols.
LEMMA QuoteFields ==
    ASSUME NEW q \in Quotes
    PROVE  /\ q \in [Symbols -> Nat]
           /\ \A s \in Symbols : q[s] > 0 /\ q[s] >= Slip
  BY ExperimentAssumption

LEMMA ObsObserved ==
    ASSUME WorldSound, RoundSound, obs.price \in Quotes
    PROVE  Observed(obs, now)
  <1>1. obs.at = now /\ obs.midnight \in Quotes /\ now \in Nat
    BY Clock DEF RoundSound
  <1>. QED BY <1>1, QuoteFields DEF Observed

LEMMA KeyType ==
    ASSUME WorldSound, RoundSound, obs.seen \in Nat,
           NEW i \in 1 .. Len(Order), NEW s \in Symbols
    PROVE  Key(Order[i], s) \in CycleIds
  <1>. DEFINE m == Minutes(Order[i])
              x == (obs.at \div m) - 1
              y == obs.seen \div m
  <1>1. m \in Nat \ {0}
    BY ExperimentAssumption DEF Minutes
  <1>2. obs.at \in Nat
    BY Clock DEF RoundSound
  <1>3. x \in Int /\ y \in Int
    <2>. HIDE DEF m
    <2>. QED BY <1>1, <1>2
  <1>. HIDE DEF x, y
  <1>4. Min({x, y}) \in {x, y}
    BY <1>3, MinOfTwo, Zenon
  <1>5. Newest(Order[i]) \in Int
    <2>1. Min({x, y}) \in Int
      BY <1>3, <1>4
    <2>. QED BY <2>1 DEF Newest, x, y
  <1>. QED BY <1>5 DEF Key, CycleIds

\* The first round opens the account, with nothing but its capital.
LEMMA InitializedSucceeds ==
    ASSUME WorldSound, NEW a \in Accounts(CycleIds),
           Sound(a, now), Keyed(a), Opened(a)
    PROVE  Succeeds(Initialized(a, now), a)
  <1>. DEFINE b == Initialized(a, now)
  <1>1. /\ b \in Accounts(CycleIds) /\ Sound(b, now) /\ b.open
        /\ b.cycles = a.cycles /\ b.trades = a.trades /\ b.loss = a.loss
        /\ a.open => b = a
        /\ ~a.open => /\ a = NewArm /\ b.day = DayOf(now) /\ b.opening = Capital
    BY Clock, InitializedSound
  <1>. HIDE DEF b
  <1>2. Keyed(b)
    BY <1>1 DEF Keyed
  <1>3. /\ \A t : /\ Before(b, t) = Before(a, t)
                  /\ \A p : EquityBefore(b, t, p) = EquityBefore(a, t, p)
    BY <1>1, PastOfSameTrades
  <1>4. Opened(b) /\ a.day <= b.day
    <2>1. CASE a.open
      BY <1>1, <2>1, AccountFields
    <2>2. CASE ~a.open
      <3>1. /\ b.trades = <<>> /\ b.day = DayOf(now) /\ b.opening = Capital
            /\ a.day = -1
        BY <1>1, <2>2 DEF NewArm
      <3>2. DOMAIN b.trades = {}
        BY <3>1
      <3>3. EquityBefore(b, b.day * DayLen, opens[b.day]) = Equity(b, opens[b.day])
        BY <1>1, <3>2, PastIsNow DEF Sound
      <3>4. b.cash = Capital
        <4>1. CashMoved(b, DOMAIN b.trades) = 0
          BY <3>2, SumEmpty DEF CashMoved
        <4>. QED BY <1>1, <4>1, PaperAssumption DEF Sound, Posted
      <3>5. \A s \in Symbols : b.qty[s] = 0
        <4>. TAKE s \in Symbols
        <4>1. {k \in DOMAIN b.trades : b.trades[k].symbol = s} = {}
          BY <3>2
        <4>2. LotsMoved(b, s, DOMAIN b.trades) = 0
          BY <4>1, SumEmpty DEF LotsMoved
        <4>. QED BY <1>1, <4>2 DEF Sound, Posted
      <3>6. Worth(b.qty, opens[b.day]) = 0
        <4>. DEFINE f == [s \in Symbols |-> b.qty[s] * opens[b.day][s]]
        <4>1. opens[b.day] \in [Symbols -> Nat]
          BY <3>1, Clock, QuoteFields
        <4>2. \A s \in Symbols : f[s] = 0
          BY <3>5, <4>1
        <4>. HIDE DEF f
        <4>3. SumFunctionOnSet(f, Symbols) = 0
          BY <4>2, SumZero, PaperAssumption
        <4>. QED BY <4>3 DEF Worth, f
      <3>7. b.opening = EquityBefore(b, b.day * DayLen, opens[b.day])
        BY <3>1, <3>3, <3>4, <3>6, PaperAssumption DEF Equity
      <3>8. b.day \in 0 .. DayOf(now) /\ a.day <= b.day
        BY <3>1, Clock
      <3>. QED BY <3>7, <3>8 DEF Opened
    <2>. QED BY <2>1, <2>2
  <1>. QED BY <1>1, <1>2, <1>3, <1>4 DEF Succeeds, b

\* A new day is opened with what the account was worth at its midnight.
LEMMA BaselinedOpened ==
    ASSUME WorldSound, NEW o, Observed(o, now), o.midnight = opens[DayOf(now)],
           NEW a \in Accounts(CycleIds), Sound(a, now), Opened(a), a.open
    PROVE  /\ Opened(Baselined(a, o)) /\ a.day <= Baselined(a, o).day
           /\ a.day = Baselined(a, o).day => Baselined(a, o) = a
  <1>. DEFINE b == Baselined(a, o)
              c == [a EXCEPT !.day = DayOf(now), !.opening = Equity(a, o.midnight),
                             !.loss = FALSE]
  <1>1. o.at = now /\ DayOf(now) \in Nat /\ now \in Nat /\ DayLen \in Nat \ {0}
    BY Clock, PaperAssumption DEF Observed
  <1>2. b = a \/ (b = c /\ a.day # DayOf(now))
    BY <1>1 DEF Baselined
  <1>3. CASE b = a
    BY <1>3, AccountFields
  <1>4. CASE b = c /\ a.day # DayOf(now)
    <2>1. a.day \in 0 .. DayOf(now) /\ a.day < DayOf(now)
      BY <1>1, <1>4 DEF Opened
    <2>2. /\ c.day = DayOf(now) /\ c.trades = a.trades /\ c.open = a.open
          /\ c.opening = Equity(a, o.midnight)
      BY DEF Accounts
    <2>3. ASSUME NEW k \in DOMAIN a.trades
          PROVE  a.trades[k].at < DayOf(now) * DayLen
      <3>. DEFINE t == a.trades[k].at
                  d == DayOf(t)
      <3>1. t \in Nat /\ d \in Nat /\ d <= a.day
        BY TradeFields DEF Sound, Dated
      <3>2. t < (d + 1) * DayLen
        BY <3>1, DayOrder
      <3>. HIDE DEF d, t
      <3>3. d + 1 <= DayOf(now) /\ d + 1 \in Nat
        BY <1>1, <2>1, <3>1
      <3>4. (d + 1) * DayLen <= DayOf(now) * DayLen
        BY <1>1, <3>3
      <3>5. (d + 1) * DayLen \in Nat /\ DayOf(now) * DayLen \in Nat
        BY <1>1, <3>3
      <3>6. t < DayOf(now) * DayLen
        BY <3>1, <3>2, <3>4, <3>5
      <3>. QED BY <3>6 DEF t
    <2>4. EquityBefore(a, DayOf(now) * DayLen, o.midnight) = Equity(a, o.midnight)
      BY <2>3, PastIsNow DEF Sound
    <2>5. EquityBefore(c, DayOf(now) * DayLen, o.midnight)
            = EquityBefore(a, DayOf(now) * DayLen, o.midnight)
      <3>. HIDE DEF c
      <3>. QED BY <2>2, PastOfSameTrades
    <2>6. Opened(c)
      <3>. HIDE DEF c
      <3>. QED BY <1>1, <2>2, <2>4, <2>5 DEF Opened
    <2>. HIDE DEF b, c
    <2>7. Opened(b) /\ a.day < b.day
      BY <1>1, <1>4, <2>1, <2>2, <2>6
    <2>8. ~(a.day = b.day) /\ a.day <= b.day
      BY <1>1, <1>4, <2>1, <2>2, <2>7
    <2>. QED BY <2>7, <2>8 DEF b
  <1>. QED BY <1>2, <1>3, <1>4

\* An evaluation.
LEMMA AssessedSucceeds ==
    ASSUME WorldSound, NEW o, Observed(o, now), o.midnight = opens[DayOf(now)],
           NEW a \in Accounts(CycleIds), Sound(a, now), Keyed(a), Opened(a), a.open,
           NEW key \in CycleIds
    PROVE  /\ Succeeds(Assessed(a, o, key), a)
           /\ SameBooks(Assessed(a, o, key), a)
           /\ Assessed(a, o, key).cycles = a.cycles \cup {key}
           /\ LossTriggered(Baselined(a, o), o) =>
                /\ Assessed(a, o, key).loss
                /\ Assessed(a, o, key).day = DayOf(now)
  <1>. DEFINE b == Assessed(a, o, key)
              c == Baselined(a, o)
  <1>1. /\ b \in Accounts(CycleIds) /\ SameBooks(b, a)
        /\ b.cycles = a.cycles \cup {key}
        /\ b.day = c.day /\ b.opening = c.opening
    BY AssessedAccount
  <1>2. Sound(b, now)
    BY AssessedSound
  <1>3. /\ Opened(c) /\ a.day <= c.day /\ (a.day = c.day => c = a)
        /\ c \in Accounts(CycleIds) /\ SameBooks(c, a)
    BY BaselinedOpened, BaselinedAccount
  <1>4. b.loss = (c.loss \/ LossTriggered(c, o))
    <2>1. c \in Accounts(CycleIds)
      BY <1>3
    <2>. HIDE DEF c
    <2>2. Assessed(a, o, key) = [c EXCEPT !.cycles = @ \cup {key},
                                          !.loss = @ \/ LossTriggered(c, o)]
      BY DEF Assessed, c
    <2>. QED BY <2>1, <2>2 DEF Accounts
  <1>5. LossTriggered(c, o) => c.day = DayOf(now)
    BY DEF LossTriggered, Observed
  <1>. HIDE DEF b, c
  <1>6. b.open /\ b.trades = a.trades /\ c.trades = a.trades /\ c.open
    BY <1>1, <1>3 DEF SameBooks
  <1>7. /\ \A t : /\ Before(b, t) = Before(a, t)
                  /\ \A p : EquityBefore(b, t, p) = EquityBefore(a, t, p)
    BY <1>6, PastOfSameTrades
  <1>8. Opened(b)
    <2>1. \A t, p : EquityBefore(b, t, p) = EquityBefore(c, t, p)
      BY <1>6, PastOfSameTrades
    <2>. QED BY <1>1, <1>3, <1>6, <2>1 DEF Opened
  <1>9. Keyed(b)
    BY <1>1, <1>6 DEF Keyed
  <1>10. Succeeds(b, a)
    BY <1>1, <1>2, <1>3, <1>4, <1>6, <1>7, <1>8, <1>9 DEF Succeeds
  <1>. QED BY <1>1, <1>4, <1>5, <1>10 DEF b, c

\* A fill for a candle that had not been evaluated.
LEMMA PostingSucceeds ==
    ASSUME WorldSound, NEW a \in Accounts(CycleIds), NEW b \in Accounts(CycleIds),
           NEW e \in Executions(CycleIds), NEW dk \in Int, Posting(b, a, e, dk),
           e.at = now, NEW o, o.at = now, UnderLimits(a, o),
           Sound(a, now), Keyed(a), Opened(a), a.open, a.day = DayOf(now),
           e.key \in a.cycles, \A k \in DOMAIN a.trades : a.trades[k].key # e.key
    PROVE  Succeeds(b, a)
  <1>1. now \in Nat /\ DayOf(now) \in Nat /\ a.day \in 0 .. DayOf(now)
    BY Clock DEF Opened
  <1>2. Sound(b, now)
    BY <1>1, PostingSound
  <1>3. /\ b.open /\ b.cycles = a.cycles /\ b.day = a.day /\ b.opening = a.opening
        /\ b.loss = a.loss
    BY DEF Posting
  <1>4. ASSUME NEW t \in 0 .. now
        PROVE  /\ Before(b, t) = Before(a, t)
               /\ \A p : EquityBefore(b, t, p) = EquityBefore(a, t, p)
    <2>1. t \in Int /\ t <= e.at
      BY <1>1
    <2>. QED BY <2>1, PastOfPosting
  <1>5. Keyed(b)
    <2>1. /\ DOMAIN b.trades = DOMAIN a.trades \cup {Len(a.trades) + 1}
          /\ \A k \in DOMAIN a.trades : b.trades[k] = a.trades[k]
          /\ b.trades[Len(a.trades) + 1] = e
      BY Appended
    <2>2. /\ \A k \in DOMAIN a.trades : a.trades[k].key \in a.cycles
          /\ \A i, j \in DOMAIN a.trades : a.trades[i].key = a.trades[j].key => i = j
      BY DEF Keyed
    <2>3. \A k \in DOMAIN b.trades : b.trades[k].key \in b.cycles
      BY <1>3, <2>1, <2>2
    <2>4. ASSUME NEW i \in DOMAIN b.trades, NEW j \in DOMAIN b.trades,
                 b.trades[i].key = b.trades[j].key
          PROVE  i = j
      BY <2>1, <2>2, <2>4
    <2>. QED BY <2>3, <2>4 DEF Keyed
  <1>6. Opened(b)
    <2>1. a.day * DayLen \in 0 .. now
      BY <1>1, Clock
    <2>. QED BY <1>1, <1>3, <1>4, <2>1 DEF Opened
  <1>. QED BY <1>1, <1>2, <1>3, <1>4, <1>5, <1>6 DEF Succeeds

LEMMA SucceedsChain ==
    ASSUME NEW a \in Accounts(CycleIds), NEW b, NEW c, Succeeds(b, a), Succeeds(c, b)
    PROVE  Succeeds(c, a)
  <1>1. a.day \in Int /\ b.day \in Int /\ c.day \in Int
    BY AccountFields DEF Succeeds
  <1>. QED BY <1>1 DEF Succeeds

----------------------------------------------------------------------------
(* The worker inside a round *)

\* What the arm whose turn it is has in hand.
LEMMA InRound ==
    ASSUME Inductive, pc \in {"round", "arm", "fill"}
    PROVE  /\ WorldSound /\ RoundSound /\ Observed(obs, now) /\ obs.at = now
           /\ obs.midnight = opens[DayOf(now)] /\ obs.price \in Quotes
           /\ obs.seen \in Nat /\ turn \in 1 .. Len(Order) + 1
           /\ turn <= Len(Order) => Arm \in Arms
           /\ \A a \in Arms :
                /\ arms[a] \in Accounts(CycleIds)
                /\ Sound(arms[a], now) /\ Keyed(arms[a]) /\ Opened(arms[a])
  <1>1. /\ WorldSound /\ RoundSound /\ obs.price \in Quotes /\ obs.seen \in 0 .. now
        /\ turn \in 1 .. Len(Order) + 1
    BY DEF Inductive, WorkerSound
  <1>2. Observed(obs, now) /\ obs.at = now /\ obs.midnight = opens[DayOf(now)]
    BY <1>1, ObsObserved DEF RoundSound
  <1>3. Len(Order) \in Nat
    BY ExperimentAssumption
  <1>4. turn <= Len(Order) => Arm \in Arms
    BY <1>1, <1>3 DEF Arm, Arms
  <1>5. \A a \in Arms :
            /\ arms[a] \in Accounts(CycleIds)
            /\ Sound(arms[a], now) /\ Keyed(arms[a]) /\ Opened(arms[a])
    BY DEF Inductive, ArmsSound, CycleIds
  <1>6. obs.seen \in Nat
    BY <1>1, Clock
  <1>. QED BY <1>1, <1>2, <1>4, <1>5, <1>6

LEMMA EvaluatedSucceeds ==
    ASSUME Inductive, pc \in {"arm", "fill"}, NEW s \in Symbols
    PROVE  /\ Arm \in Arms /\ Key(Arm, s) \in CycleIds
           /\ Succeeds(Evaluated(s), arms[Arm])
           /\ SameBooks(Evaluated(s), arms[Arm])
           /\ Evaluated(s).cycles = arms[Arm].cycles \cup {Key(Arm, s)}
           /\ LossTriggered(Baselined(arms[Arm], obs), obs) =>
                Evaluated(s).loss /\ Evaluated(s).day = DayOf(now)
  <1>. DEFINE a == arms[Arm]
              key == Key(Arm, s)
  <1>1. turn \in 1 .. Len(Order) /\ Arm \in Arms /\ a.open
    <2>1. ArmSound /\ Len(Order) \in Nat
      BY ExperimentAssumption DEF Inductive, WorkerSound
    <2>. QED BY <2>1, InRound DEF ArmSound
  <1>2. key \in CycleIds
    BY <1>1, InRound, KeyType DEF Arm
  <1>3. a \in Accounts(CycleIds) /\ Sound(a, now) /\ Keyed(a) /\ Opened(a)
    BY <1>1, InRound
  <1>4. WorldSound /\ Observed(obs, now) /\ obs.midnight = opens[DayOf(now)]
    BY InRound
  <1>5. Evaluated(s) = Assessed(a, obs, key)
    BY DEF Evaluated
  <1>. HIDE DEF key, a
  <1>6. /\ Succeeds(Assessed(a, obs, key), a)
        /\ SameBooks(Assessed(a, obs, key), a)
        /\ Assessed(a, obs, key).cycles = a.cycles \cup {key}
        /\ LossTriggered(Baselined(a, obs), obs) =>
                /\ Assessed(a, obs, key).loss
                /\ Assessed(a, obs, key).day = DayOf(now)
    BY <1>1, <1>2, <1>3, <1>4, AssessedSucceeds
  <1>. QED BY <1>1, <1>2, <1>5, <1>6 DEF a, key

\* The ledger that Fill commits.
Filled ==
    IF order.side = "BUY"
    THEN Bought(Evaluated(order.symbol), obs, order.symbol, order.lots,
                Key(Arm, order.symbol))
    ELSE Sold(Evaluated(order.symbol), obs, order.symbol, order.lots,
              Key(Arm, order.symbol))

\* What an approved order posts.
LEMMA FilledPosting ==
    ASSUME Inductive, pc = "fill"
    PROVE  LET s == order.symbol
               a == Evaluated(s)
           IN  /\ s \in left /\ s \in Symbols /\ ~Done(s) /\ Filled \in Accounts(CycleIds)
               /\ UnderLimits(a, obs) /\ a.day = DayOf(now)
               /\ \E e \in Executions(CycleIds), dk \in Int :
                    /\ Posting(Filled, a, e, dk)
                    /\ e.at = now /\ e.key = Key(Arm, s)
                    /\ e.qty > 0 => ~a.loss
  <1>. DEFINE s == order.symbol
              a == Evaluated(s)
              key == Key(Arm, s)
              n == order.lots
  <1>1. /\ s \in left /\ left \subseteq Symbols /\ ~Done(s) /\ n > 0
        /\ OrderSound
    BY DEF Inductive, WorkerSound, OrderSound
  <1>2. PICK amount \in Amounts :
            LET sold == SellAmount(a, obs, s, amount)
            IN  \/ /\ order.side = "BUY" /\ n = Lots(amount, obs.price[s])
                   /\ BuyApproved(a, obs, s, amount)
                \/ /\ order.side = "SELL" /\ n = SellLots(a, obs, s, sold)
                   /\ SellApproved(a, obs, s, sold, n)
    BY <1>1 DEF OrderSound
  <1>3. Succeeds(a, arms[Arm]) /\ key \in CycleIds
    BY <1>1, EvaluatedSucceeds
  <1>4. a \in Accounts(CycleIds)
    BY <1>3 DEF Succeeds
  <1>5. /\ Observed(obs, now) /\ obs.at = now
        /\ obs.price[s] \in Nat /\ obs.price[s] > 0
    BY <1>1, InRound, QuoteFields
  <1>6. amount \in Nat
    BY ExperimentAssumption
  <1>7. UnderLimits(a, obs) /\ a.day = DayOf(now)
    BY <1>2, <1>5 DEF BuyApproved, SellApproved, Tradable
  <1>8. CASE /\ order.side = "BUY" /\ n = Lots(amount, obs.price[s])
             /\ BuyApproved(a, obs, s, amount)
    <2>1. Filled = Bought(a, obs, s, n, key)
      BY <1>8 DEF Filled
    <2>2. amount + Fee(amount) <= a.cash /\ ~a.loss
      BY <1>8 DEF BuyApproved, Affordable
    <2>3. s \in Symbols
      BY <1>1
    <2>. HIDE DEF a, key, s, n
    <2>4. /\ Filled \in Accounts(CycleIds)
          /\ \E e \in Executions(CycleIds), dk \in Int :
                /\ Posting(Filled, a, e, dk)
                /\ e.at = now /\ e.key = key /\ e.qty > 0
      BY <1>1, <1>3, <1>4, <1>5, <1>6, <1>8, <2>1, <2>2, <2>3, BoughtPosting
    <2>. QED BY <1>1, <1>7, <2>2, <2>3, <2>4 DEF a, key, s
  <1>9. CASE /\ order.side = "SELL"
             /\ n = SellLots(a, obs, s, SellAmount(a, obs, s, amount))
             /\ SellApproved(a, obs, s, SellAmount(a, obs, s, amount), n)
    <2>1. Filled = Sold(a, obs, s, n, key)
      BY <1>9 DEF Filled
    <2>2. n <= a.qty[s] /\ s \in Symbols
      BY <1>1, <1>9 DEF SellApproved
    <2>3. n \in Nat
      <3>. DEFINE m == SellAmount(a, obs, s, amount)
      <3>1. n = SellLots(a, obs, s, m) /\ s \in Symbols
            /\ obs.price[s] + Slip > 0 /\ obs.price[s] \in Nat
        BY <1>5, <1>9, <2>2, PaperAssumption
      <3>. HIDE DEF n, a, s
      <3>2. m \in Nat
        BY <1>4, <1>6, <3>1, SellNat
      <3>. HIDE DEF m
      <3>. QED BY <1>4, <3>1, <3>2, SellNat
    <2>. HIDE DEF a, key, s, n
    <2>4. /\ Filled \in Accounts(CycleIds)
          /\ \E e \in Executions(CycleIds), dk \in Int :
                /\ Posting(Filled, a, e, dk)
                /\ e.at = now /\ e.key = key /\ e.qty < 0
      BY <1>1, <1>3, <1>4, <1>5, <2>1, <2>2, <2>3, SoldPosting
    <2>5. \E e \in Executions(CycleIds), dk \in Int :
                /\ Posting(Filled, a, e, dk)
                /\ e.at = now /\ e.key = key /\ ~(e.qty > 0)
      <3>1. PICK e \in Executions(CycleIds), dk \in Int :
                /\ Posting(Filled, a, e, dk)
                /\ e.at = now /\ e.key = key /\ e.qty < 0
        BY <2>4
      <3>2. ~(e.qty > 0)
        BY <3>1 DEF Executions
      <3>. QED BY <3>1, <3>2
    <2>. QED BY <1>1, <1>7, <2>2, <2>4, <2>5 DEF a, key, s
  <1>. QED BY <1>2, <1>8, <1>9

LEMMA FilledSucceeds ==
    ASSUME Inductive, pc = "fill"
    PROVE  LET s == order.symbol
           IN  /\ s \in left /\ s \in Symbols
               /\ Succeeds(Filled, arms[Arm])
               /\ Filled.cycles = arms[Arm].cycles \cup {Key(Arm, s)}
               /\ LossTriggered(Baselined(arms[Arm], obs), obs) =>
                    Filled.loss /\ Filled.day = DayOf(now)
  <1>. DEFINE s == order.symbol
              a == Evaluated(s)
              key == Key(Arm, s)
              old == arms[Arm]
  <1>1. PICK e \in Executions(CycleIds), dk \in Int :
            Posting(Filled, a, e, dk) /\ e.at = now /\ e.key = key
    BY FilledPosting
  <1>2. /\ s \in left /\ s \in Symbols /\ ~Done(s) /\ Filled \in Accounts(CycleIds)
        /\ UnderLimits(a, obs) /\ a.day = DayOf(now)
    BY FilledPosting
  <1>3. /\ Succeeds(a, old) /\ SameBooks(a, old) /\ a.cycles = old.cycles \cup {key}
        /\ LossTriggered(Baselined(old, obs), obs) => a.loss /\ a.day = DayOf(now)
        /\ Arm \in Arms
    BY <1>2, EvaluatedSucceeds
  <1>4. /\ a \in Accounts(CycleIds) /\ Sound(a, now) /\ Keyed(a) /\ Opened(a) /\ a.open
    BY <1>3 DEF Succeeds
  <1>5. e.key \in a.cycles
    BY <1>1, <1>3
  <1>6. \A k \in DOMAIN a.trades : a.trades[k].key # e.key
    <2>1. \A k \in DOMAIN old.trades : old.trades[k].key \in old.cycles
      BY <1>3, InRound DEF Keyed
    <2>2. key \notin old.cycles
      BY <1>2 DEF Done
    <2>3. a.trades = old.trades
      BY <1>3 DEF SameBooks
    <2>. QED BY <1>1, <2>1, <2>2, <2>3
  <1>7. WorldSound /\ obs.at = now /\ old \in Accounts(CycleIds)
    BY <1>3, InRound
  <1>8. Filled.cycles = a.cycles /\ Filled.loss = a.loss /\ Filled.day = a.day
    BY <1>1 DEF Posting
  <1>. HIDE DEF a, old, key
  <1>9. Succeeds(Filled, a)
    BY <1>1, <1>2, <1>4, <1>5, <1>6, <1>7, PostingSucceeds
  <1>10. Succeeds(Filled, old)
    BY <1>3, <1>7, <1>9, SucceedsChain
  <1>. QED BY <1>2, <1>3, <1>8, <1>10 DEF a, old, key

----------------------------------------------------------------------------
(* The parts of the invariant, one step later *)

\* A step that leaves the accounts, the sample and the clock alone.
LEMMA Still ==
    ASSUME Inductive, UNCHANGED <<arms, last, world>>
    PROVE  /\ ArmsSound' /\ SampleSound'
           /\ UNCHANGED <<killed, inception>> => WorldSound'
           /\ losses' = losses => LossesKept'
  <1>1. /\ arms' = arms /\ last' = last /\ now' = now /\ opens' = opens
    BY DEF world
  <1>2. ArmsSound /\ SampleSound /\ WorldSound /\ LossesKept
    BY DEF Inductive
  <1>3. ArmsSound'
    BY <1>1, <1>2 DEF ArmsSound, Opened
  <1>4. SampleSound'
    BY <1>1, <1>2 DEF SampleSound, PublishedIsFinal
  <1>5. UNCHANGED <<killed, inception>> => WorldSound'
    BY <1>1, <1>2 DEF WorldSound
  <1>6. losses' = losses => LossesKept'
    BY <1>1, <1>2 DEF LossesKept
  <1>. QED BY <1>3, <1>4, <1>5, <1>6

\* The worker between two rounds.
LEMMA QuietSound ==
    ASSUME NEW p \in {"idle", "collect", "sleep"}, Quiet(p)
    PROVE  WorkerSound'
  <1>1. /\ pc' = p /\ turn' = 1 /\ left' = {} /\ obs' = NoObs
    BY DEF Quiet
  <1>2. Len(Order) \in Nat
    BY ExperimentAssumption
  <1>3. 1 \in 1 .. Len(Order) + 1
    BY <1>2
  <1>. QED BY <1>1, <1>3 DEF WorkerSound, NoObs

TradesUpTo(a, t) == {k \in DOMAIN a.trades : a.trades[k].at <= t}

\* What a sample says of an account, it says of one that succeeds it later.
LEMMA StillFinal ==
    ASSUME NEW a \in Accounts(CycleIds), NEW b, Succeeds(b, a),
           WorldSound, NEW t \in 0 .. now, t # now, NEW p
    PROVE  /\ TradesUpTo(b, t) = TradesUpTo(a, t)
           /\ EquityBefore(b, t + 1, p) = EquityBefore(a, t + 1, p)
  <1>1. now \in Nat /\ b \in Accounts(CycleIds)
    BY Clock DEF Succeeds
  <1>2. t \in Int /\ t + 1 \in 0 .. now
    BY <1>1
  <1>3. ASSUME NEW c \in Accounts(CycleIds)
        PROVE  TradesUpTo(c, t) = Before(c, t + 1)
    <2>1. \A k \in DOMAIN c.trades : c.trades[k].at \in Nat
      BY TradeFields
    <2>2. \A k \in DOMAIN c.trades : c.trades[k].at <= t <=> c.trades[k].at < t + 1
      BY <1>2, <2>1
    <2>. QED BY <2>2 DEF Before, TradesUpTo
  <1>4. /\ Before(b, t + 1) = Before(a, t + 1)
        /\ EquityBefore(b, t + 1, p) = EquityBefore(a, t + 1, p)
    BY <1>2 DEF Succeeds
  <1>. QED BY <1>1, <1>3, <1>4

\* A step of the arm whose turn it is.
LEMMA ArmStep ==
    ASSUME Inductive, pc \in {"round", "arm", "fill"}, ~Sampled, Arm \in Arms,
           NEW b, Succeeds(b, arms[Arm]), arms' = [arms EXCEPT ![Arm] = b],
           UNCHANGED <<last, world>>,
           \/ losses' = losses
           \/ /\ losses' = losses \cup {<<Arm, DayOf(now)>>}
              /\ b.loss /\ b.day = DayOf(now)
    PROVE  ArmsSound' /\ SampleSound' /\ LossesKept'
  <1>1. last' = last /\ now' = now /\ opens' = opens
    BY DEF world
  <1>2. /\ WorldSound /\ obs.at = now
        /\ \A a \in Arms : /\ arms[a] \in Accounts(CycleIds)
                           /\ Sound(arms[a], now) /\ Keyed(arms[a]) /\ Opened(arms[a])
    BY InRound
  <1>3. ArmsSound /\ SampleSound /\ LossesKept
    BY DEF Inductive
  <1>4. /\ b \in Accounts(CycleIds) /\ Sound(b, now) /\ Keyed(b) /\ Opened(b) /\ b.open
        /\ arms[Arm].day <= b.day
        /\ arms[Arm].day = b.day /\ arms[Arm].loss => b.loss
    BY DEF Succeeds
  <1>5. /\ arms \in [Arms -> Accounts(CycleIds)]
        /\ arms' \in [Arms -> Accounts(CycleIds)] /\ arms'[Arm] = b
        /\ \A a \in Arms : a # Arm => arms'[a] = arms[a]
    BY <1>3, <1>4 DEF ArmsSound, CycleIds
  <1>6. ArmsSound'
    <2>1. \A a \in Arms : Sound(arms'[a], now) /\ Keyed(arms'[a]) /\ Opened(arms'[a])
      BY <1>2, <1>4, <1>5
    <2>. QED BY <1>1, <1>5, <2>1 DEF ArmsSound, CycleIds, Opened
  <1>7. SampleSound'
    <2>1. last.bucket \in -1 .. now /\ last.bucket # now /\ now \in Nat
      BY <1>2, <1>3, Clock DEF SampleSound, Sampled
    <2>2. CASE last = NoSample
      BY <1>1, <1>3, <2>1, <2>2 DEF SampleSound, PublishedIsFinal
    <2>3. CASE last # NoSample
      <3>1. /\ last.bucket \in 0 .. now /\ last.price \in Quotes
            /\ \A a \in Arms : arms[a].open
            /\ PublishedIsFinal
        BY <1>3, <2>3 DEF SampleSound
      <3>2. \A a \in Arms : arms'[a].open
        BY <1>4, <1>5, <3>1
      <3>3. ASSUME NEW a \in Arms
            PROVE  /\ last.fills[a] = Cardinality(TradesUpTo(arms'[a], last.bucket))
                   /\ last.equity[a] =
                        EquityBefore(arms'[a], last.bucket + 1, last.price)
        <4>1. /\ last.fills[a] = Cardinality(TradesUpTo(arms[a], last.bucket))
              /\ last.equity[a] =
                        EquityBefore(arms[a], last.bucket + 1, last.price)
          BY <2>3, <3>1 DEF PublishedIsFinal, TradesUpTo
        <4>2. CASE a # Arm
          BY <1>5, <4>1, <4>2
        <4>3. CASE a = Arm
          <5>1. /\ TradesUpTo(b, last.bucket) = TradesUpTo(arms[a], last.bucket)
                /\ EquityBefore(b, last.bucket + 1, last.price)
                    = EquityBefore(arms[a], last.bucket + 1, last.price)
            <6>. DEFINE c == arms[a]
                        t == last.bucket
                        p == last.price
            <6>1. /\ c \in Accounts(CycleIds) /\ Succeeds(b, c)
                  /\ WorldSound /\ t \in 0 .. now /\ t # now
              BY <1>2, <2>1, <3>1, <4>3
            <6>. HIDE DEF c, t, p
            <6>2. /\ TradesUpTo(b, t) = TradesUpTo(c, t)
                  /\ EquityBefore(b, t + 1, p) = EquityBefore(c, t + 1, p)
              BY <6>1, StillFinal
            <6>. QED BY <6>2 DEF c, t, p
          <5>. QED BY <1>5, <4>1, <4>3, <5>1
        <4>. QED BY <4>2, <4>3
      <3>4. PublishedIsFinal'
        BY <1>1, <3>3 DEF PublishedIsFinal, TradesUpTo
      <3>. QED BY <1>1, <2>1, <3>1, <3>2, <3>4 DEF SampleSound
    <2>. QED BY <2>2, <2>3
  <1>8. LossesKept'
    <2>1. DayOf(now) \in Nat
      BY <1>2, Clock
    <2>2. losses' \subseteq Arms \X Nat
      BY <1>3, <2>1 DEF LossesKept
    <2>3. ASSUME NEW l \in losses'
          PROVE  /\ l[2] <= arms'[l[1]].day
                 /\ l[2] = arms'[l[1]].day => arms'[l[1]].loss
      <3>1. l[1] \in Arms /\ l[2] \in Nat
        BY <2>2
      <3>2. arms[Arm].day \in Int /\ b.day \in Int
        BY <1>2, <1>4, AccountFields
      <3>3. CASE l \in losses
        <4>1. /\ l[2] <= arms[l[1]].day
              /\ l[2] = arms[l[1]].day => arms[l[1]].loss
          BY <1>3, <3>3 DEF LossesKept
        <4>2. CASE l[1] # Arm
          BY <1>5, <3>1, <4>1, <4>2
        <4>3. CASE l[1] = Arm
          BY <1>4, <1>5, <3>1, <3>2, <4>1, <4>3
        <4>. QED BY <4>2, <4>3
      <3>4. CASE l \notin losses
        <4>1. l[1] = Arm /\ l[2] = DayOf(now) /\ b.loss /\ b.day = DayOf(now)
          BY <3>4
        <4>. QED BY <1>5, <2>1, <4>1
      <3>. QED BY <3>3, <3>4
    <2>. QED BY <2>2, <2>3 DEF LossesKept
  <1>. QED BY <1>6, <1>7, <1>8

\* What the round has behind it stays behind it.
LEMMA RoundKept ==
    ASSUME Inductive, RoundSound, Arm \in Arms, NEW b, Succeeds(b, arms[Arm]),
           arms' = [arms EXCEPT ![Arm] = b], UNCHANGED <<turn, obs, world>>
    PROVE  RoundSound'
  <1>1. now' = now /\ opens' = opens /\ turn' = turn /\ obs' = obs
    BY DEF world
  <1>2. \A a, s : Key(a, s)' = Key(a, s)
    BY <1>1 DEF Key, Newest
  <1>3. turn \in 1 .. Len(Order) + 1 /\ Len(Order) \in Nat
    BY ExperimentAssumption DEF Inductive, WorkerSound
  <1>4. b.open /\ arms[Arm].cycles \subseteq b.cycles
    BY DEF Succeeds
  <1>5. arms \in [Arms -> Accounts(CycleIds)]
    BY DEF Inductive, ArmsSound, CycleIds
  <1>6. ASSUME NEW i \in 1 .. turn - 1
        PROVE  /\ arms'[Order[i]].open
               /\ \A s \in Symbols : Key(Order[i], s) \in arms'[Order[i]].cycles
    <2>1. /\ arms[Order[i]].open
          /\ \A s \in Symbols : Key(Order[i], s) \in arms[Order[i]].cycles
      BY DEF RoundSound
    <2>2. Order[i] \in Arms
      BY <1>3 DEF Arms
    <2>3. CASE Order[i] = Arm
      BY <1>4, <1>5, <2>1, <2>2, <2>3
    <2>4. CASE Order[i] # Arm
      BY <1>5, <2>1, <2>2, <2>4
    <2>. QED BY <2>3, <2>4
  <1>. QED BY <1>1, <1>2, <1>6 DEF RoundSound

----------------------------------------------------------------------------
(* The actions *)

LEMMA InitInductive == Init => Inductive
  <1>. SUFFICES ASSUME Init PROVE Inductive
    OBVIOUS
  <1>1. /\ arms = [a \in Arms |-> NewArm] /\ last = NoSample /\ inception = None
        /\ killed = FALSE /\ losses = {} /\ pc = "idle" /\ turn = 1 /\ left = {}
        /\ obs = NoObs /\ now = 0 /\ opens = [d \in {0} |-> CHOOSE q \in Quotes : TRUE]
    BY DEF Init
  <1>2. DayOf(0) = 0
    BY PaperAssumption, Divided DEF DayOf
  <1>3. ArmsSound
    <2>1. NewArm \in Accounts(CycleIds) /\ Sound(NewArm, 0)
      BY NewArmAccount, NewArmSound
    <2>2. NewArm.open = FALSE /\ NewArm.trades = <<>>
      BY DEF NewArm
    <2>3. Keyed(NewArm) /\ Opened(NewArm)
      BY <2>2 DEF Keyed, Opened
    <2>4. \A a \in Arms : arms[a] = NewArm
      BY <1>1
    <2>. HIDE DEF NewArm
    <2>5. arms \in [Arms -> Accounts(CycleIds)]
      BY <1>1, <2>1
    <2>. QED BY <1>1, <2>1, <2>3, <2>4, <2>5 DEF ArmsSound, CycleIds
  <1>4. SampleSound
    <2>1. last.bucket = -1
      BY <1>1 DEF NoSample
    <2>. QED BY <1>1, <2>1 DEF SampleSound, PublishedIsFinal
  <1>5. LossesKept
    BY <1>1 DEF LossesKept
  <1>6. WorldSound
    <2>1. (CHOOSE q \in Quotes : TRUE) \in Quotes
      BY ExperimentAssumption
    <2>2. 0 .. DayOf(0) = {0}
      BY <1>2
    <2>3. opens \in [0 .. DayOf(0) -> Quotes]
      BY <1>1, <2>1, <2>2
    <2>. QED BY <1>1, <2>3 DEF WorldSound
  <1>7. WorkerSound
    <2>1. Len(Order) \in Nat
      BY ExperimentAssumption
    <2>2. 1 \in 1 .. Len(Order) + 1
      BY <2>1
    <2>. QED BY <1>1, <2>2 DEF WorkerSound, NoObs
  <1>. QED BY <1>3, <1>4, <1>5, <1>6, <1>7 DEF Inductive

\* The worker begins, gives up, or ends, without a trace.
LEMMA QuietStep ==
    ASSUME Inductive, NEW p \in {"idle", "collect", "sleep"}, Quiet(p),
           UNCHANGED <<durable, killed, world>>
    PROVE  Inductive'
  <1>1. UNCHANGED <<arms, last, world>> /\ losses' = losses
        /\ UNCHANGED <<killed, inception>>
    BY DEF durable
  <1>. QED BY <1>1, Still, QuietSound DEF Inductive

LEMMA CollectStep ==
    ASSUME Inductive, Collect PROVE Inductive'
  <1>1. /\ UNCHANGED <<arms, last, world>> /\ losses' = losses
        /\ UNCHANGED <<killed, inception>>
        /\ pc = "collect" /\ pc' = "sample" /\ turn' = turn /\ left' = left
        /\ now' = now
    BY DEF Collect, durable, world
  <1>2. PICK q \in Quotes : obs' = [NoObs EXCEPT !.seen = now, !.price = q]
    BY DEF Collect
  <1>3. /\ obs' = [seen |-> now, at |-> -1, price |-> q, fresh |-> FALSE,
                   candle |-> FALSE, midnight |-> None]
    BY <1>2 DEF NoObs
  <1>4. WorkerSound /\ now \in Nat
    BY Clock DEF Inductive
  <1>5. obs'.price \in Quotes /\ obs'.seen \in 0 .. now'
    BY <1>1, <1>3, <1>4
  <1>6. WorkerSound'
    BY <1>1, <1>3, <1>4, <1>5 DEF WorkerSound
  <1>. QED BY <1>1, <1>6, Still DEF Inductive

LEMMA SampleStep ==
    ASSUME Inductive, Sample PROVE Inductive'
  <1>1. /\ UNCHANGED <<arms, last, world>> /\ losses' = losses /\ killed' = killed
        /\ pc = "sample" /\ pc' = "round" /\ turn' = turn /\ left' = left
        /\ now' = now /\ opens' = opens
        /\ inception' = IF inception = None THEN obs.price ELSE inception
    BY DEF Sample, world
  <1>2. PICK fresh \in BOOLEAN, served \in BOOLEAN :
            obs' = [obs EXCEPT
                !.at = now, !.fresh = fresh, !.midnight = opens[DayOf(now)],
                !.candle = /\ DayOf(obs.seen) = DayOf(now)
                           /\ obs.seen % DayLen = 0 => served]
    BY DEF Sample
  <1>3. WorkerSound /\ WorldSound /\ turn = 1 /\ obs.price \in Quotes
        /\ obs.seen \in 0 .. now
        /\ obs = [seen |-> obs.seen, at |-> obs.at, price |-> obs.price,
                  fresh |-> obs.fresh, candle |-> obs.candle, midnight |-> obs.midnight]
    BY <1>1 DEF Inductive, WorkerSound
  <1>. DEFINE c == /\ DayOf(obs.seen) = DayOf(now)
                   /\ obs.seen % DayLen = 0 => served
  <1>4. c \in BOOLEAN
    OBVIOUS
  <1>5. obs' = [obs EXCEPT !.at = now, !.fresh = fresh,
                           !.midnight = opens[DayOf(now)], !.candle = c]
    BY <1>2
  <1>. HIDE DEF c
  <1>6. /\ obs'.at = now /\ obs'.fresh = fresh /\ obs'.candle = c
        /\ obs'.midnight = opens[DayOf(now)]
        /\ obs'.price = obs.price /\ obs'.seen = obs.seen
        /\ obs' = [seen |-> obs'.seen, at |-> obs'.at, price |-> obs'.price,
                   fresh |-> obs'.fresh, candle |-> obs'.candle,
                   midnight |-> obs'.midnight]
    BY <1>3, <1>5
  <1>7. RoundSound'
    BY <1>1, <1>3, <1>4, <1>6 DEF RoundSound
  <1>8. WorkerSound'
    BY <1>1, <1>3, <1>6, <1>7 DEF WorkerSound
  <1>9. WorldSound'
    BY <1>1, <1>3 DEF WorldSound
  <1>. QED BY <1>1, <1>8, <1>9, Still DEF Inductive

LEMMA EnterArmStep ==
    ASSUME Inductive, EnterArm PROVE Inductive'
  <1>1. /\ pc = "round" /\ pc' = "arm" /\ ~Sampled /\ turn <= Len(Order)
        /\ arms' = [arms EXCEPT ![Arm] = Initialized(@, obs.at)]
        /\ left' = Symbols /\ UNCHANGED <<last, world>> /\ losses' = losses
        /\ UNCHANGED <<killed, inception>> /\ UNCHANGED <<turn, obs, world>>
    BY DEF EnterArm
  <1>2. /\ WorldSound /\ RoundSound /\ obs.at = now /\ Arm \in Arms
        /\ \A a \in Arms :
                /\ arms[a] \in Accounts(CycleIds)
                /\ Sound(arms[a], now) /\ Keyed(arms[a]) /\ Opened(arms[a])
    BY <1>1, InRound
  <1>. DEFINE b == Initialized(arms[Arm], now)
  <1>3. Succeeds(b, arms[Arm])
    BY <1>2, InitializedSucceeds
  <1>4. arms' = [arms EXCEPT ![Arm] = b]
    BY <1>1, <1>2
  <1>. HIDE DEF b
  <1>5. ArmsSound' /\ SampleSound' /\ LossesKept'
    BY <1>1, <1>2, <1>3, <1>4, ArmStep
  <1>6. RoundSound'
    BY <1>1, <1>2, <1>3, <1>4, RoundKept
  <1>7. WorldSound'
    BY <1>1, <1>2 DEF WorldSound, world
  <1>8. ArmSound'
    <2>1. arms \in [Arms -> Accounts(CycleIds)]
      BY DEF Inductive, ArmsSound, CycleIds
    <2>2. arms'[Arm].open
      BY <1>2, <1>3, <1>4, <2>1 DEF Succeeds
    <2>3. Arm' = Arm /\ turn' = turn /\ ~Sampled'
      BY <1>1 DEF Arm, Sampled
    <2>. QED BY <1>1, <2>2, <2>3 DEF ArmSound
  <1>9. WorkerSound'
    <2>1. WorkerSound /\ now' = now
      BY <1>1 DEF Inductive, world
    <2>2. turn' = turn /\ obs' = obs /\ left' = Symbols /\ pc' = "arm"
      BY <1>1
    <2>. QED BY <1>1, <1>6, <1>8, <2>1, <2>2 DEF WorkerSound
  <1>. QED BY <1>5, <1>7, <1>9 DEF Inductive

LEMMA SkipStep ==
    ASSUME Inductive, NEW s \in Symbols, Skip(s) PROVE Inductive'
  <1>1. /\ pc = "arm" /\ Done(s) /\ left' = left \ {s}
        /\ UNCHANGED <<arms, last, world>> /\ losses' = losses
        /\ UNCHANGED <<killed, inception>>
        /\ pc' = pc /\ turn' = turn /\ obs' = obs /\ now' = now /\ opens' = opens
        /\ arms' = arms /\ last' = last
    BY DEF Skip, durable, world
  <1>2. WorkerSound /\ RoundSound /\ ArmSound
    BY <1>1 DEF Inductive, WorkerSound
  <1>3. /\ \A x : Done(x)' = Done(x)
        /\ \A a, x : Key(a, x)' = Key(a, x)
    BY <1>1 DEF Done, Key, Newest, Arm
  <1>4. ArmSound'
    BY <1>1, <1>2, <1>3 DEF ArmSound, Sampled, Arm
  <1>5. RoundSound'
    BY <1>1, <1>2, <1>3 DEF RoundSound
  <1>6. WorkerSound'
    BY <1>1, <1>2, <1>4, <1>5 DEF WorkerSound
  <1>. QED BY <1>1, <1>6, Still DEF Inductive

\* An evaluation commits, with or without a fill.
LEMMA CommitStep ==
    ASSUME Inductive, pc \in {"arm", "fill"}, NEW s \in Symbols, NEW b, Commit(s, b),
           Succeeds(b, arms[Arm]), Key(Arm, s) \in b.cycles,
           LossTriggered(Baselined(arms[Arm], obs), obs) =>
                b.loss /\ b.day = DayOf(now),
           UNCHANGED <<last, inception, killed, turn, obs, asleep, world>>
    PROVE  Inductive'
  <1>1. /\ arms' = [arms EXCEPT ![Arm] = b]
        /\ losses' = IF LossTriggered(Baselined(arms[Arm], obs), obs)
                     THEN losses \cup {<<Arm, DayOf(obs.at)>>} ELSE losses
        /\ left' = left \ {s} /\ pc' = "arm"
        /\ UNCHANGED <<last, world>> /\ UNCHANGED <<turn, obs, world>>
        /\ turn' = turn /\ obs' = obs /\ now' = now /\ opens' = opens
        /\ last' = last /\ killed' = killed /\ inception' = inception
    BY DEF Commit, world
  <1>2. WorkerSound /\ RoundSound /\ ArmSound /\ WorldSound
    BY DEF Inductive, WorkerSound
  <1>3. obs.at = now /\ Arm \in Arms /\ ~Sampled /\ arms[Arm] \in Accounts(CycleIds)
    BY <1>2, InRound DEF ArmSound
  <1>4. \/ losses' = losses
        \/ /\ losses' = losses \cup {<<Arm, DayOf(now)>>}
           /\ b.loss /\ b.day = DayOf(now)
    BY <1>1, <1>3
  <1>5. ArmsSound' /\ SampleSound' /\ LossesKept'
    BY <1>1, <1>3, <1>4, ArmStep
  <1>6. RoundSound'
    BY <1>1, <1>2, <1>3, RoundKept
  <1>7. ArmSound'
    <2>1. arms \in [Arms -> Accounts(CycleIds)]
      BY DEF Inductive, ArmsSound, CycleIds
    <2>2. arms'[Arm] = b /\ b.open /\ arms[Arm].cycles \subseteq b.cycles
      BY <1>1, <1>3, <2>1 DEF Succeeds
    <2>3. Arm' = Arm /\ turn' = turn /\ ~Sampled' /\ \A x : Key(Arm, x)' = Key(Arm, x)
      BY <1>1, <1>3 DEF Arm, Sampled, Key, Newest
    <2>4. \A x \in Symbols \ left : Key(Arm, x) \in b.cycles
      BY <1>2, <2>2 DEF ArmSound, Done
    <2>5. \A x \in Symbols \ left' : Key(Arm, x) \in b.cycles
      BY <1>1, <2>4
    <2>6. \A x : Done(x)' <=> Key(Arm, x) \in b.cycles
      BY <1>1, <2>2 DEF Done, Key, Newest, Arm
    <2>. QED BY <1>2, <2>2, <2>3, <2>5, <2>6 DEF ArmSound
  <1>8. WorkerSound'
    BY <1>1, <1>2, <1>6, <1>7 DEF WorkerSound
  <1>9. WorldSound'
    BY <1>1, <1>2 DEF WorldSound
  <1>. QED BY <1>5, <1>8, <1>9 DEF Inductive

LEMMA PassStep ==
    ASSUME Inductive, NEW s \in Symbols, Pass(s) PROVE Inductive'
  <1>1. /\ pc = "arm" /\ Commit(s, Evaluated(s))
        /\ UNCHANGED <<last, inception, killed, turn, obs, asleep, world>>
    BY DEF Pass
  <1>2. /\ Succeeds(Evaluated(s), arms[Arm])
        /\ Key(Arm, s) \in Evaluated(s).cycles
        /\ LossTriggered(Baselined(arms[Arm], obs), obs) =>
                Evaluated(s).loss /\ Evaluated(s).day = DayOf(now)
    BY <1>1, EvaluatedSucceeds
  <1>. QED BY <1>1, <1>2, CommitStep

LEMMA FillStep ==
    ASSUME Inductive, Fill PROVE Inductive'
  <1>. DEFINE s == order.symbol
  <1>1. /\ pc = "fill" /\ Commit(s, Filled)
        /\ UNCHANGED <<last, inception, killed, turn, obs, asleep, world>>
    BY DEF Fill, Filled
  <1>2. /\ s \in Symbols /\ Succeeds(Filled, arms[Arm])
        /\ Key(Arm, s) \in Filled.cycles
        /\ LossTriggered(Baselined(arms[Arm], obs), obs) =>
                Filled.loss /\ Filled.day = DayOf(now)
    BY <1>1, FilledSucceeds
  <1>. HIDE DEF s
  <1>. QED BY <1>1, <1>2, CommitStep

LEMMA ProposeStep ==
    ASSUME Inductive, NEW s \in Symbols, Propose(s) PROVE Inductive'
  <1>1. /\ pc = "arm" /\ pc' = "fill" /\ s \in left /\ ~Done(s)
        /\ UNCHANGED <<arms, last, world>> /\ losses' = losses
        /\ UNCHANGED <<killed, inception>>
        /\ turn' = turn /\ obs' = obs /\ left' = left /\ now' = now /\ opens' = opens
        /\ arms' = arms /\ last' = last
    BY DEF Propose, durable, world
  <1>2. WorkerSound /\ RoundSound /\ ArmSound
    BY <1>1 DEF Inductive, WorkerSound
  <1>3. /\ \A x : Done(x)' = Done(x)
        /\ \A a, x : Key(a, x)' = Key(a, x)
        /\ \A x : Evaluated(x)' = Evaluated(x)
    BY <1>1 DEF Done, Key, Newest, Arm, Evaluated
  <1>4. ArmSound'
    BY <1>1, <1>2, <1>3 DEF ArmSound, Sampled, Arm
  <1>5. RoundSound'
    BY <1>1, <1>2, <1>3 DEF RoundSound
  <1>6. PICK amount \in Amounts :
            LET a == Evaluated(s)
                sold == SellAmount(a, obs, s, amount)
                bid == Lots(amount, obs.price[s])
                offer == SellLots(a, obs, s, sold)
            IN  \/ /\ bid > 0 /\ BuyApproved(a, obs, s, amount)
                   /\ order' = [side |-> "BUY", symbol |-> s, lots |-> bid]
                \/ /\ offer > 0 /\ SellApproved(a, obs, s, sold, offer)
                   /\ order' = [side |-> "SELL", symbol |-> s, lots |-> offer]
    BY DEF Propose
  <1>. DEFINE a == Evaluated(s)
              sold == SellAmount(a, obs, s, amount)
              bid == Lots(amount, obs.price[s])
              offer == SellLots(a, obs, s, sold)
  <1>7. \/ /\ bid > 0 /\ BuyApproved(a, obs, s, amount)
           /\ order' = [side |-> "BUY", symbol |-> s, lots |-> bid]
        \/ /\ offer > 0 /\ SellApproved(a, obs, s, sold, offer)
           /\ order' = [side |-> "SELL", symbol |-> s, lots |-> offer]
    BY <1>6
  <1>8. /\ order'.symbol = s /\ order'.lots > 0
        /\ \/ /\ order'.side = "BUY" /\ order'.lots = bid
              /\ BuyApproved(a, obs, s, amount)
           \/ /\ order'.side = "SELL" /\ order'.lots = offer
              /\ SellApproved(a, obs, s, sold, order'.lots)
    <2>. HIDE DEF a, sold, bid, offer
    <2>. QED BY <1>7
  <1>9. OrderSound'
    <2>1. Evaluated(s)' = Evaluated(s) /\ ~Done(s)' /\ s \in left'
      BY <1>1, <1>3
    <2>. QED BY <1>1, <1>8, <2>1 DEF OrderSound, Evaluated, Done, Key, Newest, Arm
  <1>10. WorkerSound'
    BY <1>1, <1>2, <1>4, <1>5, <1>9 DEF WorkerSound
  <1>. QED BY <1>1, <1>10, Still DEF Inductive

LEMMA MarkStep ==
    ASSUME Inductive, Mark PROVE Inductive'
  <1>1. /\ pc = "arm" /\ pc' = "round" /\ left = {} /\ left' = {} /\ turn' = turn + 1
        /\ UNCHANGED <<arms, last, world>> /\ losses' = losses
        /\ UNCHANGED <<killed, inception>>
        /\ obs' = obs /\ now' = now /\ opens' = opens /\ arms' = arms
    BY DEF Mark, AllDone, durable, world
  <1>2. WorkerSound /\ RoundSound /\ ArmSound
    BY <1>1 DEF Inductive, WorkerSound
  <1>3. turn \in 1 .. Len(Order) /\ Len(Order) \in Nat
    <2>1. Len(Order) \in Nat /\ turn \in 1 .. Len(Order) + 1 /\ turn <= Len(Order)
      BY <1>2, ExperimentAssumption DEF WorkerSound, ArmSound
    <2>. QED BY <2>1
  <1>4. \A a, x : Key(a, x)' = Key(a, x)
    BY <1>1 DEF Key, Newest
  <1>5. /\ arms[Order[turn]].open
        /\ \A s \in Symbols : Key(Order[turn], s) \in arms[Order[turn]].cycles
    BY <1>1, <1>2 DEF ArmSound, Done, Arm
  <1>6. \A i \in 1 .. turn :
            /\ arms[Order[i]].open
            /\ \A s \in Symbols : Key(Order[i], s) \in arms[Order[i]].cycles
    <2>1. \A i \in 1 .. turn : i = turn \/ i \in 1 .. turn - 1
      BY <1>3
    <2>. QED BY <1>2, <1>5, <2>1 DEF RoundSound
  <1>7. turn' - 1 = turn /\ turn' \in 1 .. Len(Order) + 1
    BY <1>1, <1>3
  <1>8. RoundSound'
    BY <1>1, <1>2, <1>4, <1>6, <1>7 DEF RoundSound
  <1>9. WorkerSound'
    BY <1>1, <1>2, <1>7, <1>8 DEF WorkerSound
  <1>. QED BY <1>1, <1>9, Still DEF Inductive

\* What a round that publishes has seen.
LEMMA Evaluations ==
    ASSUME Inductive, Publish
    PROVE  \A a \in Arms : /\ arms[a].open
                           /\ \A s \in Symbols : Key(a, s) \in arms[a].cycles
  <1>1. pc = "round" /\ turn > Len(Order)
    BY DEF Publish
  <1>2. RoundSound /\ turn \in 1 .. Len(Order) + 1 /\ Len(Order) \in Nat
    BY <1>1, ExperimentAssumption DEF Inductive, WorkerSound
  <1>3. turn - 1 = Len(Order)
    BY <1>1, <1>2
  <1>4. \A i \in 1 .. Len(Order) :
            /\ arms[Order[i]].open
            /\ \A s \in Symbols : Key(Order[i], s) \in arms[Order[i]].cycles
    BY <1>2, <1>3 DEF RoundSound
  <1>. QED BY <1>4 DEF Arms

LEMMA PublishStep ==
    ASSUME Inductive, Publish PROVE Inductive'
  <1>1. /\ pc = "round" /\ Quiet("sleep") /\ arms' = arms /\ losses' = losses
        /\ killed' = killed /\ inception' = inception /\ now' = now /\ opens' = opens
        /\ last' = [bucket |-> obs.at, price |-> obs.price,
                fills |-> [a \in Arms |-> Len(arms[a].trades)],
                equity |-> [a \in Arms |-> Equity(arms[a], obs.price)]]
    BY DEF Publish, world
  <1>2. /\ WorldSound /\ obs.at = now /\ now \in Nat /\ obs.price \in Quotes
        /\ \A a \in Arms : /\ arms[a] \in Accounts(CycleIds) /\ arms[a].open
                           /\ Sound(arms[a], now)
    BY <1>1, InRound, Evaluations, Clock
  <1>3. /\ last'.bucket = now /\ last'.price = obs.price
        /\ \A a \in Arms : /\ last'.fills[a] = Len(arms[a].trades)
                           /\ last'.equity[a] = Equity(arms[a], obs.price)
    BY <1>1, <1>2
  <1>4. ASSUME NEW a \in Arms
        PROVE  /\ Len(arms[a].trades) = Cardinality({k \in DOMAIN arms[a].trades :
                                            arms[a].trades[k].at <= now})
               /\ Equity(arms[a], obs.price)
                    = EquityBefore(arms[a], now + 1, obs.price)
    <2>1. /\ Len(arms[a].trades) \in Nat
          /\ DOMAIN arms[a].trades = 1 .. Len(arms[a].trades)
      BY <1>2, DomainFinite
    <2>2. \A k \in DOMAIN arms[a].trades :
                arms[a].trades[k].at \in Nat /\ arms[a].trades[k].at <= now
      BY <1>2, TradeFields DEF Sound, Dated
    <2>3. {k \in DOMAIN arms[a].trades : arms[a].trades[k].at <= now}
            = 1 .. Len(arms[a].trades)
      BY <2>1, <2>2
    <2>4. Cardinality(1 .. Len(arms[a].trades)) = Len(arms[a].trades)
      BY <2>1, FS_Interval
    <2>5. \A k \in DOMAIN arms[a].trades : arms[a].trades[k].at < now + 1
      BY <1>2, <2>2
    <2>6. EquityBefore(arms[a], now + 1, obs.price) = Equity(arms[a], obs.price)
      BY <1>2, <2>5, PastIsNow DEF Sound
    <2>. QED BY <2>3, <2>4, <2>6
  <1>5. PublishedIsFinal'
    BY <1>1, <1>3, <1>4 DEF PublishedIsFinal
  <1>6. SampleSound'
    BY <1>1, <1>2, <1>3, <1>5 DEF SampleSound
  <1>7. ArmsSound' /\ LossesKept' /\ WorldSound'
    BY <1>1 DEF Inductive, ArmsSound, Opened, LossesKept, WorldSound
  <1>8. WorkerSound'
    BY <1>1, QuietSound
  <1>. QED BY <1>6, <1>7, <1>8 DEF Inductive

\* The stop moves between two steps of the worker.
LEMMA StopStep ==
    ASSUME Inductive, killed' \in BOOLEAN, UNCHANGED <<durable, pc, round, world>>
    PROVE  Inductive'
  <1>1. /\ arms' = arms /\ last' = last /\ losses' = losses /\ inception' = inception
        /\ pc' = pc /\ turn' = turn /\ left' = left /\ obs' = obs /\ order' = order
        /\ now' = now /\ opens' = opens /\ UNCHANGED <<arms, last, world>>
    BY DEF durable, round, world
  <1>2. WorldSound'
    BY <1>1 DEF Inductive, WorldSound
  <1>3. WorkerSound /\ \A a, x : Key(a, x)' = Key(a, x)
    BY <1>1 DEF Inductive, Key, Newest
  <1>4. RoundSound' <=> RoundSound
    BY <1>1, <1>3 DEF RoundSound
  <1>5. ArmSound' <=> ArmSound
    BY <1>1, <1>3 DEF ArmSound, Sampled, Arm, Done
  <1>6. OrderSound' <=> OrderSound
    BY <1>1 DEF OrderSound, Evaluated, Done, Key, Newest, Arm
  <1>7. WorkerSound'
    BY <1>1, <1>3, <1>4, <1>5, <1>6 DEF WorkerSound
  <1>. QED BY <1>1, <1>2, <1>7, Still DEF Inductive

\* One clock unit is at most one day more.
LEMMA NextDay ==
    ASSUME NEW t \in Nat
    PROVE  /\ DayOf(t) \in Nat /\ DayOf(t + 1) \in Nat
           /\ DayOf(t) <= DayOf(t + 1) /\ DayOf(t + 1) <= DayOf(t) + 1
  <1>. DEFINE d == DayOf(t)
              e == DayOf(t + 1)
  <1>1. /\ d \in Nat /\ e \in Nat /\ d <= e /\ t + 1 \in Nat
        /\ t < (d + 1) * DayLen /\ e * DayLen <= t + 1
    BY DayOrder
  <1>. HIDE DEF d, e
  <1>2. DayLen \in Nat /\ DayLen >= 1
    BY PaperAssumption
  <1>3. ASSUME e >= d + 2 PROVE FALSE
    <2>1. (d + 2) * DayLen <= e * DayLen
      BY <1>1, <1>2, <1>3
    <2>2. (d + 2) * DayLen = (d + 1) * DayLen + DayLen
      BY <1>1, <1>2
    <2>3. (d + 1) * DayLen \in Nat /\ e * DayLen \in Nat /\ (d + 2) * DayLen \in Nat
      BY <1>1, <1>2
    <2>. QED BY <1>1, <1>2, <2>1, <2>2, <2>3
  <1>4. e <= d + 1
    BY <1>1, <1>3
  <1>. QED BY <1>1, <1>4 DEF d, e

\* Time passes: an account of yesterday is one of today, with the same books.
LEMMA TickStep ==
    ASSUME Inductive, Tick PROVE Inductive'
  <1>1. /\ arms' = arms /\ last' = last /\ losses' = losses /\ inception' = inception
        /\ killed' = killed /\ pc' = pc /\ turn' = turn /\ left' = left /\ obs' = obs
        /\ pc \in {"idle", "collect", "sample", "sleep"} /\ now' = now + 1
    BY DEF Tick, durable, round
  <1>2. /\ WorldSound /\ now \in Nat /\ now' \in Nat
        /\ opens \in [0 .. DayOf(now) -> Quotes]
    BY <1>1, Clock DEF Inductive, WorldSound
  <1>3. /\ DayOf(now) \in Nat /\ DayOf(now') \in Nat
        /\ DayOf(now) <= DayOf(now') /\ DayOf(now') <= DayOf(now) + 1
    BY <1>1, <1>2, NextDay
  <1>4. /\ opens' \in [0 .. DayOf(now') -> Quotes]
        /\ \A d \in 0 .. DayOf(now) : opens'[d] = opens[d]
    <2>1. CASE DayOf(now') = DayOf(now)
      BY <1>2, <2>1 DEF Tick
    <2>2. CASE DayOf(now') # DayOf(now)
      <3>1. PICK q \in Quotes :
                opens' = [d \in 0 .. DayOf(now') |->
                            IF d = DayOf(now') THEN q ELSE opens[d]]
        BY <2>2 DEF Tick
      <3>2. \A d \in 0 .. DayOf(now') : d = DayOf(now') \/ d \in 0 .. DayOf(now)
        BY <1>3
      <3>3. \A d \in 0 .. DayOf(now) : d \in 0 .. DayOf(now') /\ d # DayOf(now')
        BY <1>3, <2>2
      <3>. QED BY <1>2, <3>1, <3>2, <3>3
    <2>. QED BY <2>1, <2>2
  <1>5. ArmsSound'
    <2>1. ArmsSound
      BY DEF Inductive
    <2>2. ASSUME NEW a \in Arms PROVE Sound(arms[a], now') /\ Opened(arms[a])'
      <3>1. arms[a] \in Accounts(CycleIds) /\ Sound(arms[a], now) /\ Opened(arms[a])
        BY <2>1 DEF ArmsSound, CycleIds
      <3>2. CASE arms[a].open
        <4>1. Sound(arms[a], now')
          <5>1. now <= now' /\ SameBooks(arms[a], arms[a])
            BY <1>1, <1>2 DEF SameBooks
          <5>. QED BY <1>2, <3>1, <3>2, <5>1, SoundLater
        <4>2. /\ arms[a].day \in 0 .. DayOf(now)
              /\ arms[a].opening = EquityBefore(arms[a], arms[a].day * DayLen,
                                                opens[arms[a].day])
          BY <3>1, <3>2 DEF Opened
        <4>3. arms[a].day \in 0 .. DayOf(now') /\ opens'[arms[a].day] = opens[arms[a].day]
          BY <1>3, <1>4, <4>2
        <4>4. Opened(arms[a])'
          BY <1>1, <4>2, <4>3 DEF Opened
        <4>. QED BY <4>1, <4>4
      <3>3. CASE ~arms[a].open
        <4>1. Sound(arms[a], now')
          BY <1>2, <3>1, <3>3, SoundUnopened
        <4>2. Opened(arms[a])'
          BY <1>1, <3>3 DEF Opened
        <4>. QED BY <4>1, <4>2
      <3>. QED BY <3>2, <3>3
    <2>3. \A a \in Arms : Sound(arms'[a], now') /\ Keyed(arms'[a])
      BY <1>1, <2>1, <2>2 DEF ArmsSound
    <2>4. arms' \in [Arms -> Accounts(Symbols \X Int)]
      BY <1>1, <2>1 DEF ArmsSound
    <2>. QED BY <2>2, <2>3, <2>4 DEF ArmsSound
  <1>6. SampleSound'
    <2>1. SampleSound /\ \A b : b \in -1 .. now => b \in -1 .. now'
      BY <1>1, <1>2 DEF Inductive
    <2>2. \A b : b \in 0 .. now => b \in 0 .. now'
      BY <1>1, <1>2
    <2>. QED BY <1>1, <2>1, <2>2 DEF SampleSound, PublishedIsFinal
  <1>7. LossesKept'
    BY <1>1 DEF Inductive, LossesKept
  <1>8. WorldSound'
    BY <1>1, <1>2, <1>4 DEF WorldSound
  <1>9. WorkerSound'
    <2>1. WorkerSound /\ \A b : b \in 0 .. now => b \in 0 .. now'
      BY <1>1, <1>2 DEF Inductive
    <2>. QED BY <1>1, <2>1 DEF WorkerSound
  <1>. QED BY <1>5, <1>6, <1>7, <1>8, <1>9 DEF Inductive

LEMMA StepInductive ==
    ASSUME Inductive, [Next]_vars PROVE Inductive'
  <1>1. ASSUME NEW p \in {"idle", "collect", "sleep"}, Quiet(p),
               UNCHANGED <<durable, killed, world>>
        PROVE  Inductive'
    BY <1>1, QuietStep
  <1>2. CASE StartWorker \/ CollectFailed \/ Wake \/ Stale \/ Repeated
    BY <1>1, <1>2 DEF StartWorker, CollectFailed, Wake, Stale, Repeated
  <1>3. CASE FillStopped \/ Unavailable \/ Crash
    BY <1>1, <1>3 DEF FillStopped, Unavailable, Crash
  <1>4. CASE Collect
    BY <1>4, CollectStep
  <1>5. CASE Sample
    BY <1>5, SampleStep
  <1>6. CASE EnterArm
    BY <1>6, EnterArmStep
  <1>7. ASSUME NEW s \in Symbols, Skip(s) \/ Pass(s) \/ Propose(s) PROVE Inductive'
    BY <1>7, SkipStep, PassStep, ProposeStep
  <1>8. CASE Fill
    BY <1>8, FillStep
  <1>9. CASE Mark
    BY <1>9, MarkStep
  <1>10. CASE Publish
    BY <1>10, PublishStep
  <1>11. CASE Kill \/ Resume
    BY <1>11, StopStep DEF Kill, Resume
  <1>12. CASE Tick
    BY <1>12, TickStep
  <1>13. CASE UNCHANGED vars
    <2>1. killed \in BOOLEAN
      BY DEF Inductive, WorldSound
    <2>. QED BY <1>13, <2>1, StopStep DEF vars
  <1>. QED BY <1>2, <1>3, <1>4, <1>5, <1>6, <1>7, <1>8, <1>9, <1>10, <1>11, <1>12, <1>13
       DEF Next, Worker

----------------------------------------------------------------------------
(* Theorems *)

\* The invariant that the properties rest on: whatever the interleaving of the
\* worker with crashes, restarts and the stop, each ledger accounts for its
\* capital by its trades, opened its day with what it was worth at midnight, and
\* remembers its candles and its losses (_assess, _fill, sample).
THEOREM InductiveHolds == Spec => []Inductive
  <1>1. Init => Inductive
    BY InitInductive
  <1>2. Inductive /\ [Next]_vars => Inductive'
    BY StepInductive
  <1>. QED BY <1>1, <1>2, PTL DEF Spec

\* Types, and that cash, quantities and cost bases never go below zero: the check
\* at the end of _fill never fires, however the fees round.
THEOREM TypesHold == Spec => []TypeOK
  <1>1. Inductive => TypeOK
    <2>. SUFFICES ASSUME Inductive PROVE TypeOK
      OBVIOUS
    <2>1. \A a \in Arms : arms[a] \in Accounts(CycleIds)
      BY DEF Inductive, ArmsSound, CycleIds
    <2>2. ASSUME NEW a \in Arms
          PROVE  /\ {arms[a].cash, arms[a].opening} \subseteq Nat
                 /\ \A s \in Symbols : arms[a].qty[s] \in Nat /\ arms[a].cost[s] \in Nat
                 /\ arms[a].open \in BOOLEAN /\ arms[a].loss \in BOOLEAN
                 /\ arms[a].realized \in Int
      BY <2>1, AccountFields
    <2>. QED BY <2>2 DEF TypeOK, Inductive, SampleSound, WorldSound, WorkerSound
  <1>. QED BY <1>1, InductiveHolds, PTL

\* Through any sequence of purchases, partial sales, rounded fees and proportional
\* cost bases, the realized profit explains the cash (_fill, realized_pnl).
THEOREM BooksBalanceHolds == Spec => []BooksBalance
  <1>1. Inductive => BooksBalance
    BY DEF Inductive, ArmsSound, Sound, Balanced, BooksBalance
  <1>. QED BY <1>1, InductiveHolds, PTL

\* A crash between the database of an arm and the published sample, a restart or a
\* repeated round never trades a candle twice (_evaluate, the cycle id).
THEOREM OneFillPerCandleHolds == Spec => []OneFillPerCandle
  <1>1. Inductive => OneFillPerCandle
    BY DEF Inductive, ArmsSound, Keyed, OneFillPerCandle
  <1>. QED BY <1>1, InductiveHolds, PTL

\* The limits of the risk engine, checked against the history of one ledger, hold
\* of the ledger over all its days (RiskService.history, UnderLimits).
THEOREM TradesSpacedHolds == Spec => []TradesSpaced
  <1>1. Inductive => TradesSpaced
    <2>. SUFFICES ASSUME Inductive, NEW a \in Arms
                  PROVE  /\ Spaced(arms[a])
                         /\ \A d : Cardinality(TradesOn(arms[a], d)) <= MaxTrades
      BY DEF TradesSpaced, Spaced
    <2>1. Spaced(arms[a]) /\ Limited(arms[a])
      BY DEF Inductive, ArmsSound, Sound
    <2>2. ASSUME NEW d PROVE Cardinality(TradesOn(arms[a], d)) <= MaxTrades
      <3>1. CASE TradesOn(arms[a], d) = {}
        BY <3>1, FS_EmptySet, PaperAssumption
      <3>2. CASE TradesOn(arms[a], d) # {}
        <4>1. PICK k \in DOMAIN arms[a].trades : DayOf(arms[a].trades[k].at) = d
          BY <3>2 DEF TradesOn
        <4>. QED BY <2>1, <4>1 DEF Limited
      <3>. QED BY <3>1, <3>2
    <2>. QED BY <2>1, <2>2
  <1>. QED BY <1>1, InductiveHolds, PTL

\* The day's loss is counted from midnight even when the first evaluation of the
\* day comes hours later, after a crash or a night of failed rounds (_baseline).
THEOREM OpeningHolds == Spec => []OpeningIsMidnightEquity
  <1>1. Inductive => OpeningIsMidnightEquity
    BY DEF Inductive, ArmsSound, Opened, OpeningIsMidnightEquity
  <1>. QED BY <1>1, InductiveHolds, PTL

\* No later trade falls into a published bucket, so what a sample said of trades
\* and equity is still what the ledgers say (sample, report).
THEOREM PublishedIsFinalHolds == Spec => []PublishedIsFinal
  <1>1. Inductive => PublishedIsFinal
    BY DEF Inductive, SampleSound
  <1>. QED BY <1>1, InductiveHolds, PTL

\* Once a committed assessment saw the daily loss, no restart, resume or new round
\* lets the arm buy again that day (DAILY_BUY_LOSS_STOP).
THEOREM NoBuyAfterLossHolds == Spec => NoBuyAfterLoss
  <1>. DEFINE Kept == \A a \in Arms : BuysNow(a) => <<a, DayOf(obs.at)>> \notin losses
  <1>1. Inductive /\ [Next]_vars => [Kept]_vars
    <2>. SUFFICES ASSUME Inductive, Next, NEW a \in Arms, BuysNow(a)
                  PROVE  <<a, DayOf(obs.at)>> \notin losses
      BY DEF vars
    <2>1. /\ Len(arms'[a].trades) > Len(arms[a].trades)
          /\ arms'[a].trades[Len(arms[a].trades) + 1].qty > 0
      BY DEF BuysNow
    <2>2. arms \in [Arms -> Accounts(CycleIds)] /\ LossesKept
      BY DEF Inductive, ArmsSound, CycleIds
    <2>3. Len(arms[a].trades) \in Nat
      BY <2>2, DomainFinite
    <2>4. ASSUME NEW b, arms' = [arms EXCEPT ![Arm] = b], b.trades = arms[Arm].trades
          PROVE  FALSE
      BY <2>1, <2>2, <2>3, <2>4
    <2>5. arms' # arms
      BY <2>1, <2>3
    <2>6. CASE EnterArm
      <3>1. /\ arms' = [arms EXCEPT ![Arm] = Initialized(arms[Arm], obs.at)]
            /\ pc = "round" /\ turn <= Len(Order)
        BY <2>6 DEF EnterArm
      <3>2. Initialized(arms[Arm], obs.at).trades = arms[Arm].trades
        <4>1. /\ Arm \in Arms /\ obs.at = now /\ now \in Nat
              /\ arms[Arm] \in Accounts(CycleIds) /\ Sound(arms[Arm], now)
          BY <3>1, InRound, Clock
        <4>. QED BY <4>1, InitializedSound
      <3>. QED BY <2>4, <3>1, <3>2
    <2>7. ASSUME NEW s \in Symbols, Pass(s) PROVE FALSE
      <3>1. arms' = [arms EXCEPT ![Arm] = Evaluated(s)] /\ pc = "arm"
        BY <2>7 DEF Pass, Commit
      <3>2. Evaluated(s).trades = arms[Arm].trades
        BY <3>1, EvaluatedSucceeds DEF SameBooks
      <3>. QED BY <2>4, <3>1, <3>2
    <2>8. CASE Fill
      <3>. DEFINE s == order.symbol
                  c == Evaluated(s)
      <3>1. arms' = [arms EXCEPT ![Arm] = Filled] /\ pc = "fill"
        BY <2>8 DEF Fill, Commit, Filled
      <3>2. PICK e \in Executions(CycleIds), dk \in Int :
                Posting(Filled, c, e, dk) /\ (e.qty > 0 => ~c.loss)
        BY <3>1, FilledPosting
      <3>3. c.day = DayOf(now) /\ s \in Symbols
        BY <3>1, FilledPosting
      <3>4. /\ Succeeds(c, arms[Arm]) /\ SameBooks(c, arms[Arm]) /\ Arm \in Arms
        BY <3>1, <3>3, EvaluatedSucceeds
      <3>5. a = Arm
        BY <2>1, <2>2, <2>3, <3>1
      <3>6. e.qty > 0
        <4>1. Filled.trades[Len(c.trades) + 1] = e
          <5>1. c \in Accounts(CycleIds)
            BY <3>4 DEF Succeeds
          <5>2. Filled.trades = Append(c.trades, e)
            BY <3>2 DEF Posting
          <5>. HIDE DEF c
          <5>3. c.trades \in Seq(Executions(CycleIds))
            BY <5>1, AccountFields
          <5>. QED BY <5>2, <5>3
        <4>2. arms'[a] = Filled
          BY <2>2, <3>1, <3>5
        <4>3. c.trades = arms[a].trades
          BY <3>4, <3>5 DEF SameBooks
        <4>. HIDE DEF c
        <4>. QED BY <2>1, <4>1, <4>2, <4>3
      <3>7. ~c.loss
        BY <3>2, <3>6
      <3>8. /\ arms[Arm].day <= c.day
            /\ arms[Arm].day = c.day /\ arms[Arm].loss => c.loss
        BY <3>4 DEF Succeeds
      <3>9. arms[Arm].day \in Int /\ DayOf(now) \in Int /\ obs.at = now
        BY <2>2, <3>1, <3>4, AccountFields, Clock, InRound
      <3>10. ASSUME <<a, DayOf(obs.at)>> \in losses PROVE FALSE
        <4>1. /\ DayOf(now) <= arms[Arm].day
              /\ DayOf(now) = arms[Arm].day => arms[Arm].loss
          BY <2>2, <3>5, <3>9, <3>10 DEF LossesKept
        <4>. QED BY <3>3, <3>7, <3>8, <3>9, <4>1
      <3>. QED BY <3>10
    <2>9. CASE UNCHANGED arms
      BY <2>5, <2>9
    <2>. QED BY <2>6, <2>7, <2>8, <2>9
         DEF Next, Worker, StartWorker, Collect, CollectFailed, Wake, Stale, Sample,
             Repeated, Skip, Propose, FillStopped, Mark, Unavailable, Publish, Crash,
             Kill, Resume, Tick, durable
  <1>. QED BY <1>1, InductiveHolds, PTL DEF Spec, NoBuyAfterLoss

\* A round appears only when every arm has evaluated the newest candle of every
\* symbol, now or before a crash, and in a later bucket than the one before it.
THEOREM RoundIsWholeHolds == Spec => RoundIsWhole
  <1>. DEFINE Whole == last' # last =>
                /\ last'.bucket > last.bucket
                /\ \A a \in Arms, s \in Symbols : Key(a, s) \in arms[a].cycles
  <1>1. Inductive /\ [Next]_vars => [Whole]_vars
    <2>. SUFFICES ASSUME Inductive, Next, last' # last
                  PROVE  /\ last'.bucket > last.bucket
                         /\ \A a \in Arms, s \in Symbols : Key(a, s) \in arms[a].cycles
      BY DEF vars
    <2>1. Publish
      BY DEF Next, Worker, StartWorker, Collect, CollectFailed, Wake, Stale, Sample,
             Repeated, EnterArm, Skip, Pass, Propose, Fill, FillStopped, Mark,
             Unavailable, Crash, Kill, Resume, Tick, durable
    <2>2. last'.bucket = obs.at /\ obs.at # last.bucket /\ pc = "round"
      BY <2>1 DEF Publish, Sampled
    <2>3. obs.at = now /\ now \in Nat /\ last.bucket \in -1 .. now
      BY <2>2, InRound, Clock DEF Inductive, SampleSound
    <2>. QED BY <2>1, <2>2, <2>3, Evaluations
  <1>. QED BY <1>1, InductiveHolds, PTL DEF Spec, RoundIsWhole

=============================================================================
