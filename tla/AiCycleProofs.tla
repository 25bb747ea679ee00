---------------------------- MODULE AiCycleProofs ----------------------------
(***************************************************************************)
(* The properties of the AI worker, proved for every value of its          *)
(* constants from the invariant Inductive.  What a fill does to the        *)
(* account rests on the lemmas of PaperProofs.                             *)
(***************************************************************************)
EXTENDS AiCycle, PaperProofs, SequenceTheorems

(* Amounts *)

\* Paid more for, a purchase costs no less with its fee; and a sale brings no less.
LEMMA WithFeeMonotone ==
    ASSUME NEW x \in Int, NEW y \in Int, x <= y
    PROVE  x + Fee(x) <= y + Fee(y) /\ x - Fee(x) <= y - Fee(y)
  <1>. DEFINE d == FeeDiv
              a == x \div d
              b == y \div d
  <1>1. d \in Nat \ {0}
    BY PaperAssumption
  <1>. HIDE DEF d
  <1>2. a \in Int /\ b \in Int /\ a <= b
    BY <1>1, DividedMonotone
  <1>3. a * d <= x /\ x < a * d + d /\ b * d <= y /\ y < b * d + d
    BY <1>1
  <1>. HIDE DEF a, b
  <1>4. CASE a = b
    BY <1>2, <1>3, <1>4 DEF Fee, a, b, d
  <1>5. CASE a < b
    <2>1. x - a <= a * d + d - 1 - a /\ b * d - b <= y - b
      <3>1. a * d \in Int /\ b * d \in Int
        BY <1>1, <1>2
      <3>. QED BY <1>1, <1>2, <1>3, <3>1
    <2>2. a * d + d - 1 - a = (a + 1) * (d - 1) /\ b * d - b = b * (d - 1)
      BY <1>1, <1>2
    <2>3. (a + 1) * (d - 1) <= b * (d - 1)
      BY <1>1, <1>2, <1>5
    <2>4. x - a <= y - b
      <3>1. /\ (a + 1) * (d - 1) \in Int /\ b * (d - 1) \in Int
            /\ a * d \in Int /\ b * d \in Int
        BY <1>1, <1>2
      <3>. QED BY <1>1, <1>2, <2>1, <2>2, <2>3, <3>1
    <2>. QED BY <1>2, <2>4 DEF Fee, a, b, d
  <1>. QED BY <1>2, <1>4, <1>5

LEMMA TimesMonotone ==
    ASSUME NEW n \in Nat, NEW x \in Int, NEW y \in Int, x <= y
    PROVE  n * x \in Int /\ n * y \in Int /\ n * x <= n * y
  OBVIOUS

LEMMA MinOfFour ==
    ASSUME NEW w \in Int, NEW x \in Int, NEW y \in Int, NEW z \in Int
    PROVE  LET m == Min({w, x, y, z})
           IN  m \in Int /\ m <= w /\ m <= x /\ m <= y /\ m <= z
  <1>1. \E m \in {w, x, y, z} : \A v \in {w, x, y, z} : m <= v
    <2>1. PICK a \in {w, x} : a <= w /\ a <= x
      OBVIOUS
    <2>2. PICK b \in {y, z} : b <= y /\ b <= z
      OBVIOUS
    <2>3. CASE a <= b
      BY <2>1, <2>2, <2>3
    <2>4. CASE b <= a
      BY <2>1, <2>2, <2>4
    <2>. QED BY <2>1, <2>2, <2>3, <2>4
  <1>. DEFINE m == Min({w, x, y, z})
  <1>2. m \in {w, x, y, z} /\ \A v \in {w, x, y, z} : m <= v
    BY <1>1 DEF Min
  <1>. HIDE DEF m
  <1>3. m \in Int /\ m <= w /\ m <= x /\ m <= y /\ m <= z
    BY <1>2
  <1>. QED BY <1>3 DEF m

LEMMA MaxWithZero ==
    ASSUME NEW x \in Int
    PROVE  Max({0, x}) \in Nat /\ (Max({0, x}) > 0 => Max({0, x}) = x)
  <1>1. \E m \in {0, x} : \A v \in {0, x} : m >= v
    OBVIOUS
  <1>. DEFINE m == Max({0, x})
  <1>2. m \in {0, x} /\ \A v \in {0, x} : m >= v
    BY <1>1 DEF Max
  <1>. HIDE DEF m
  <1>3. m \in Nat /\ (m > 0 => m = x)
    BY <1>2
  <1>. QED BY <1>3 DEF m

----------------------------------------------------------------------------
(* Budgets *)

LEMMA QuoteFields ==
    ASSUME NEW q \in Quotes
    PROVE  /\ q \in [Symbols -> Nat]
           /\ \A s \in Symbols : q[s] \in Nat /\ q[s] > 0 /\ q[s] >= Slip
  BY AiAssumption

\* What is left of the cash after the fee.
LEMMA CashCovers ==
    ASSUME NEW cash \in Nat, NEW buy \in Nat,
           buy <= (cash * FeeDiv) \div (FeeDiv + 1)
    PROVE  buy + Fee(buy) <= cash
  <1>. DEFINE F == FeeDiv
              f == Fee(buy)
  <1>1. F \in Nat \ {0} /\ f \in Nat /\ f * F <= buy
    BY PaperAssumption, FeeBounds, DividedTimes DEF Fee
  <1>. HIDE DEF F, f
  <1>2. buy * (F + 1) <= cash * F
    <2>. DEFINE x == cash * F
                q == x \div (F + 1)
    <2>1. x \in Nat /\ F + 1 \in Nat \ {0}
      BY <1>1
    <2>. HIDE DEF x
    <2>2. q * (F + 1) <= x /\ q \in 0 .. x
      BY <2>1, Divided, DividedTimes
    <2>3. buy <= q
      BY DEF x, F
    <2>. HIDE DEF q
    <2>4. buy * (F + 1) <= q * (F + 1)
      BY <1>1, <2>1, <2>2, <2>3
    <2>5. buy * (F + 1) \in Int /\ q * (F + 1) \in Int
      BY <1>1, <2>2
    <2>. QED BY <2>1, <2>2, <2>4, <2>5 DEF x
  <1>3. (buy + f) * F <= cash * F
    <2>1. (buy + f) * F = buy * F + f * F /\ buy * (F + 1) = buy * F + buy
      BY <1>1
    <2>2. buy * F \in Int /\ f * F \in Int /\ cash * F \in Int
      BY <1>1
    <2>. QED BY <1>1, <1>2, <2>1, <2>2
  <1>4. buy + f <= cash
    BY <1>1, <1>3
  <1>. QED BY <1>4 DEF f

\* What is left of the allocation after the loss a purchase marks: the fee, and
\* what a lot is bought above its price.
LEMMA MarkedLossCovered ==
    ASSUME NEW X \in Nat, NEW U \in Nat \ {0}, NEW buy \in Nat, NEW n \in Nat,
           NEW f \in Nat, n * U <= buy, f * FeeDiv <= buy,
           buy <= (X * U * FeeDiv)
                    \div (100 * U * FeeDiv + AllocPct * (Slip * FeeDiv + U))
    PROVE  100 * buy + AllocPct * (Slip * n + f) <= X
  <1>. DEFINE F == FeeDiv
              A == AllocPct
              L == Slip
  <1>0. F \in Nat \ {0} /\ A \in Nat /\ L \in Nat
    BY PaperAssumption
  <1>12. f * F <= buy /\ buy <= (X * U * F) \div (100 * U * F + A * (L * F + U))
    OBVIOUS
  <1>. HIDE DEF F, A, L
  <1>. DEFINE V == U * F
              c == L * F + U
              D == 100 * U * F + A * c
  <1>1. V \in Nat \ {0} /\ c \in Nat \ {0} /\ A * c \in Nat
    BY <1>0
  <1>2. 100 * U * F = 100 * V /\ X * U * F = X * V
    BY <1>0
  <1>3. D = 100 * V + A * c
    BY <1>0, <1>2
  <1>4. buy * D <= X * V
    <2>. DEFINE y == X * V
                q == y \div D
    <2>1. y \in Nat /\ D \in Nat \ {0}
      <3>. HIDE DEF V, c, D
      <3>. QED BY <1>1, <1>3
    <2>2. buy <= q
      BY <1>2, <1>12
    <2>. HIDE DEF y, D
    <2>3. q * D <= y /\ q \in 0 .. y
      BY <2>1, Divided, DividedTimes
    <2>. HIDE DEF q
    <2>4. buy * D <= q * D
      BY <2>1, <2>2, <2>3
    <2>5. buy * D \in Int /\ q * D \in Int
      BY <2>1, <2>3
    <2>. QED BY <2>1, <2>3, <2>4, <2>5 DEF y
  <1>5. (L * n + f) * V <= buy * c
    <2>1. (L * n + f) * V = (L * F) * (n * U) + U * (f * F)
      BY <1>0
    <2>2. (L * F) * (n * U) <= (L * F) * buy
      <3>1. L * F \in Nat /\ n * U \in Int
        BY <1>0
      <3>. QED BY <1>0, <1>12, <3>1, TimesMonotone
    <2>3. U * (f * F) <= U * buy
      <3>1. f * F \in Int
        BY <1>0
      <3>. QED BY <1>0, <1>12, <3>1, TimesMonotone
    <2>4. (L * F) * buy + U * buy = buy * c
      BY <1>0
    <2>5. /\ (L * F) * (n * U) \in Int /\ (L * F) * buy \in Int
          /\ U * (f * F) \in Int /\ U * buy \in Int
      BY <1>0
    <2>. QED BY <2>1, <2>2, <2>3, <2>4, <2>5
  <1>6. (100 * buy + A * (L * n + f)) * V <= X * V
    <2>. DEFINE g == (L * n + f) * V
                h == buy * c
    <2>1. g \in Int /\ h \in Int /\ g <= h
      BY <1>0, <1>5
    <2>2. (100 * buy + A * (L * n + f)) * V = (100 * buy) * V + A * g
      BY <1>0
    <2>3. A * g <= A * h /\ A * g \in Int /\ A * h \in Int
      <3>. HIDE DEF g, h
      <3>. QED BY <1>0, <2>1, TimesMonotone
    <2>4. buy * D = (100 * buy) * V + A * h
      <3>1. buy * D = buy * (100 * V + A * c)
        BY <1>0, <1>3
      <3>2. buy * (100 * V + A * c) = (100 * buy) * V + A * (buy * c)
        <4>. HIDE DEF V, c
        <4>. QED BY <1>0, <1>1
      <3>. QED BY <3>1, <3>2
    <2>5. (100 * buy) * V \in Int /\ X * V \in Int
      BY <1>0, <1>1
    <2>. HIDE DEF g, h, V, D
    <2>. QED BY <1>4, <2>2, <2>3, <2>4, <2>5
  <1>. DEFINE z == 100 * buy + A * (L * n + f)
  <1>7. z \in Int
    BY <1>0
  <1>. HIDE DEF V, z
  <1>8. z <= X
    BY <1>1, <1>6, <1>7 DEF z
  <1>. QED BY <1>8 DEF z, A, L

\* The parts of a budget, and what a purchase may be at most.
LEMMA BudgetParts ==
    ASSUME NEW K, NEW a \in Accounts(K), NEW q \in Quotes, NEW s \in Symbols
    PROVE  LET b == TradeBudget(a, q, s)
           IN  /\ b.buy \in Int /\ b.sell \in Int
               /\ b.buy <= (a.cash * FeeDiv) \div (FeeDiv + 1)
               /\ b.buy <= Max({0, TotalLimit - Worth(a.qty, q)})
               /\ b.buy <= Allocation(a, q, s)
  <1>. DEFINE cash == (a.cash * FeeDiv) \div (FeeDiv + 1)
              room == Max({0, TotalLimit - Worth(a.qty, q)})
              alloc == Allocation(a, q, s)
              held == a.qty[s] * Upper(q[s])
              sale == IF ExitPolicy = 1 THEN (held * FeeDiv) \div (FeeDiv + 1) ELSE held
  <1>1. /\ a.cash \in Nat /\ a.qty[s] \in Nat /\ q[s] \in Nat /\ q[s] > 0
        /\ a.qty \in [Symbols -> Nat] /\ q \in [Symbols -> Nat]
        /\ Slip \in Nat /\ FeeDiv \in Nat \ {0} /\ OrderLimit \in Nat
        /\ AllocPct \in Nat /\ TotalLimit \in Nat
    BY AccountFields, QuoteFields, PaperAssumption
  <1>2. cash \in Int
    <2>1. a.cash * FeeDiv \in Nat /\ FeeDiv + 1 \in Nat \ {0}
      BY <1>1
    <2>. QED BY <2>1, Divided
  <1>3. room \in Int
    <2>1. TotalLimit - Worth(a.qty, q) \in Int
      BY <1>1, WorthNat
    <2>. QED BY <2>1, MaxWithZero
  <1>4. alloc \in Int
    <2>. DEFINE U == Upper(q[s])
                x == AllocPct * Equity(a, q) - 100 * a.qty[s] * q[s]
                y == Max({0, x}) * U * FeeDiv
                d == 100 * U * FeeDiv + AllocPct * (Slip * FeeDiv + U)
    <2>1. U \in Nat \ {0} /\ x \in Int
      <3>1. Equity(a, q) \in Nat
        BY <1>1, EquityNat
      <3>. QED BY <1>1, <3>1 DEF Upper
    <2>2. Max({0, x}) \in Nat
      BY <2>1, MaxWithZero
    <2>. HIDE DEF U, x
    <2>3. y \in Nat
      BY <1>1, <2>1, <2>2
    <2>4. d \in Nat \ {0}
      <3>1. 100 * U * FeeDiv \in Nat \ {0}
        BY <1>1, <2>1
      <3>2. AllocPct * (Slip * FeeDiv + U) \in Nat
        BY <1>1, <2>1
      <3>. QED BY <3>1, <3>2
    <2>. HIDE DEF y, d
    <2>5. y \div d \in Int
      BY <2>3, <2>4, Divided
    <2>6. alloc = y \div d
      BY DEF Allocation, U, x, y, d
    <2>. QED BY <2>5, <2>6
  <1>5. sale \in Int
    <2>1. held \in Nat
      BY <1>1 DEF Upper
    <2>. HIDE DEF held
    <2>2. held * FeeDiv \in Nat /\ FeeDiv + 1 \in Nat \ {0}
      BY <1>1, <2>1
    <2>3. (held * FeeDiv) \div (FeeDiv + 1) \in Int
      BY <2>2, Divided
    <2>. QED BY <2>1, <2>3
  <1>6. TradeBudget(a, q, s) = [buy |-> Min({OrderLimit, cash, room, alloc}),
                                sell |-> Min({OrderLimit, sale})]
    BY DEF TradeBudget
  <1>. HIDE DEF cash, room, alloc, sale
  <1>7. OrderLimit \in Int
    BY <1>1
  <1>8. LET m == Min({OrderLimit, cash, room, alloc})
        IN  m \in Int /\ m <= cash /\ m <= room /\ m <= alloc
    BY <1>2, <1>3, <1>4, <1>7, MinOfFour
  <1>9. Min({OrderLimit, sale}) \in Int
    <2>1. Min({OrderLimit, sale}) \in {OrderLimit, sale}
      BY <1>5, <1>7, MinOfTwo, Zenon
    <2>. QED BY <1>5, <1>7, <2>1
  <1>. QED BY <1>6, <1>8, <1>9 DEF cash, room, alloc

\* What an account is told it may buy for, it can afford.
LEMMA BudgetAffordable ==
    ASSUME NEW K, NEW a \in Accounts(K), NEW q \in Quotes, NEW s \in Symbols,
           NEW buy, buy = TradeBudget(a, q, s).buy, buy > 0
    PROVE  Affordable(a, [price |-> q], s, buy)
  <1>. DEFINE U == Upper(q[s])
              n == Lots(buy, q[s])
              f == Fee(buy)
              x == AllocPct * Equity(a, q) - 100 * a.qty[s] * q[s]
              X == Max({0, x})
              room == TotalLimit - Worth(a.qty, q)
  <1>1. /\ a.cash \in Nat /\ a.qty[s] \in Nat /\ q[s] \in Nat /\ q[s] > 0
        /\ Worth(a.qty, q) \in Nat /\ Equity(a, q) \in Nat
        /\ Slip \in Nat /\ FeeDiv \in Nat \ {0}
        /\ AllocPct \in Nat /\ TotalLimit \in Nat
    <2>1. a.qty \in [Symbols -> Nat] /\ a.cash \in Nat /\ q \in [Symbols -> Nat]
      BY AccountFields, QuoteFields
    <2>2. Worth(a.qty, q) \in Nat /\ Equity(a, q) \in Nat
      BY <2>1, WorthNat, EquityNat
    <2>. QED BY <2>1, <2>2, QuoteFields, PaperAssumption
  <1>2. /\ buy \in Nat
        /\ buy <= (a.cash * FeeDiv) \div (FeeDiv + 1)
        /\ buy <= Max({0, room}) /\ buy <= Allocation(a, q, s)
    <2>1. buy \in Int /\ buy > 0
      BY BudgetParts
    <2>2. buy \in Nat
      BY <2>1
    <2>. QED BY <2>2, BudgetParts
  <1>3. buy + f <= a.cash
    BY <1>1, <1>2, CashCovers
  <1>4. Worth(a.qty, q) + buy <= TotalLimit
    <2>1. room \in Int
      BY <1>1
    <2>2. Max({0, room}) \in Nat /\ (Max({0, room}) > 0 => Max({0, room}) = room)
      <3>. HIDE DEF room
      <3>. QED BY <2>1, MaxWithZero
    <2>3. buy <= room
      <3>. DEFINE m == Max({0, room})
      <3>. HIDE DEF m, room
      <3>1. buy > 0 /\ buy <= m /\ buy \in Nat
        BY <1>2 DEF m, room
      <3>2. m \in Nat /\ (m > 0 => m = room)
        BY <2>2 DEF m
      <3>. QED BY <3>1, <3>2
    <2>. QED BY <1>1, <1>2, <2>1, <2>3
  <1>5. U \in Nat \ {0} /\ x \in Int
    BY <1>1 DEF Upper
  <1>6. X \in Nat /\ (X > 0 => X = x)
    <2>. HIDE DEF x
    <2>. QED BY <1>5, MaxWithZero
  <1>7. n \in Nat /\ n * U <= buy /\ f \in Nat /\ f * FeeDiv <= buy
    <2>1. n \in Nat
      BY <1>2, <1>5, Divided DEF Lots
    <2>2. n * U <= buy
      BY <1>2, <1>5, DividedTimes DEF Lots
    <2>3. f \in Nat /\ f * FeeDiv <= buy
      <3>1. f \in 0 .. buy
        BY <1>2, FeeBounds
      <3>2. f * FeeDiv <= buy
        BY <1>1, <1>2, DividedTimes DEF Fee
      <3>. QED BY <1>2, <3>1, <3>2
    <2>. QED BY <2>1, <2>2, <2>3
  <1>8. buy <= (X * U * FeeDiv) \div (100 * U * FeeDiv + AllocPct * (Slip * FeeDiv + U))
    BY <1>2 DEF Allocation
  <1>. HIDE DEF U, n, f, X, x
  <1>9. 100 * buy + AllocPct * (Slip * n + f) <= X
    BY <1>1, <1>2, <1>5, <1>6, <1>7, <1>8, MarkedLossCovered
  <1>10. X = x
    <2>. DEFINE z == AllocPct * (Slip * n + f)
    <2>1. z \in Nat
      <3>1. Slip * n + f \in Nat
        BY <1>1, <1>7
      <3>. QED BY <1>1, <3>1
    <2>. HIDE DEF z
    <2>2. 100 * buy + z <= X /\ buy > 0
      BY <1>9 DEF z
    <2>. QED BY <1>2, <1>6, <2>1, <2>2
  <1>11. 100 * (a.qty[s] * q[s] + buy) <= AllocPct * (Equity(a, q) - (Slip * n + f))
    <2>. DEFINE g == Slip * n + f
                v == a.qty[s] * q[s]
                E == Equity(a, q)
    <2>1. g \in Nat /\ v \in Nat
      BY <1>1, <1>7
    <2>2. x = AllocPct * E - 100 * v
      BY <1>1 DEF x
    <2>3. 100 * buy + AllocPct * g <= AllocPct * E - 100 * v
      BY <1>9, <1>10, <2>2
    <2>. HIDE DEF g, v, E
    <2>4. E \in Nat
      BY <1>1 DEF E
    <2>5. AllocPct * g \in Nat /\ AllocPct * E \in Nat
          /\ AllocPct * (E - g) = AllocPct * E - AllocPct * g
      BY <1>1, <2>1, <2>4
    <2>6. 100 * (v + buy) <= AllocPct * (E - g)
      BY <1>2, <2>1, <2>3, <2>5
    <2>. QED BY <2>6 DEF g, v, E
  <1>. QED BY <1>3, <1>4, <1>11 DEF Affordable, WithinAllocation, n, f

----------------------------------------------------------------------------
(* A fill *)

Ids == {CycleId}

\* What a cycle works on.
LEMMA AtWork ==
    ASSUME Inductive, pc \in Stages
    PROVE  /\ Sym \in Symbols /\ Tail(left) \in Seq(Symbols)
           /\ quote.price \in Quotes /\ now \in Nat
           /\ arm \in Accounts(Ids) /\ Sound(arm, now) /\ arm.open
  <1>1. left \in Seq(Symbols) /\ left # <<>> /\ quote.price \in Quotes
    BY DEF Inductive, TypeOK
  <1>2. Sym \in Symbols /\ Tail(left) \in Seq(Symbols)
    BY <1>1, HeadTailProperties DEF Sym
  <1>3. pc # "idle"
    BY DEF Stages
  <1>4. now \in Nat
    BY AiAssumption DEF Inductive, TypeOK
  <1>. QED BY <1>1, <1>2, <1>3, <1>4 DEF Inductive, TypeOK, AccountSound, Ids

LEMMA ObsObserved ==
    ASSUME Inductive, pc \in Stages, NEW candle, NEW midnight \in Quotes
    PROVE  /\ Observed(Obs(candle, midnight), now) /\ Obs(candle, midnight).at = now
           /\ Obs(candle, midnight).price = quote.price
  BY AtWork, QuoteFields DEF Obs, Observed

\* An evaluation leaves the account as sound as it was.
LEMMA LedgerSound ==
    ASSUME Inductive, pc \in Stages, NEW candle, NEW midnight \in Quotes
    PROVE  LET a == Ledger(candle, midnight)
           IN  /\ a \in Accounts(Ids) /\ Sound(a, now) /\ a.open
               /\ SameBooks(a, arm)
  <1>1. CycleId \in Ids
    BY DEF Ids
  <1>2. /\ Observed(Obs(candle, midnight), now)
        /\ arm \in Accounts(Ids) /\ Sound(arm, now) /\ arm.open
    BY AtWork, ObsObserved
  <1>. DEFINE o == Obs(candle, midnight)
  <1>. HIDE DEF o
  <1>3. /\ Assessed(arm, o, CycleId) \in Accounts(Ids)
        /\ SameBooks(Assessed(arm, o, CycleId), arm)
        /\ Sound(Assessed(arm, o, CycleId), now)
    BY <1>1, <1>2, AssessedAccount, AssessedSound DEF o
  <1>4. Assessed(arm, o, CycleId).open
    BY <1>2, <1>3 DEF SameBooks
  <1>. QED BY <1>3, <1>4 DEF Ledger, o

\* A purchase at one price, judged by a higher one; a sale, by a lower one.
LEMMA PaidFairly ==
    ASSUME NEW p \in Nat, NEW was \in Nat, p - was \in -Drift .. Drift,
           NEW n \in Nat, n > 0, NEW t, t.qty \in Int,
           \/ t.qty = n /\ t.cash = -(n * Upper(p) + Fee(n * Upper(p)))
           \/ t.qty = -n /\ t.cash = n * Lower(p) - Fee(n * Lower(p))
    PROVE  FairlyPaid(t, was)
  <1>. DEFINE x == n * Upper(p)
              y == n * Upper(was + Drift)
              v == n * Lower(p)
              w == n * Lower(was - Drift)
  <1>1. /\ Upper(p) \in Int /\ Upper(was + Drift) \in Int
        /\ Upper(p) <= Upper(was + Drift)
        /\ Lower(p) \in Int /\ Lower(was - Drift) \in Int
        /\ Lower(was - Drift) <= Lower(p)
    <2>1. Drift \in Nat /\ Slip \in Nat
      BY PaperAssumption, AiAssumption
    <2>. QED BY <2>1 DEF Upper, Lower
  <1>2. /\ x \in Int /\ y \in Int /\ x <= y /\ v \in Int /\ w \in Int /\ w <= v
    <2>1. x \in Int /\ y \in Int /\ x <= y
      BY <1>1, TimesMonotone
    <2>2. v \in Int /\ w \in Int /\ w <= v
      BY <1>1, TimesMonotone
    <2>. QED BY <2>1, <2>2
  <1>3. CASE t.qty = n /\ t.cash = -(x + Fee(x))
    <2>. HIDE DEF x, y, v, w
    <2>1. x + Fee(x) <= y + Fee(y)
      BY <1>2, WithFeeMonotone
    <2>2. Fee(x) \in Int
      BY <1>2, PaperAssumption DEF Fee
    <2>3. -t.cash <= y + Fee(y)
      BY <1>2, <1>3, <2>1, <2>2
    <2>4. t.qty > 0
      BY <1>3
    <2>. QED BY <1>3, <2>3, <2>4 DEF FairlyPaid, y
  <1>4. CASE t.qty = -n /\ t.cash = v - Fee(v)
    <2>. HIDE DEF x, y, v, w
    <2>1. t.cash >= w - Fee(w)
      <3>1. w - Fee(w) <= v - Fee(v)
        BY <1>2, WithFeeMonotone
      <3>2. Fee(v) \in Int /\ Fee(w) \in Int
        BY <1>2, PaperAssumption DEF Fee
      <3>. QED BY <1>2, <1>4, <3>1, <3>2
    <2>2. ~(t.qty > 0) /\ -t.qty = n
      BY <1>4
    <2>. QED BY <2>1, <2>2 DEF FairlyPaid, w
  <1>. QED BY <1>3, <1>4 DEF x, v

\* An outcome of an answer is one execution more, at a fair price, on an account
\* that may trade today.
LEMMA OutcomePosting ==
    ASSUME Inductive, pc = "step", NEW candle, NEW midnight \in Quotes,
           NEW b \in Outcomes(candle, midnight),
           ai.action # "HOLD"
    PROVE  LET a == Ledger(candle, midnight)
           IN  /\ b \in Accounts(Ids) /\ UnderLimits(a, Obs(candle, midnight))
               /\ a.day = DayOf(now)
               /\ \E e \in Executions(Ids), dk \in Int :
                    /\ Posting(b, a, e, dk)
                    /\ e.at = now /\ FairlyPaid(e, ai.price)
  <1>. DEFINE a == Ledger(candle, midnight)
              o == Obs(candle, midnight)
              p == o.price[Sym]
              bid == Lots(ai.asked, p)
              offer == SellLots(a, o, Sym, ai.asked)
  <1>1. pc \in Stages
    BY DEF Stages
  <1>2. /\ a \in Accounts(Ids) /\ Sym \in Symbols
        /\ Observed(o, now) /\ o.at = now /\ p = quote.price[Sym]
        /\ p \in Nat /\ p > 0 /\ p + Slip > 0
    <2>1. a \in Accounts(Ids) /\ Sym \in Symbols
      BY <1>1, AtWork, LedgerSound
    <2>2. Observed(o, now) /\ o.at = now /\ o.price = quote.price
      BY <1>1, ObsObserved
    <2>3. quote.price \in Quotes
      BY <1>1, AtWork
    <2>4. quote.price[Sym] \in Nat /\ quote.price[Sym] > 0
      BY <2>1, <2>3, QuoteFields
    <2>. QED BY <2>1, <2>2, <2>4, PaperAssumption
  <1>3. /\ ai.asked \in Nat /\ p - ai.price \in -Drift .. Drift /\ ai.price \in Nat
    <2>1. ai.asked \in Amounts /\ ~Moved
      BY DEF Inductive, AnswerSound
    <2>2. ai.price \in Nat
      BY DEF Inductive, TypeOK, Asked
    <2>. QED BY <1>2, <2>1, <2>2, AiAssumption DEF Moved
  <1>4. CycleId \in Ids
    BY DEF Ids
  <1>5. \/ /\ bid > 0 /\ BuyApproved(a, o, Sym, ai.asked)
           /\ b = Bought(a, o, Sym, bid, CycleId)
        \/ /\ offer > 0 /\ SellApproved(a, o, Sym, ai.asked, offer)
           /\ b = Sold(a, o, Sym, offer, CycleId)
    BY DEF Outcomes
  <1>. HIDE DEF a, o, p, bid, offer
  <1>6. CASE /\ bid > 0 /\ BuyApproved(a, o, Sym, ai.asked)
             /\ b = Bought(a, o, Sym, bid, CycleId)
    <2>1. UnderLimits(a, o) /\ a.day = DayOf(now) /\ ai.asked + Fee(ai.asked) <= a.cash
      BY <1>2, <1>6 DEF BuyApproved, Tradable, Affordable
    <2>2. bid \in Nat /\ o.price[Sym] > 0 /\ bid = Lots(ai.asked, o.price[Sym])
      <3>1. bid \in Nat
        BY <1>2, <1>3, LotsCost DEF bid
      <3>. QED BY <1>2, <3>1 DEF bid, p
    <2>3. /\ b \in Accounts(Ids)
          /\ \E e \in Executions(Ids), dk \in Int :
                /\ Posting(b, a, e, dk)
                /\ e.at = now /\ e.qty = bid
                /\ e.cash = -(bid * Upper(o.price[Sym]) + Fee(bid * Upper(o.price[Sym])))
      BY <1>2, <1>3, <1>4, <1>6, <2>1, <2>2, BoughtPosting
    <2>4. PICK e \in Executions(Ids), dk \in Int :
                /\ Posting(b, a, e, dk)
                /\ e.at = now /\ e.qty = bid
                /\ e.cash = -(bid * Upper(p) + Fee(bid * Upper(p)))
      BY <2>3 DEF p
    <2>5. e.qty \in Int
      BY DEF Executions
    <2>6. FairlyPaid(e, ai.price)
      BY <1>2, <1>3, <1>6, <2>2, <2>4, <2>5, PaidFairly
    <2>. QED BY <2>1, <2>3, <2>4, <2>6 DEF a, o
  <1>7. CASE /\ offer > 0 /\ SellApproved(a, o, Sym, ai.asked, offer)
             /\ b = Sold(a, o, Sym, offer, CycleId)
    <2>1. UnderLimits(a, o) /\ a.day = DayOf(now) /\ offer <= a.qty[Sym]
      BY <1>2, <1>7 DEF SellApproved, Tradable
    <2>2. offer \in Nat
      <3>1. o.price[Sym] \in Nat /\ o.price[Sym] + Slip > 0
        BY <1>2 DEF p
      <3>. QED BY <1>2, <1>3, <3>1, SellNat DEF offer
    <2>3. /\ b \in Accounts(Ids)
          /\ \E e \in Executions(Ids), dk \in Int :
                /\ Posting(b, a, e, dk)
                /\ e.at = now /\ e.qty = -offer
                /\ e.cash = offer * Lower(o.price[Sym]) - Fee(offer * Lower(o.price[Sym]))
      BY <1>2, <1>4, <1>7, <2>1, <2>2, SoldPosting
    <2>4. PICK e \in Executions(Ids), dk \in Int :
                /\ Posting(b, a, e, dk)
                /\ e.at = now /\ e.qty = -offer
                /\ e.cash = offer * Lower(p) - Fee(offer * Lower(p))
      BY <2>3 DEF p
    <2>5. e.qty \in Int
      BY DEF Executions
    <2>6. FairlyPaid(e, ai.price)
      BY <1>2, <1>3, <1>7, <2>2, <2>4, <2>5, PaidFairly
    <2>. QED BY <2>1, <2>3, <2>4, <2>6 DEF a, o
  <1>. QED BY <1>5, <1>6, <1>7

----------------------------------------------------------------------------
(* Freshness *)

LEMMA FreshOfSameTrades ==
    ASSUME NEW a, NEW b, b.trades = a.trades, NEW c, NEW i, FreshTrade(a, c, i)
    PROVE  FreshTrade(b, c, i)
  BY DEF FreshTrade, CashMoved

\* A fill changes nothing about the trades before it.
LEMMA FreshBeforePosting ==
    ASSUME NEW K, NEW a \in Accounts(K), NEW b, NEW e \in Executions(K), NEW dk \in Int,
           Posting(b, a, e, dk), NEW c, NEW i \in DOMAIN a.trades, FreshTrade(a, c, i)
    PROVE  FreshTrade(b, c, i)
  <1>1. /\ Len(a.trades) \in Nat /\ DOMAIN a.trades = 1 .. Len(a.trades)
        /\ \A k \in DOMAIN a.trades : b.trades[k] = a.trades[k]
    BY Appended
  <1>2. 1 .. i - 1 \in SUBSET DOMAIN a.trades
    BY <1>1
  <1>3. CashMoved(b, 1 .. i - 1) = CashMoved(a, 1 .. i - 1)
    <2>. DEFINE I == 1 .. i - 1
    <2>1. I \in SUBSET DOMAIN a.trades
      BY <1>2
    <2>. HIDE DEF I
    <2>2. CashMoved(b, I) = CashMoved(a, I)
      BY <2>1, MovedKept
    <2>. QED BY <2>2 DEF I
  <1>4. {j \in 1 .. i - 1 : DayOf(b.trades[j].at) = DayOf(a.trades[i].at)}
          = {j \in 1 .. i - 1 : DayOf(a.trades[j].at) = DayOf(a.trades[i].at)}
    BY <1>1, <1>2
  <1>5. b.trades[i] = a.trades[i]
    BY <1>1
  <1>. QED BY <1>3, <1>4, <1>5 DEF FreshTrade

\* A fill follows from the answer that stood.
LEMMA FillFresh ==
    ASSUME Inductive, pc = "step", Stands, NEW candle, NEW midnight \in Quotes,
           NEW b, NEW e \in Executions(Ids), NEW dk \in Int,
           Posting(b, Ledger(candle, midnight), e, dk), e.at = now, FairlyPaid(e, ai.price)
    PROVE  FreshTrade(b, ai, Len(arm.trades) + 1)
  <1>. DEFINE a == Ledger(candle, midnight)
              n == Len(arm.trades)
              today == {j \in 1 .. (n + 1) - 1 :
                            DayOf(b.trades[j].at) = DayOf(e.at)}
  <1>1. pc \in Stages
    BY DEF Stages
  <1>2. a \in Accounts(Ids) /\ a.trades = arm.trades
    BY <1>1, LedgerSound DEF SameBooks
  <1>3. /\ n \in Nat /\ DOMAIN arm.trades = 1 .. n
        /\ \A k \in 1 .. n : b.trades[k] = arm.trades[k]
        /\ b.trades[n + 1] = e
    <2>. HIDE DEF a
    <2>1. Posting(b, a, e, dk)
      BY DEF a
    <2>2. /\ Len(a.trades) \in Nat /\ DOMAIN a.trades = 1 .. Len(a.trades)
          /\ \A k \in DOMAIN a.trades : b.trades[k] = a.trades[k]
          /\ b.trades[Len(a.trades) + 1] = e
      <3>1. a \in Accounts(Ids)
        BY <1>2
      <3>. QED BY <2>1, <3>1, Appended
    <2>. QED BY <1>2, <2>2
  <1>4. (n + 1) - 1 = n
    BY <1>3
  <1>5. ai.recheck = "ACCEPTED" /\ ai.asked <= ai.limit
    BY DEF Inductive, AnswerSound, Stands
  <1>6. e.at - ai.seen <= MaxAge
    <2>1. ai.seen \in Nat /\ now \in Nat /\ MaxAge \in Nat
      BY <1>1, AtWork, AiAssumption DEF Inductive, TypeOK, Asked
    <2>2. ~(now - ai.seen > MaxAge)
      BY DEF Stands, Expired
    <2>. QED BY <2>1, <2>2
  <1>7. /\ ai.shown.cash = arm.cash
        /\ ai.shown.trades = Cardinality(TradesOn(arm, DayOf(now)))
    <2>1. ai.shown = Shown(Sym)
      BY DEF Stands
    <2>. QED BY <2>1 DEF Shown
  <1>8. ai.shown.cash = Capital + CashMoved(b, 1 .. (n + 1) - 1)
    <2>1. arm.cash = Capital + CashMoved(arm, 1 .. n)
      BY <1>1, <1>3, AtWork DEF Sound, Posted
    <2>2. CashMoved(a, 1 .. n) = CashMoved(arm, 1 .. n)
      BY <1>2 DEF CashMoved
    <2>3. CashMoved(b, 1 .. n) = CashMoved(a, 1 .. n)
      <3>. HIDE DEF a
      <3>1. Posting(b, a, e, dk)
        BY DEF a
      <3>. DEFINE I == 1 .. n
      <3>2. I \in SUBSET DOMAIN a.trades /\ a \in Accounts(Ids)
        BY <1>2, <1>3
      <3>. HIDE DEF I
      <3>3. CashMoved(b, I) = CashMoved(a, I)
        BY <3>1, <3>2, MovedKept
      <3>. QED BY <3>3 DEF I
    <2>. QED BY <1>4, <1>7, <2>1, <2>2, <2>3
  <1>9. today = TradesOn(arm, DayOf(now))
    BY <1>3, <1>4 DEF TradesOn
  <1>. QED BY <1>3, <1>5, <1>6, <1>7, <1>8, <1>9 DEF FreshTrade

\* The account after an executed answer.
LEMMA OutcomeSound ==
    ASSUME Inductive, pc = "step", Stands, NEW candle, NEW midnight \in Quotes,
           NEW b \in Outcomes(candle, midnight)
    PROVE  /\ b \in Accounts(Ids) /\ Sound(b, now) /\ b.open
           /\ Len(b.trades) = Len(arm.trades) + 1 /\ Len(arm.trades) \in Nat
           /\ \A c, i : i \in DOMAIN arm.trades /\ FreshTrade(arm, c, i)
                          => FreshTrade(b, c, i)
           /\ FreshTrade(b, ai, Len(arm.trades) + 1)
  <1>. DEFINE a == Ledger(candle, midnight)
  <1>1. pc \in Stages /\ ai.action # "HOLD"
    BY DEF Stages, Stands
  <1>2. /\ a \in Accounts(Ids) /\ Sound(a, now) /\ a.open /\ a.trades = arm.trades
        /\ now \in Nat /\ Obs(candle, midnight).at = now
    BY <1>1, LedgerSound, AtWork, ObsObserved DEF SameBooks
  <1>3. /\ b \in Accounts(Ids) /\ UnderLimits(a, Obs(candle, midnight)) /\ a.day = DayOf(now)
        /\ \E e \in Executions(Ids), dk \in Int :
             Posting(b, a, e, dk) /\ e.at = now /\ FairlyPaid(e, ai.price)
    BY <1>1, OutcomePosting
  <1>4. PICK e \in Executions(Ids), dk \in Int :
             Posting(b, a, e, dk) /\ e.at = now /\ FairlyPaid(e, ai.price)
    BY <1>3
  <1>5. FreshTrade(b, ai, Len(arm.trades) + 1)
    BY <1>4, FillFresh
  <1>. HIDE DEF a
  <1>6. Sound(b, now)
    BY <1>2, <1>3, <1>4, PostingSound
  <1>7. /\ Len(b.trades) = Len(arm.trades) + 1 /\ Len(arm.trades) \in Nat
    <2>1. a \in Accounts(Ids) /\ Posting(b, a, e, dk)
      BY <1>2, <1>4
    <2>2. a.trades \in Seq(Executions(Ids)) /\ b.trades = Append(a.trades, e)
      BY <2>1, AccountFields DEF Posting
    <2>. QED BY <1>2, <2>2
  <1>8. b.open
    BY <1>2, <1>4 DEF Posting
  <1>9. ASSUME NEW c, NEW i, i \in DOMAIN arm.trades, FreshTrade(arm, c, i)
        PROVE  FreshTrade(b, c, i)
    <2>1. FreshTrade(a, c, i) /\ i \in DOMAIN a.trades
      BY <1>2, <1>9, FreshOfSameTrades
    <2>. QED BY <1>2, <1>4, <2>1, FreshBeforePosting
  <1>. QED BY <1>3, <1>5, <1>6, <1>7, <1>8, <1>9

----------------------------------------------------------------------------
(* What a step does to the account *)

LEMMA AccountUntouched ==
    ASSUME [Next]_vars, ~StartWorker, ~Execute, ~Hold, ~Tick
    PROVE  UNCHANGED <<arm, based, now>> /\ (pc' # "idle" => pc # "idle")
  <1>. USE DEF vars, durable, worker, stops
  <1>1. CASE Round \/ Rest \/ Wake
    BY <1>1 DEF Round, Rest, Wake
  <1>2. CASE Collect \/ CollectFailed \/ Skip \/ Ask \/ Answer
    BY <1>2 DEF Collect, CollectFailed, Skip, Ask, Answer, NextSymbol
  <1>3. CASE Refetch \/ RefetchFailed \/ Recheck
    BY <1>3 DEF Refetch, RefetchFailed, Recheck, NextSymbol
  <1>4. CASE FillStopped \/ Crash
    BY <1>4 DEF FillStopped, Crash, Leave
  <1>5. CASE Reserve \/ Pass \/ AskVariant \/ Complete
    BY <1>5 DEF Reserve, Pass, AskVariant, Complete, NextSymbol
  <1>6. CASE Stop \/ Resume \/ UNCHANGED vars
    BY <1>6 DEF Stop, Resume
  <1>. QED BY <1>1, <1>2, <1>3, <1>4, <1>5, <1>6 DEF Next

\* The account an executed answer leaves behind.
LEMMA ExecuteStep ==
    ASSUME Inductive, Execute
    PROVE  /\ pc = "step" /\ based' = Append(based, ai) /\ now' = now
           /\ arm' \in Accounts(Ids) /\ Sound(arm', now) /\ arm'.open
           /\ Len(arm'.trades) = Len(arm.trades) + 1 /\ Len(arm.trades) \in Nat
           /\ \A c, i : i \in DOMAIN arm.trades /\ FreshTrade(arm, c, i)
                          => FreshTrade(arm', c, i)
           /\ FreshTrade(arm', ai, Len(arm.trades) + 1)
  <1>1. PICK candle \in BOOLEAN, midnight \in Quotes : arm' \in Trades(candle, midnight)
    BY DEF Execute
  <1>2. Stands /\ arm' \in Outcomes(candle, midnight)
    BY <1>1 DEF Trades
  <1>3. pc = "step" /\ based' = Append(based, ai) /\ now' = now
    BY DEF Execute
  <1>. DEFINE b == arm'
  <1>4. b \in Outcomes(candle, midnight)
    BY <1>2
  <1>. HIDE DEF b
  <1>5. /\ b \in Accounts(Ids) /\ Sound(b, now) /\ b.open
        /\ Len(b.trades) = Len(arm.trades) + 1 /\ Len(arm.trades) \in Nat
        /\ \A c, i : i \in DOMAIN arm.trades /\ FreshTrade(arm, c, i)
                       => FreshTrade(b, c, i)
        /\ FreshTrade(b, ai, Len(arm.trades) + 1)
    BY <1>2, <1>3, <1>4, OutcomeSound
  <1>. QED BY <1>3, <1>5 DEF b

LEMMA HoldStep ==
    ASSUME Inductive, Hold
    PROVE  /\ based' = based /\ now' = now /\ pc # "idle"
           /\ arm' \in Accounts(Ids) /\ Sound(arm', now) /\ arm'.open
           /\ arm'.trades = arm.trades
  <1>1. pc \in Stages /\ pc # "idle" /\ based' = based /\ now' = now
    BY DEF Hold, Stages
  <1>2. PICK candle \in BOOLEAN, midnight \in Quotes : arm' = Ledger(candle, midnight)
    BY DEF Hold
  <1>. DEFINE a == Ledger(candle, midnight)
  <1>3. a \in Accounts(Ids) /\ Sound(a, now) /\ a.open /\ SameBooks(a, arm)
    BY <1>1, LedgerSound
  <1>. HIDE DEF a
  <1>4. arm' = a
    BY <1>2 DEF a
  <1>. QED BY <1>1, <1>3, <1>4 DEF SameBooks

LEMMA StartStep ==
    ASSUME Inductive, StartWorker
    PROVE  /\ based' = based /\ now' = now
           /\ arm' \in Accounts(Ids) /\ Sound(arm', now) /\ arm'.open
           /\ arm'.trades = arm.trades
  <1>1. arm \in Accounts(Ids) /\ Sound(arm, now) /\ now \in Nat
    BY AiAssumption DEF Inductive, TypeOK, AccountSound, Ids
  <1>2. arm' = Initialized(arm, now) /\ based' = based /\ now' = now
    BY DEF StartWorker
  <1>. DEFINE a == Initialized(arm, now)
  <1>3. a \in Accounts(Ids) /\ Sound(a, now) /\ a.open /\ a.trades = arm.trades
    BY <1>1, InitializedSound
  <1>. HIDE DEF a
  <1>4. arm' = a
    BY <1>2 DEF a
  <1>. QED BY <1>2, <1>3, <1>4

LEMMA TickSound ==
    ASSUME Inductive, Tick
    PROVE  Sound(arm, now')
  <1>1. arm \in Accounts(Ids) /\ Sound(arm, now) /\ now \in Nat
    BY AiAssumption DEF Inductive, TypeOK, AccountSound, Ids
  <1>. DEFINE u == now'
  <1>2. u \in Nat /\ now <= u
    BY <1>1 DEF Tick
  <1>. HIDE DEF u
  <1>3. Sound(arm, u)
    <2>1. CASE arm.open
      <3>1. SameBooks(arm, arm) /\ arm.day \in {arm.day, DayOf(u)}
        BY DEF SameBooks
      <3>. QED BY <1>1, <1>2, <2>1, <3>1, SoundLater
    <2>2. CASE ~arm.open
      BY <1>1, <1>2, <2>2, SoundUnopened
    <2>. QED BY <2>1, <2>2
  <1>. QED BY <1>3 DEF u

LEMMA AccountStep ==
    ASSUME Inductive, [Next]_vars
    PROVE  arm' \in Accounts(Ids) /\ AccountSound'
  <1>1. arm \in Accounts(Ids) /\ Sound(arm, now) /\ (pc # "idle" => arm.open)
    BY DEF Inductive, TypeOK, AccountSound, Ids
  <1>2. CASE Execute
    BY <1>2, ExecuteStep DEF AccountSound
  <1>3. CASE Hold
    BY <1>3, HoldStep DEF AccountSound
  <1>4. CASE StartWorker
    BY <1>4, StartStep DEF AccountSound
  <1>5. CASE Tick
    <2>1. arm' = arm /\ pc' = pc
      BY <1>5 DEF Tick, durable, worker
    <2>2. Sound(arm, now')
      BY <1>5, TickSound
    <2>. QED BY <1>1, <2>1, <2>2 DEF AccountSound
  <1>6. CASE ~StartWorker /\ ~Execute /\ ~Hold /\ ~Tick
    BY <1>1, <1>6, AccountUntouched DEF AccountSound
  <1>. QED BY <1>2, <1>3, <1>4, <1>5, <1>6

\* The trades and the answers they were based on.
LEMMA TradesStep ==
    ASSUME Inductive, [Next]_vars
    PROVE  /\ based' \in Seq(Asked) /\ Len(based') = Len(arm'.trades)
           /\ FreshTrades'
  <1>1. /\ arm \in Accounts(Ids) /\ based \in Seq(Asked) /\ ai \in Asked
        /\ Len(based) = Len(arm.trades) /\ FreshTrades
    BY DEF Inductive, TypeOK, Ids
  <1>2. CASE Execute
    <2>. DEFINE n == Len(arm.trades)
    <2>1. /\ based' = Append(based, ai) /\ n \in Nat /\ Len(arm'.trades) = n + 1
          /\ arm' \in Accounts(Ids) /\ FreshTrade(arm', ai, n + 1)
          /\ \A c, i : i \in DOMAIN arm.trades /\ FreshTrade(arm, c, i)
                         => FreshTrade(arm', c, i)
      BY <1>2, ExecuteStep
    <2>2. /\ Len(based') = n + 1 /\ based'[n + 1] = ai
          /\ \A i \in 1 .. n : based'[i] = based[i]
          /\ based' \in Seq(Asked)
      BY <1>1, <2>1
    <2>3. DOMAIN arm.trades = 1 .. n
      BY <1>1, DomainFinite
    <2>4. DOMAIN arm'.trades = 1 .. n + 1
      <3>. DEFINE b == arm'
      <3>1. b \in Accounts(Ids) /\ Len(b.trades) = n + 1
        BY <2>1
      <3>. HIDE DEF b, n
      <3>2. DOMAIN b.trades = 1 .. n + 1
        BY <3>1, DomainFinite
      <3>. QED BY <3>2 DEF b
    <2>. HIDE DEF n
    <2>5. ASSUME NEW i \in 1 .. n + 1 PROVE FreshTrade(arm', based'[i], i)
      <3>1. CASE i = n + 1
        BY <2>1, <2>2, <3>1
      <3>2. CASE i \in 1 .. n
        <4>1. FreshTrade(arm, based[i], i)
          BY <1>1, <2>3, <3>2 DEF FreshTrades
        <4>2. FreshTrade(arm', based[i], i)
          BY <2>1, <2>3, <3>2, <4>1
        <4>. QED BY <2>2, <3>2, <4>2
      <3>3. n \in Nat
        BY <2>1
      <3>4. i = n + 1 \/ i \in 1 .. n
        BY <3>3
      <3>. QED BY <3>1, <3>2, <3>4
    <2>. QED BY <2>1, <2>2, <2>4, <2>5 DEF FreshTrades, n
  <1>3. CASE ~Execute
    <2>1. based' = based /\ arm'.trades = arm.trades
      <3>1. CASE Hold
        BY <3>1, HoldStep
      <3>2. CASE StartWorker
        BY <3>2, StartStep
      <3>3. CASE Tick
        BY <3>3 DEF Tick, durable
      <3>4. CASE ~StartWorker /\ ~Hold /\ ~Tick
        BY <1>3, <3>4, AccountUntouched
      <3>. QED BY <3>1, <3>2, <3>3, <3>4
    <2>2. ASSUME NEW i \in DOMAIN arm'.trades PROVE FreshTrade(arm', based'[i], i)
      <3>. DEFINE b == arm'
                  c == based'[i]
      <3>1. FreshTrade(arm, c, i) /\ b.trades = arm.trades
        BY <1>1, <2>1 DEF FreshTrades
      <3>. HIDE DEF b, c
      <3>2. FreshTrade(b, c, i)
        BY <3>1, FreshOfSameTrades
      <3>. QED BY <3>2 DEF b, c
    <2>. QED BY <1>1, <2>1, <2>2 DEF FreshTrades
  <1>. QED BY <1>2, <1>3

----------------------------------------------------------------------------
(* Observations *)

Observations == [at : Nat, order : Orders]

LEMMA OrderLengths ==
    ASSUME NEW o \in Orders
    PROVE  /\ o \in Seq(Variants) /\ o # <<>>
           /\ Len(o) \in {1, 2}
           /\ Len(o) = 2 => o \in {<<"control", "unanchored">>,
                                   <<"unanchored", "control">>}
  <1>1. CASE o = <<"control">>
    <2>1. o \in Seq(Variants) /\ Len(o) = 1
      BY <1>1 DEF Variants
    <2>. QED BY <1>1, <2>1
  <1>2. CASE o = <<"control", "unanchored">>
    <2>1. o \in Seq(Variants) /\ Len(o) = 2
      BY <1>2 DEF Variants
    <2>. QED BY <1>2, <2>1
  <1>3. CASE o = <<"unanchored", "control">>
    <2>1. o \in Seq(Variants) /\ Len(o) = 2
      BY <1>3 DEF Variants
    <2>. QED BY <1>3, <2>1
  <1>. QED BY <1>1, <1>2, <1>3 DEF Orders

LEMMA PairsReversed ==
    /\ Reverse(<<"control", "unanchored">>) = <<"unanchored", "control">>
    /\ Reverse(<<"unanchored", "control">>) = <<"control", "unanchored">>
  <1>1. ASSUME NEW x, NEW y PROVE Reverse(<<x, y>>) = <<y, x>>
    <2>1. Len(<<x, y>>) = 2 /\ <<x, y>>[1] = x /\ <<x, y>>[2] = y
      OBVIOUS
    <2>2. Reverse(<<x, y>>) = [i \in 1 .. 2 |-> <<x, y>>[(2 - i) + 1]]
      BY <2>1 DEF Reverse
    <2>3. <<y, x>> = [i \in 1 .. 2 |-> <<y, x>>[i]]
      OBVIOUS
    <2>4. \A i \in 1 .. 2 : <<y, x>>[i] = <<x, y>>[(2 - i) + 1]
      OBVIOUS
    <2>. QED BY <2>2, <2>3, <2>4
  <1>. QED BY <1>1

\* The calls started in a history of observations.
StartedIn(h) ==
    SumFunctionOnSet([k \in DOMAIN h |-> Len(h[k].order)], DOMAIN h)

LEMMA StartedAppend ==
    ASSUME NEW h \in Seq(Observations), NEW e \in Observations
    PROVE  /\ StartedIn(h) \in Nat
           /\ StartedIn(Append(h, e)) = StartedIn(h) + Len(e.order)
  <1>. DEFINE n == Len(h)
              g == Append(h, e)
              lh == [k \in DOMAIN h |-> Len(h[k].order)]
              lg == [k \in DOMAIN g |-> Len(g[k].order)]
  <1>1. /\ n \in Nat /\ DOMAIN h = 1 .. n /\ DOMAIN g = 1 .. n + 1
        /\ \A k \in 1 .. n : g[k] = h[k] /\ h[k] \in Observations
        /\ g[n + 1] = e
    OBVIOUS
  <1>2. \A o \in Orders : Len(o) \in Nat
    BY OrderLengths
  <1>3. Len(e.order) \in Int /\ \A k \in 1 .. n : Len(h[k].order) \in Nat
    BY <1>1, <1>2 DEF Observations
  <1>. HIDE DEF n, g
  <1>4. \A k \in 1 .. n : lh[k] \in Nat /\ lg[k] = lh[k]
    BY <1>1, <1>3
  <1>5. lg[n + 1] = Len(e.order)
    BY <1>1
  <1>. HIDE DEF lh, lg
  <1>6. IsFiniteSet(1 .. n)
    BY <1>1, FS_Interval
  <1>7. SumFunctionOnSet(lh, 1 .. n) \in Nat
    BY <1>4, <1>6, SumNat
  <1>8. n + 1 \notin 1 .. n /\ 1 .. n + 1 = (1 .. n) \cup {n + 1}
    BY <1>1
  <1>9. \A k \in 1 .. n : lh[k] \in Int /\ lg[k] = lh[k]
    BY <1>4
  <1>10. SumFunctionOnSet(lg, (1 .. n) \cup {n + 1})
            = SumFunctionOnSet(lh, 1 .. n) + Len(e.order)
    <2>1. lg[n + 1] \in Int
      BY <1>3, <1>5
    <2>. DEFINE S == 1 .. n
                x == n + 1
    <2>. HIDE DEF S, x
    <2>2. SumFunctionOnSet(lg, S \cup {x}) = SumFunctionOnSet(lh, S) + lg[x]
      <3>1. IsFiniteSet(S) /\ x \notin S /\ lg[x] \in Int
        BY <1>6, <1>8, <2>1 DEF S, x
      <3>2. \A k \in S : lh[k] \in Int /\ lg[k] = lh[k]
        BY <1>9 DEF S
      <3>. QED BY <3>1, <3>2, SumAdded
    <2>. QED BY <1>5, <2>2 DEF S, x
  <1>. QED BY <1>1, <1>7, <1>8, <1>10 DEF StartedIn, lh, lg, g

\* A reservation keeps the distance, and turns the order of the pair before it.
LEMMA ReserveSpaced ==
    ASSUME Inductive, Reserve
    PROVE  /\ shadows' \in Seq(Observations) /\ ShadowSpaced' /\ PairInTurn'
           /\ todo' \in Orders
  <1>. DEFINE n == Len(shadows)
              e == [at |-> now, order |-> VariantOrder]
              h == Append(shadows, e)
              turned == (Started \div 2) % 2 = 1
  <1>1. /\ shadows \in Seq(Observations) /\ ShadowSpaced /\ PairInTurn
        /\ now \in Nat /\ paired \in BOOLEAN
    BY AiAssumption DEF Inductive, TypeOK, Observations
  <1>2. /\ shadows' = h /\ todo' = VariantOrder /\ Due
    BY DEF Reserve, Observable
  <1>3. VariantOrder = IF ~paired THEN <<"control">>
                       ELSE IF turned THEN <<"unanchored", "control">>
                       ELSE <<"control", "unanchored">>
    BY DEF VariantOrder
  <1>4. VariantOrder \in Orders /\ (Len(VariantOrder) = 2 <=> paired)
    BY <1>3 DEF Orders
  <1>5. e \in Observations
    BY <1>1, <1>4 DEF Observations
  <1>6. /\ n \in Nat /\ Len(h) = n + 1 /\ h[n + 1] = e /\ DOMAIN h = 1 .. n + 1
        /\ h \in Seq(Observations)
        /\ \A k \in 1 .. n : h[k] = shadows[k]
        /\ DOMAIN shadows = 1 .. n
    <2>. HIDE DEF e
    <2>. QED BY <1>1, <1>5
  <1>7. StartedIn(h) = Started + Len(VariantOrder) /\ Started \in Nat
    <2>1. StartedIn(h) = StartedIn(shadows) + Len(e.order) /\ StartedIn(shadows) \in Nat
      <3>. HIDE DEF e
      <3>. QED BY <1>1, <1>5, StartedAppend
    <2>. QED BY <2>1 DEF StartedIn, Started
  <1>8. Started' = StartedIn(h)
    BY <1>2 DEF Started, StartedIn
  <1>9. Last(shadows') = e /\ e.order = VariantOrder /\ e.at = now
    BY <1>2, <1>6 DEF Last
  <1>. HIDE DEF h
  <1>10. PairInTurn'
    <2>1. SUFFICES ASSUME Len(VariantOrder) = 2
                   PROVE  VariantOrder = IF ((Started' - 2) \div 2) % 2 = 1
                                         THEN <<"unanchored", "control">>
                                         ELSE <<"control", "unanchored">>
      BY <1>9 DEF PairInTurn
    <2>2. Started' - 2 = Started
      BY <1>7, <1>8, <2>1
    <2>. QED BY <1>3, <1>4, <2>1, <2>2
  <1>11. ASSUME n > 0
         PROVE  LET last == shadows[n]
                IN  /\ now - last.at >= (IF Len(VariantOrder) = 2 THEN Paired ELSE Single)
                    /\ Len(last.order) = 2 /\ Len(VariantOrder) = 2
                         => VariantOrder = Reverse(last.order)
    <2>1. shadows # <<>> /\ Last(shadows) = shadows[n]
      BY <1>11 DEF Last
    <2>2. now - shadows[n].at >= Interval
      BY <1>2, <2>1 DEF Due
    <2>3. Interval = IF Len(VariantOrder) = 2 THEN Paired ELSE Single
      BY <1>4 DEF Interval
    <2>4. ASSUME Len(shadows[n].order) = 2, Len(VariantOrder) = 2
          PROVE  VariantOrder = Reverse(shadows[n].order)
      <3>1. shadows[n].order = IF ((Started - 2) \div 2) % 2 = 1
                               THEN <<"unanchored", "control">>
                               ELSE <<"control", "unanchored">>
        BY <1>1, <2>1, <2>4 DEF PairInTurn
      <3>2. (Started \div 2) % 2 = 1 <=> ~(((Started - 2) \div 2) % 2 = 1)
        BY <1>7
      <3>. QED BY <1>3, <1>4, <2>4, <3>1, <3>2, PairsReversed
    <2>. QED BY <2>2, <2>3, <2>4
  <1>12. ASSUME NEW k \in DOMAIN h, k > 1
         PROVE  LET last == h[k - 1]
                    this == h[k]
                    pairs == Len(last.order) = 2 /\ Len(this.order) = 2
                IN  /\ this.at - last.at >=
                           (IF Len(this.order) = 2 THEN Paired ELSE Single)
                    /\ pairs => this.order = Reverse(last.order)
    <2>1. CASE k = n + 1
      <3>1. n > 0 /\ n \in 1 .. n /\ k - 1 = n
        BY <1>6, <1>12, <2>1
      <3>2. h[k - 1] = shadows[n] /\ h[k] = e
        BY <1>6, <2>1, <3>1
      <3>. HIDE DEF n
      <3>. QED BY <1>9, <1>11, <3>1, <3>2
    <2>2. CASE k \in 1 .. n
      <3>1. k - 1 \in 1 .. n /\ k \in DOMAIN shadows
        BY <1>6, <1>12, <2>2
      <3>2. h[k - 1] = shadows[k - 1] /\ h[k] = shadows[k]
        BY <1>6, <2>2, <3>1
      <3>. QED BY <1>1, <1>12, <3>1, <3>2 DEF ShadowSpaced
    <2>3. k = n + 1 \/ k \in 1 .. n
      <3>. HIDE DEF n
      <3>. QED BY <1>6
    <2>. QED BY <2>1, <2>2, <2>3
  <1>13. ShadowSpaced'
    BY <1>2, <1>12 DEF ShadowSpaced
  <1>. QED BY <1>2, <1>4, <1>6, <1>10, <1>13

\* Nothing else touches the history of observations.
LEMMA ShadowsStep ==
    ASSUME Inductive, [Next]_vars
    PROVE  shadows' \in Seq(Observations) /\ ShadowSpaced' /\ PairInTurn'
  <1>1. CASE Reserve
    BY <1>1, ReserveSpaced
  <1>2. CASE ~Reserve
    <2>. USE DEF vars, durable, worker, stops
    <2>1. shadows' = shadows
      <3>1. CASE StartWorker \/ Round \/ Rest \/ Wake \/ Collect
        BY <3>1 DEF StartWorker, Round, Rest, Wake, Collect
      <3>2. CASE CollectFailed \/ Skip \/ Ask \/ Answer \/ Refetch
        BY <3>2 DEF CollectFailed, Skip, Ask, Answer, Refetch
      <3>3. CASE RefetchFailed \/ Recheck \/ Execute \/ Hold \/ FillStopped
        BY <3>3 DEF RefetchFailed, Recheck, Execute, Hold, FillStopped
      <3>4. CASE Pass \/ AskVariant \/ Complete \/ Crash
        BY <3>4 DEF Pass, AskVariant, Complete, Crash
      <3>5. CASE Stop \/ Resume \/ Tick \/ UNCHANGED vars
        BY <3>5 DEF Stop, Resume, Tick
      <3>. QED BY <1>2, <3>1, <3>2, <3>3, <3>4, <3>5 DEF Next
    <2>2. shadows \in Seq(Observations) /\ ShadowSpaced /\ PairInTurn
      BY DEF Inductive, TypeOK, Observations
    <2>3. Started' = Started
      BY <2>1 DEF Started
    <2>. QED BY <2>1, <2>2, <2>3 DEF ShadowSpaced, PairInTurn
  <1>. QED BY <1>1, <1>2

----------------------------------------------------------------------------
(* The cycle *)

Resting == {"idle", "top", "sleep", "next"}

\* The part of the types that is about the cycle under way.
CycleTyped ==
    /\ pc \in Resting \cup Stages
    /\ left \in Seq(Symbols) /\ quote.seen \in Nat
    /\ pc \in Stages => left # <<>> /\ quote.price \in Quotes
    /\ ai \in Asked
    /\ ai # NoAi => pc \in {"infer", "refetch", "recheck", "step"}
    /\ todo \in Seq(Variants)
    /\ todo # <<>> => pc \in {"variant", "muse"}
    /\ pc = "muse" => todo # <<>>

StopsTyped ==
    {killed, tripped, paired} \subseteq BOOLEAN /\ (tripped => pc # "idle")

LEMMA TypeParts ==
    TypeOK <=> /\ arm \in Accounts(Ids)
               /\ based \in Seq(Asked) /\ Len(based) = Len(arm.trades)
               /\ shadows \in Seq(Observations)
               /\ CycleTyped /\ StopsTyped /\ now \in 0 .. MaxTime
  BY DEF TypeOK, CycleTyped, StopsTyped, Resting, Ids, Observations

LEMMA StagesApart ==
    /\ Resting \cap Stages = {}
    /\ {"filter", "infer", "refetch", "recheck", "step", "hold", "observe",
        "variant", "muse"} \subseteq Stages
  BY DEF Resting, Stages

LEMMA NothingAsked ==
    NoAi \in Asked /\ NoAi.action = "HOLD"
  BY DEF NoAi, NoShown, Asked, Snapshots, Verdicts

\* Once a cycle is over, its symbol is all there is to lose.
LEMMA Forgotten ==
    ASSUME Forget, pc' \in Resting, left' \in Seq(Symbols)
    PROVE  CycleTyped' /\ AnswerSound'
  <1>1. quote'.seen \in Nat /\ ai' = NoAi /\ todo' = <<>>
    BY DEF Forget, NoQuote
  <1>2. pc' \notin Stages /\ pc' # "muse"
    BY StagesApart DEF Resting
  <1>. QED BY <1>1, <1>2, NothingAsked DEF CycleTyped, AnswerSound

LEMMA NextSymbolTyped ==
    ASSUME Inductive, left # <<>>, NextSymbol
    PROVE  CycleTyped' /\ AnswerSound'
  <1>1. left' \in Seq(Symbols)
    BY HeadTailProperties DEF Inductive, TypeOK, NextSymbol
  <1>. QED BY <1>1, Forgotten DEF NextSymbol, Resting

LEMMA LeaveTyped ==
    ASSUME Leave
    PROVE  CycleTyped' /\ AnswerSound'
  <1>1. left' \in Seq(Symbols)
    BY DEF Leave
  <1>. QED BY <1>1, Forgotten DEF Leave, Resting

LEMMA ShownTyped ==
    ASSUME Inductive, pc \in Stages
    PROVE  Shown(Sym) \in Snapshots
  <1>1. arm \in Accounts(Ids) /\ Sym \in Symbols
    BY AtWork
  <1>2. arm.cash \in Nat /\ arm.qty[Sym] \in Nat /\ arm.cost[Sym] \in Nat
    BY <1>1, AccountFields
  <1>3. Cardinality(TradesOn(arm, DayOf(now))) \in Nat
    <2>1. IsFiniteSet(DOMAIN arm.trades)
      BY <1>1, DomainFinite
    <2>2. TradesOn(arm, DayOf(now)) \subseteq DOMAIN arm.trades
      BY DEF TradesOn
    <2>. QED BY <2>1, <2>2, FS_Subset, FS_CardinalityType
  <1>. QED BY <1>2, <1>3 DEF Shown, Snapshots

LEMMA LimitTyped ==
    ASSUME Inductive, pc \in Stages, NEW side \in {"BUY", "SELL"}
    PROVE  LimitOf(side) \in Int
  <1>. DEFINE b == TradeBudget(arm, quote.price, Sym)
  <1>1. arm \in Accounts(Ids) /\ Sym \in Symbols /\ quote.price \in Quotes
    BY AtWork
  <1>2. b.buy \in Int /\ b.sell \in Int
    BY <1>1, BudgetParts
  <1>3. LimitOf("BUY") = b.buy /\ LimitOf("SELL") = b.sell
    BY DEF LimitOf
  <1>. QED BY <1>2, <1>3

\* An answer as a record.
LEMMA AskedFields ==
    ASSUME NEW c \in Asked
    PROVE  /\ c.action \in {"BUY", "SELL", "HOLD"} /\ c.asked \in Nat
           /\ c.seen \in Nat /\ c.price \in Nat /\ c.shown \in Snapshots
           /\ c.limit \in Int /\ c.recheck \in Verdicts
  BY DEF Asked

LEMMA AskTyped ==
    ASSUME Inductive, Ask
    PROVE  CycleTyped' /\ AnswerSound'
  <1>1. pc = "filter" /\ pc \in Stages /\ CycleTyped
    BY TypeParts, StagesApart DEF Ask, Inductive
  <1>2. quote.price[Sym] \in Nat /\ quote.seen \in Nat /\ Shown(Sym) \in Snapshots
    BY <1>1, AtWork, QuoteFields, ShownTyped DEF CycleTyped
  <1>3. ai' = [NoAi EXCEPT !.seen = quote.seen, !.price = quote.price[Sym],
                           !.shown = Shown(Sym)]
    BY DEF Ask
  <1>4. ai' \in Asked /\ ai'.action = "HOLD"
    <2>. HIDE DEF Shown, NoAi
    <2>. QED BY <1>2, <1>3, NothingAsked DEF Asked
  <1>5. pc' = "infer" /\ UNCHANGED <<left, quote, todo>>
    BY DEF Ask
  <1>. QED BY <1>1, <1>4, <1>5, StagesApart DEF CycleTyped, AnswerSound

LEMMA AnswerTyped ==
    ASSUME Inductive, Answer
    PROVE  CycleTyped' /\ AnswerSound'
  <1>1. /\ pc = "infer" /\ pc \in Stages /\ CycleTyped /\ AnswerSound
        /\ UNCHANGED <<left, quote, todo>>
    BY TypeParts, StagesApart DEF Answer, Inductive
  <1>2. ai \in Asked /\ ai.action = "HOLD"
    BY <1>1 DEF CycleTyped, AnswerSound
  <1>3. CASE ai' = [ai EXCEPT !.recheck = "NOT_RUN"] /\ pc' = "recheck"
    <2>1. ai' \in Asked /\ ai'.action = "HOLD"
      BY <1>2, <1>3 DEF Asked, Verdicts
    <2>. QED BY <1>1, <1>3, <2>1, StagesApart DEF CycleTyped, AnswerSound
  <1>4. ASSUME NEW side \in {"BUY", "SELL"}, NEW asked \in Amounts,
               asked <= LimitOf(side), pc' = "refetch",
               ai' = [ai EXCEPT !.recheck = "NOT_RUN", !.action = side,
                                !.asked = asked, !.limit = LimitOf(side)]
        PROVE  CycleTyped' /\ AnswerSound'
    <2>. DEFINE limit == LimitOf(side)
    <2>1. limit \in Int /\ asked \in Nat /\ asked <= limit
      BY <1>1, <1>4, LimitTyped, AiAssumption
    <2>. HIDE DEF limit
    <2>2. ai' = [ai EXCEPT !.recheck = "NOT_RUN", !.action = side,
                           !.asked = asked, !.limit = limit]
      BY <1>4 DEF limit
    <2>3. ai' \in Asked /\ ai'.asked = asked /\ ai'.limit = limit
      BY <1>2, <2>1, <2>2 DEF Asked, Verdicts
    <2>. QED BY <1>1, <1>4, <2>1, <2>3, StagesApart DEF CycleTyped, AnswerSound
  <1>. QED BY <1>3, <1>4 DEF Answer

LEMMA RecheckTyped ==
    ASSUME Inductive, Recheck
    PROVE  CycleTyped' /\ AnswerSound'
  <1>1. /\ pc = "recheck" /\ pc \in Stages /\ CycleTyped /\ AnswerSound
        /\ pc' = "step" /\ UNCHANGED <<left, quote, todo>>
    BY TypeParts, StagesApart DEF Recheck, Inductive
  <1>2. Verdict \in Verdicts /\ (Verdict = "ACCEPTED" => ~Moved)
    BY DEF Verdict, Verdicts
  <1>3. ai' = [ai EXCEPT !.recheck = Verdict,
                         !.action = IF Verdict = "ACCEPTED" THEN @ ELSE "HOLD",
                         !.asked = IF Verdict = "ACCEPTED" THEN @ ELSE 0]
    BY DEF Recheck
  <1>4. ai \in Asked
    BY <1>1 DEF CycleTyped
  <1>5. /\ ai' \in Asked /\ ai'.recheck = Verdict /\ ai'.limit = ai.limit
        /\ ai'.price = ai.price
        /\ ai'.action # "HOLD" => /\ Verdict = "ACCEPTED" /\ ai.action # "HOLD"
                                  /\ ai'.asked = ai.asked
    BY <1>2, <1>3, <1>4 DEF Asked
  <1>6. Moved' <=> Moved
    BY <1>1, <1>5 DEF Moved, Sym
  <1>7. AnswerSound'
    BY <1>1, <1>2, <1>5, <1>6 DEF AnswerSound
  <1>. QED BY <1>1, <1>5, <1>7, StagesApart DEF CycleTyped

LEMMA CollectTyped ==
    ASSUME Inductive, Collect \/ Refetch
    PROVE  CycleTyped' /\ AnswerSound'
  <1>1. /\ pc \in {"next", "refetch"} /\ pc' \in {"filter", "recheck"} /\ left # <<>>
        /\ pc = "next" => pc' = "filter"
        /\ pc = "refetch" => pc' = "recheck"
        /\ UNCHANGED <<left, ai, todo>>
    BY TypeParts, StagesApart DEF Collect, Refetch, Inductive, CycleTyped
  <1>2. now \in Nat /\ CycleTyped /\ AnswerSound
    BY TypeParts, AiAssumption DEF Inductive
  <1>3. PICK q \in Quotes : quote' = [seen |-> now, price |-> q]
    BY DEF Collect, Refetch
  <1>4. quote'.seen \in Nat /\ quote'.price \in Quotes
    BY <1>2, <1>3
  <1>5. CycleTyped'
    BY <1>1, <1>2, <1>4, StagesApart DEF CycleTyped
  <1>6. AnswerSound'
    BY <1>1, <1>2 DEF AnswerSound
  <1>. QED BY <1>5, <1>6

LEMMA ObservationTyped ==
    ASSUME Inductive, Reserve \/ AskVariant \/ Complete
    PROVE  CycleTyped' /\ AnswerSound'
  <1>1. /\ pc \in {"observe", "variant", "muse"} /\ pc' \in {"variant", "muse"}
        /\ UNCHANGED <<left, quote, ai>>
        /\ CycleTyped /\ AnswerSound
    BY TypeParts DEF Reserve, AskVariant, Complete, Inductive
  <1>2. todo' \in Seq(Variants) /\ (pc' = "muse" => todo' # <<>>)
    <2>1. CASE Reserve
      <3>1. todo' \in Orders /\ pc' = "variant"
        BY <2>1, ReserveSpaced DEF Reserve
      <3>2. \A o \in Orders : o \in Seq(Variants)
        BY OrderLengths
      <3>. QED BY <3>1, <3>2
    <2>2. CASE AskVariant
      BY <1>1, <2>2 DEF AskVariant, CycleTyped
    <2>3. CASE Complete
      <3>1. todo \in Seq(Variants) /\ todo # <<>> /\ todo' = Tail(todo) /\ pc' = "variant"
        BY <1>1, <2>3 DEF Complete, CycleTyped
      <3>. QED BY <3>1, HeadTailProperties
    <2>. QED BY <2>1, <2>2, <2>3
  <1>3. ai = NoAi
    BY <1>1 DEF CycleTyped
  <1>4. CycleTyped'
    BY <1>1, <1>2, <1>3, StagesApart DEF CycleTyped
  <1>. QED BY <1>1, <1>3, <1>4, NothingAsked DEF AnswerSound

\* Between two rounds.
LEMMA RoundTyped ==
    ASSUME Inductive, StartWorker \/ Round \/ Rest \/ Wake
    PROVE  CycleTyped' /\ AnswerSound'
  <1>1. /\ pc \in Resting /\ pc' \in Resting /\ UNCHANGED <<quote, ai, todo>>
        /\ CycleTyped /\ AnswerSound
    BY TypeParts DEF StartWorker, Round, Rest, Wake, Inductive, Resting
  <1>2. left' \in Seq(Symbols)
    <2>1. Roster \in Seq(Symbols)
      BY AiAssumption
    <2>2. Reverse(Roster) \in Seq(Symbols)
      <3>1. Len(Roster) \in Nat /\ \A i \in 1 .. Len(Roster) : Roster[i] \in Symbols
        BY <2>1
      <3>2. \A i \in 1 .. Len(Roster) : (Len(Roster) - i) + 1 \in 1 .. Len(Roster)
        BY <3>1
      <3>3. Reverse(Roster) \in [1 .. Len(Roster) -> Symbols]
        BY <3>1, <3>2 DEF Reverse
      <3>. QED BY <3>1, <3>3
    <2>3. left' \in {left, <<>>, Roster, Reverse(Roster)}
      BY DEF StartWorker, Round, Rest, Wake
    <2>4. left \in Seq(Symbols) /\ <<>> \in Seq(Symbols)
      BY <1>1 DEF CycleTyped
    <2>. QED BY <2>1, <2>2, <2>3, <2>4
  <1>3. pc \notin Stages /\ pc' \notin Stages /\ pc' \notin {"variant", "muse"}
    BY <1>1, StagesApart DEF Resting
  <1>4. ai = NoAi /\ todo = <<>>
    BY <1>1, <1>3, StagesApart DEF CycleTyped
  <1>5. CycleTyped'
    BY <1>1, <1>2, <1>3, <1>4 DEF CycleTyped
  <1>. QED BY <1>1, <1>4, <1>5, NothingAsked DEF AnswerSound

LEMMA HoldTyped ==
    ASSUME Inductive, Skip \/ Hold
    PROVE  CycleTyped' /\ AnswerSound'
  <1>1. CycleTyped /\ AnswerSound /\ pc \in Stages /\ left # <<>>
    BY TypeParts, StagesApart DEF Skip, Hold, Inductive, CycleTyped
  <1>2. CASE NextSymbol
    BY <1>1, <1>2, NextSymbolTyped
  <1>3. CASE ~NextSymbol
    <2>1. /\ pc \in {"filter", "hold"} /\ pc' \in {"hold", "observe"}
          /\ UNCHANGED <<left, quote, ai, todo>>
      BY <1>3 DEF Skip, Hold
    <2>2. ai = NoAi /\ todo = <<>>
      BY <1>1, <2>1 DEF CycleTyped
    <2>3. CycleTyped'
      BY <1>1, <2>1, <2>2, StagesApart DEF CycleTyped
    <2>. QED BY <2>1, <2>2, <2>3, NothingAsked DEF AnswerSound
  <1>. QED BY <1>2, <1>3

LEMMA CycleStep ==
    ASSUME Inductive, [Next]_vars
    PROVE  CycleTyped' /\ AnswerSound'
  <1>1. CASE StartWorker \/ Round \/ Rest \/ Wake
    BY <1>1, RoundTyped
  <1>2. CASE Collect \/ Refetch
    BY <1>2, CollectTyped
  <1>3. CASE Ask \/ Answer \/ Recheck
    BY <1>3, AskTyped, AnswerTyped, RecheckTyped
  <1>4. CASE Skip \/ Hold
    BY <1>4, HoldTyped
  <1>5. CASE Reserve \/ AskVariant \/ Complete
    BY <1>5, ObservationTyped
  <1>6. CASE CollectFailed \/ RefetchFailed \/ Execute \/ Pass
    <2>1. left # <<>> /\ NextSymbol
      BY <1>6, TypeParts, StagesApart
         DEF CollectFailed, RefetchFailed, Execute, Pass, Inductive, CycleTyped
    <2>. QED BY <2>1, NextSymbolTyped
  <1>7. CASE FillStopped \/ Crash
    BY <1>7, LeaveTyped DEF FillStopped, Crash
  <1>8. CASE Stop \/ Resume \/ Tick \/ UNCHANGED vars
    <2>1. UNCHANGED <<pc, left, quote, ai, todo>>
      BY <1>8 DEF Stop, Resume, Tick, worker, vars
    <2>2. CycleTyped /\ AnswerSound
      BY TypeParts DEF Inductive
    <2>. QED BY <2>1, <2>2 DEF CycleTyped, AnswerSound, Moved, Sym
  <1>. QED BY <1>1, <1>2, <1>3, <1>4, <1>5, <1>6, <1>7, <1>8 DEF Next

LEMMA StopsStep ==
    ASSUME Inductive, [Next]_vars
    PROVE  StopsTyped' /\ now' \in 0 .. MaxTime
  <1>1. StopsTyped /\ now \in 0 .. MaxTime /\ MaxTime \in Nat
    BY TypeParts, AiAssumption DEF Inductive
  <1>. USE DEF vars, durable, worker, stops, StopsTyped
  <1>2. CASE StartWorker \/ Round \/ Rest \/ Wake
    BY <1>1, <1>2 DEF StartWorker, Round, Rest, Wake
  <1>3. CASE Collect \/ CollectFailed \/ Refetch \/ RefetchFailed
    BY <1>1, <1>3 DEF Collect, CollectFailed, Refetch, RefetchFailed, NextSymbol, MayTrip
  <1>4. CASE Skip \/ Ask \/ Answer \/ Recheck
    BY <1>1, <1>4 DEF Skip, Ask, Answer, Recheck
  <1>5. CASE Execute \/ Hold
    BY <1>1, <1>5 DEF Execute, Hold, NextSymbol
  <1>6. CASE FillStopped \/ Crash
    BY <1>1, <1>6 DEF FillStopped, Crash, Leave
  <1>7. CASE Reserve \/ Pass \/ AskVariant \/ Complete
    BY <1>1, <1>7 DEF Reserve, Pass, AskVariant, Complete, NextSymbol
  <1>8. CASE Stop \/ Resume \/ Tick \/ UNCHANGED vars
    <2>1. paired' = paired /\ tripped' = tripped /\ pc' = pc /\ killed' \in BOOLEAN
      BY <1>1, <1>8 DEF Stop, Resume, Tick
    <2>2. now' \in 0 .. MaxTime
      <3>1. now' = now \/ (now < MaxTime /\ now' = now + 1)
        BY <1>8 DEF Stop, Resume, Tick
      <3>2. now \in Nat /\ now <= MaxTime
        BY <1>1
      <3>3. now' \in Nat /\ now' <= MaxTime
        BY <1>1, <3>1, <3>2
      <3>. QED BY <1>1, <3>3
    <2>. QED BY <1>1, <2>1, <2>2
  <1>. QED BY <1>2, <1>3, <1>4, <1>5, <1>6, <1>7, <1>8 DEF Next

----------------------------------------------------------------------------
(* The theorems *)

LEMMA InitInductive == Init => Inductive
  <1>. SUFFICES ASSUME Init PROVE Inductive
    OBVIOUS
  <1>. USE DEF Init
  <1>1. now = 0 /\ MaxTime \in Nat /\ now \in Nat
    BY AiAssumption
  <1>2. arm \in Accounts(Ids) /\ AccountSound
    BY <1>1, NewArmAccount, NewArmSound DEF AccountSound
  <1>3. /\ based = <<>> /\ arm.trades = <<>> /\ shadows = <<>>
        /\ DOMAIN arm.trades = {} /\ DOMAIN shadows = {}
    BY DEF NewArm
  <1>4. CycleTyped
    <2>1. quote.seen \in Nat /\ pc \in Resting
      BY DEF NoQuote, Resting
    <2>2. pc \notin Stages /\ pc # "muse"
      BY <2>1, StagesApart DEF Resting
    <2>. QED BY <2>1, <2>2, NothingAsked DEF CycleTyped
  <1>5. TypeOK
    <2>1. /\ based \in Seq(Asked) /\ Len(based) = Len(arm.trades)
          /\ shadows \in Seq(Observations)
      BY <1>3
    <2>2. StopsTyped
      BY DEF StopsTyped
    <2>3. now \in 0 .. MaxTime
      BY <1>1
    <2>. QED BY <1>2, <1>4, <2>1, <2>2, <2>3, TypeParts
  <1>6. AnswerSound
    BY NothingAsked DEF AnswerSound
  <1>. QED BY <1>2, <1>3, <1>5, <1>6
       DEF Inductive, PairInTurn, FreshTrades, ShadowSpaced

LEMMA StepInductive == Inductive /\ [Next]_vars => Inductive'
  <1>. SUFFICES ASSUME Inductive, [Next]_vars PROVE Inductive'
    OBVIOUS
  <1>1. arm' \in Accounts(Ids) /\ AccountSound'
    BY AccountStep
  <1>2. based' \in Seq(Asked) /\ Len(based') = Len(arm'.trades) /\ FreshTrades'
    BY TradesStep
  <1>3. shadows' \in Seq(Observations) /\ ShadowSpaced' /\ PairInTurn'
    BY ShadowsStep
  <1>4. CycleTyped' /\ AnswerSound' /\ StopsTyped' /\ now' \in 0 .. MaxTime
    BY CycleStep, StopsStep
  <1>5. TypeOK'
    BY <1>1, <1>2, <1>3, <1>4
       DEF TypeOK, CycleTyped, StopsTyped, Resting, Ids, Observations
  <1>. QED BY <1>1, <1>2, <1>3, <1>4, <1>5 DEF Inductive

\* The invariant the properties follow from: what is true of the worker between
\* any two of its steps, whatever the clock, the operator and the model do.
THEOREM InductiveHolds == Spec => []Inductive
  BY InitInductive, StepInductive, PTL DEF Spec

\* The simulator's balances stay nonnegative under every answer a model may give,
\* and no cycle leaves a quote, an answer or an observation to the next.
THEOREM TypesHold == Spec => []TypeOK
  <1>1. Inductive => TypeOK
    BY DEF Inductive
  <1>. QED BY <1>1, InductiveHolds, PTL

\* A trade of the AI worker follows an accepted, unexpired answer, on the account
\* the model was shown and near the price it was shown (PreparedAI.revalidate,
\* AIStrategy.propose).
THEOREM FreshTradesHold == Spec => []FreshTrades
  <1>1. Inductive => FreshTrades
    BY DEF Inductive
  <1>. QED BY <1>1, InductiveHolds, PTL

\* Observations keep their interval across symbols, failures and restarts, and
\* the order of a pair turns with the next (ShadowRunner).
THEOREM ShadowSpacedHolds == Spec => []ShadowSpaced
  <1>1. Inductive => ShadowSpaced
    BY DEF Inductive
  <1>. QED BY <1>1, InductiveHolds, PTL

\* A budget the model is given is one the amount checks of the risk engine let
\* pass (trade_budget).
THEOREM BudgetCoversHolds == Spec => []BudgetCovers
  <1>1. Inductive => BudgetCovers
    <2>1. SUFFICES ASSUME Inductive, NEW q \in Quotes, NEW s \in Symbols,
                          TradeBudget(arm, q, s).buy > 0
                   PROVE  Affordable(arm, [price |-> q], s, TradeBudget(arm, q, s).buy)
      BY DEF BudgetCovers
    <2>2. arm \in Accounts(Ids)
      BY <2>1 DEF Inductive, TypeOK, Ids
    <2>. DEFINE buy == TradeBudget(arm, q, s).buy
    <2>. HIDE DEF buy
    <2>3. buy > 0 /\ buy = TradeBudget(arm, q, s).buy
      BY <2>1 DEF buy
    <2>. QED BY <2>2, <2>3, BudgetAffordable
  <1>. QED BY <1>1, InductiveHolds, PTL

=============================================================================
