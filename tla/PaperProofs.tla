----------------------------- MODULE PaperProofs -----------------------------
(***************************************************************************)
(* Lemmas about the simulated account.  The first part is about sums: the  *)
(* community modules add a function up in an order nobody knows, and the   *)
(* ledger needs to know that the order does not matter.                    *)
(***************************************************************************)
EXTENDS PaperArm, FiniteSetTheorems, TLAPS

(* Induction on a finite set, for a set of its subsets *)

\* What holds of a subset whenever it holds of its proper subsets, holds of all.
LEMMA SubsetInduction ==
    ASSUME NEW S, IsFiniteSet(S), NEW G \in SUBSET SUBSET S,
           ASSUME NEW T \in SUBSET S, \A U \in SUBSET T : U # T => U \in G
           PROVE  T \in G
    PROVE  G = SUBSET S
  <1>. DEFINE Bad == (SUBSET S) \ G
  <1>1. SUFFICES ASSUME Bad # {} PROVE FALSE
    OBVIOUS
  <1>2. IsWellFoundedOn(StrictSubsetOrdering(S), SUBSET S)
    BY FS_StrictSubsetOrderingWellFounded, FS_FiniteSubsetsOfFinite
  <1>3. PICK T \in Bad : \A U \in Bad : <<U, T>> \notin StrictSubsetOrdering(S)
    <2>1. Bad \subseteq SUBSET S
      OBVIOUS
    <2>. HIDE DEF Bad
    <2>. QED BY <1>1, <1>2, <2>1, WFMin
  <1>4. \A U \in SUBSET T : U # T => U \in G
    BY <1>3 DEF StrictSubsetOrdering
  <1>5. T \in G
    BY <1>3, <1>4
  <1>. QED BY <1>3, <1>5

----------------------------------------------------------------------------
(* What SumFunctionOnSet is *)

Pick(s) == CHOOSE x \in s : TRUE

\* g adds f up over the subsets of S, as the fold does.
Adds(f, S, g) ==
    g = [s \in SUBSET S |-> IF s = {} THEN 0 ELSE f[Pick(s)] + g[s \ {Pick(s)}]]

LEMMA SumIs ==
    ASSUME NEW f, NEW S
    PROVE  SumFunctionOnSet(f, S) = (CHOOSE g : Adds(f, S, g))[S]
  BY DEF SumFunctionOnSet, FoldFunctionOnSet, MapThenFoldSet, Adds, Pick

LEMMA PickIn ==
    ASSUME NEW s, s # {}
    PROVE  /\ Pick(s) \in s
           /\ s \ {Pick(s)} \subseteq s /\ s \ {Pick(s)} # s
  <1>1. Pick(s) \in s
    BY DEF Pick
  <1>. QED BY <1>1

LEMMA AddsAt ==
    ASSUME NEW f, NEW S, NEW g, Adds(f, S, g), NEW s \in SUBSET S
    PROVE  g[s] = IF s = {} THEN 0 ELSE f[Pick(s)] + g[s \ {Pick(s)}]
  <1>. DEFINE h == [t \in SUBSET S |->
                        IF t = {} THEN 0 ELSE f[Pick(t)] + g[t \ {Pick(t)}]]
  <1>1. g = h
    BY DEF Adds
  <1>2. h[s] = IF s = {} THEN 0 ELSE f[Pick(s)] + g[s \ {Pick(s)}]
    OBVIOUS
  <1>. QED BY <1>1, <1>2

\* Two such functions agree where both are defined.
LEMMA AddsUnique ==
    ASSUME NEW f, NEW S, NEW T, IsFiniteSet(T), T \subseteq S,
           NEW g, Adds(f, S, g), NEW h, Adds(f, T, h)
    PROVE  g[T] = h[T]
  <1>. DEFINE G == {s \in SUBSET T : g[s] = h[s]}
  <1>1. ASSUME NEW s \in SUBSET T, \A u \in SUBSET s : u # s => u \in G
        PROVE  s \in G
    <2>1. g[s] = IF s = {} THEN 0 ELSE f[Pick(s)] + g[s \ {Pick(s)}]
      <3>. s \in SUBSET S
        OBVIOUS
      <3>. QED BY AddsAt
    <2>2. h[s] = IF s = {} THEN 0 ELSE f[Pick(s)] + h[s \ {Pick(s)}]
      BY AddsAt
    <2>3. s # {} => g[s \ {Pick(s)}] = h[s \ {Pick(s)}]
      BY <1>1, PickIn
    <2>. QED BY <2>1, <2>2, <2>3
  <1>2. G = SUBSET T
    <2>. HIDE DEF G
    <2>1. G \in SUBSET SUBSET T
      BY DEF G
    <2>. QED BY <1>1, <2>1, SubsetInduction
  <1>. QED BY <1>2

\* There is one over every finite set.
LEMMA AddsExists ==
    ASSUME NEW f, NEW S, IsFiniteSet(S)
    PROVE  \E g : Adds(f, S, g)
  <1>. DEFINE G == {s \in SUBSET S : \E g : Adds(f, s, g)}
              H(s) == CHOOSE g : Adds(f, s, g)
  <1>1. ASSUME NEW T \in SUBSET S, \A u \in SUBSET T : u # T => u \in G
        PROVE  T \in G
    <2>1. \A u \in SUBSET T : u # T => Adds(f, u, H(u))
      BY <1>1
    <2>2. ASSUME NEW u \in SUBSET T, u # T
          PROVE  H(u)[u] = IF u = {} THEN 0
                           ELSE f[Pick(u)] + H(u \ {Pick(u)})[u \ {Pick(u)}]
      <3>. HIDE DEF H
      <3>. DEFINE v == u \ {Pick(u)}
      <3>1. H(u)[u] = IF u = {} THEN 0 ELSE f[Pick(u)] + H(u)[v]
        <4>1. Adds(f, u, H(u))
          BY <2>1, <2>2
        <4>. QED BY <4>1, AddsAt
      <3>2. CASE u # {}
        <4>1. Adds(f, u, H(u)) /\ Adds(f, v, H(v)) /\ v \subseteq u
          BY <2>1, <2>2, <3>2
        <4>2. IsFiniteSet(v)
          BY FS_Subset
        <4>3. H(u)[v] = H(v)[v]
          <5>. HIDE DEF v
          <5>. QED BY <4>1, <4>2, AddsUnique
        <4>. QED BY <3>1, <4>3
      <3>. QED BY <3>1, <3>2
    <2>. DEFINE g == [s \in SUBSET T |->
                        IF s = {} THEN 0
                        ELSE f[Pick(s)] + H(s \ {Pick(s)})[s \ {Pick(s)}]]
    <2>3. ASSUME NEW s \in SUBSET T, s # {}
          PROVE  g[s \ {Pick(s)}] = H(s \ {Pick(s)})[s \ {Pick(s)}]
      <3>. DEFINE v == s \ {Pick(s)}
      <3>. HIDE DEF H
      <3>1. v \in SUBSET T /\ v # T
        BY <2>3, PickIn
      <3>2. g[v] = IF v = {} THEN 0
                   ELSE f[Pick(v)] + H(v \ {Pick(v)})[v \ {Pick(v)}]
        BY <3>1
      <3>3. H(v)[v] = IF v = {} THEN 0
                      ELSE f[Pick(v)] + H(v \ {Pick(v)})[v \ {Pick(v)}]
        <4>. HIDE DEF v, g
        <4>. QED BY <2>2, <3>1
      <3>. QED BY <3>2, <3>3
    <2>4. g = [s \in SUBSET T |->
                IF s = {} THEN 0 ELSE f[Pick(s)] + g[s \ {Pick(s)}]]
      <3>. HIDE DEF H
      <3>. DEFINE k == [s \in SUBSET T |->
                            IF s = {} THEN 0 ELSE f[Pick(s)] + g[s \ {Pick(s)}]]
      <3>1. \A s \in SUBSET T : g[s] = k[s]
        <4>. TAKE s \in SUBSET T
        <4>1. CASE s = {}
          BY <4>1
        <4>2. CASE s # {}
          <5>1. g[s] = f[Pick(s)] + H(s \ {Pick(s)})[s \ {Pick(s)}]
            BY <4>2
          <5>2. k[s] = f[Pick(s)] + g[s \ {Pick(s)}]
            <6>. HIDE DEF g
            <6>. QED BY <4>2
          <5>. HIDE DEF g, k
          <5>. QED BY <2>3, <4>2, <5>1, <5>2
        <4>. QED BY <4>1, <4>2
      <3>2. DOMAIN g = SUBSET T /\ DOMAIN k = SUBSET T
        OBVIOUS
      <3>3. g = [s \in DOMAIN g |-> g[s]] /\ k = [s \in DOMAIN k |-> k[s]]
        OBVIOUS
      <3>. HIDE DEF g
      <3>4. g = k
        <4>. HIDE DEF k
        <4>. QED BY <3>1, <3>2, <3>3
      <3>. QED BY <3>4
    <2>5. Adds(f, T, g)
      <3>. HIDE DEF H, g
      <3>. QED BY <2>4 DEF Adds
    <2>. QED BY <2>5
  <1>2. G = SUBSET S
    <2>. HIDE DEF G
    <2>1. G \in SUBSET SUBSET S
      BY DEF G
    <2>. QED BY <1>1, <2>1, SubsetInduction
  <1>. QED BY <1>2

\* The equation of the fold.
LEMMA SumStep ==
    ASSUME NEW f, NEW S, IsFiniteSet(S)
    PROVE  SumFunctionOnSet(f, S) =
             IF S = {} THEN 0
             ELSE f[Pick(S)] + SumFunctionOnSet(f, S \ {Pick(S)})
  <1>. DEFINE H(s) == CHOOSE g : Adds(f, s, g)
              v == S \ {Pick(S)}
  <1>1. Adds(f, S, H(S))
    BY AddsExists
  <1>2. IsFiniteSet(v) /\ v \subseteq S
    BY FS_Subset
  <1>3. Adds(f, v, H(v))
    <2>. HIDE DEF v
    <2>. QED BY <1>2, AddsExists
  <1>4. SumFunctionOnSet(f, S) = H(S)[S] /\ SumFunctionOnSet(f, v) = H(v)[v]
    <2>. HIDE DEF v
    <2>. QED BY SumIs
  <1>5. H(S)[v] = H(v)[v]
    <2>. HIDE DEF v, H
    <2>. QED BY <1>1, <1>2, <1>3, AddsUnique
  <1>6. H(S)[S] = IF S = {} THEN 0 ELSE f[Pick(S)] + H(S)[v]
    <2>. HIDE DEF H
    <2>. QED BY <1>1, AddsAt
  <1>. HIDE DEF H
  <1>. QED BY <1>4, <1>5, <1>6

----------------------------------------------------------------------------
(* Sums *)

LEMMA SumEmpty ==
    ASSUME NEW f PROVE SumFunctionOnSet(f, {}) = 0
  BY SumStep, FS_EmptySet

LEMMA SumInt ==
    ASSUME NEW f, NEW S, IsFiniteSet(S), \A s \in S : f[s] \in Int
    PROVE  SumFunctionOnSet(f, S) \in Int
  <1>. DEFINE G == {T \in SUBSET S : SumFunctionOnSet(f, T) \in Int}
  <1>1. ASSUME NEW T \in SUBSET S, \A U \in SUBSET T : U # T => U \in G
        PROVE  T \in G
    <2>1. CASE T = {}
      BY <2>1, SumEmpty
    <2>2. CASE T # {}
      <3>1. Pick(T) \in T /\ T \ {Pick(T)} \in G
        BY <1>1, <2>2, PickIn
      <3>2. SumFunctionOnSet(f, T)
              = f[Pick(T)] + SumFunctionOnSet(f, T \ {Pick(T)})
        BY <2>2, SumStep, FS_Subset
      <3>. QED BY <3>1, <3>2
    <2>. QED BY <2>1, <2>2
  <1>2. G = SUBSET S
    <2>. HIDE DEF G
    <2>1. G \in SUBSET SUBSET S
      BY DEF G
    <2>. QED BY <1>1, <2>1, SubsetInduction
  <1>. QED BY <1>2

\* Any element may be taken out first.
LEMMA SumTake ==
    ASSUME NEW f, NEW S, IsFiniteSet(S), \A s \in S : f[s] \in Int,
           NEW x \in S
    PROVE  SumFunctionOnSet(f, S) = f[x] + SumFunctionOnSet(f, S \ {x})
  <1>. DEFINE G == {T \in SUBSET S : \A y \in T :
                      SumFunctionOnSet(f, T) = f[y] + SumFunctionOnSet(f, T \ {y})}
  <1>1. ASSUME NEW T \in SUBSET S, \A U \in SUBSET T : U # T => U \in G
        PROVE  T \in G
    <2>. SUFFICES ASSUME NEW y \in T
                  PROVE  SumFunctionOnSet(f, T)
                           = f[y] + SumFunctionOnSet(f, T \ {y})
      OBVIOUS
    <2>. DEFINE p == Pick(T)
                U == T \ {p}
                V == T \ {y}
                W == U \ {y}
    <2>1. SumFunctionOnSet(f, T) = f[p] + SumFunctionOnSet(f, U)
      BY SumStep, FS_Subset
    <2>2. p \in T
      BY PickIn
    <2>3. CASE p # y
      <3>1. U \in G /\ V \in G /\ y \in U /\ p \in V /\ W = V \ {p}
        BY <1>1, <2>2, <2>3
      <3>2. SumFunctionOnSet(f, U) = f[y] + SumFunctionOnSet(f, W)
        BY <3>1
      <3>3. SumFunctionOnSet(f, V) = f[p] + SumFunctionOnSet(f, W)
        <4>. HIDE DEF W
        <4>. QED BY <3>1
      <3>4. IsFiniteSet(W)
        BY FS_Subset
      <3>5. \A s \in W : f[s] \in Int
        OBVIOUS
      <3>6. SumFunctionOnSet(f, W) \in Int
        <4>. HIDE DEF W
        <4>. QED BY <3>4, <3>5, SumInt
      <3>7. f[p] \in Int /\ f[y] \in Int
        BY <2>2
      <3>. HIDE DEF U, W, p
      <3>. QED BY <2>1, <3>2, <3>3, <3>6, <3>7
    <2>. QED BY <2>1, <2>3
  <1>2. G = SUBSET S
    <2>. HIDE DEF G
    <2>1. G \in SUBSET SUBSET S
      BY DEF G
    <2>. QED BY <1>1, <2>1, SubsetInduction
  <1>. QED BY <1>2

LEMMA SumNat ==
    ASSUME NEW f, NEW S, IsFiniteSet(S), \A s \in S : f[s] \in Nat
    PROVE  SumFunctionOnSet(f, S) \in Nat
  <1>. DEFINE G == {T \in SUBSET S : SumFunctionOnSet(f, T) \in Nat}
  <1>1. ASSUME NEW T \in SUBSET S, \A U \in SUBSET T : U # T => U \in G
        PROVE  T \in G
    <2>1. CASE T = {}
      BY <2>1, SumEmpty
    <2>2. CASE T # {}
      <3>1. Pick(T) \in T /\ T \ {Pick(T)} \in G
        BY <1>1, <2>2, PickIn
      <3>2. SumFunctionOnSet(f, T)
              = f[Pick(T)] + SumFunctionOnSet(f, T \ {Pick(T)})
        BY <2>2, SumStep, FS_Subset
      <3>. QED BY <3>1, <3>2
    <2>. QED BY <2>1, <2>2
  <1>2. G = SUBSET S
    <2>. HIDE DEF G
    <2>1. G \in SUBSET SUBSET S
      BY DEF G
    <2>. QED BY <1>1, <2>1, SubsetInduction
  <1>. QED BY <1>2

\* The sum depends on the values alone.
LEMMA SumSame ==
    ASSUME NEW f, NEW g, NEW S, IsFiniteSet(S), \A s \in S : f[s] = g[s]
    PROVE  SumFunctionOnSet(f, S) = SumFunctionOnSet(g, S)
  <1>. DEFINE G == {T \in SUBSET S :
                      SumFunctionOnSet(f, T) = SumFunctionOnSet(g, T)}
  <1>1. ASSUME NEW T \in SUBSET S, \A U \in SUBSET T : U # T => U \in G
        PROVE  T \in G
    <2>1. CASE T = {}
      BY <2>1, SumEmpty
    <2>2. CASE T # {}
      <3>1. Pick(T) \in T /\ T \ {Pick(T)} \in G
        BY <1>1, <2>2, PickIn
      <3>2. IsFiniteSet(T)
        BY FS_Subset
      <3>3. SumFunctionOnSet(f, T)
              = f[Pick(T)] + SumFunctionOnSet(f, T \ {Pick(T)})
        BY <2>2, <3>2, SumStep
      <3>4. SumFunctionOnSet(g, T)
              = g[Pick(T)] + SumFunctionOnSet(g, T \ {Pick(T)})
        BY <2>2, <3>2, SumStep
      <3>. QED BY <3>1, <3>3, <3>4
    <2>. QED BY <2>1, <2>2
  <1>2. G = SUBSET S
    <2>. HIDE DEF G
    <2>1. G \in SUBSET SUBSET S
      BY DEF G
    <2>. QED BY <1>1, <2>1, SubsetInduction
  <1>. QED BY <1>2

\* One value changed.
LEMMA SumChanged ==
    ASSUME NEW f, NEW g, NEW S, IsFiniteSet(S),
           \A s \in S : f[s] \in Int /\ g[s] \in Int,
           NEW x \in S, \A s \in S : s # x => f[s] = g[s]
    PROVE  SumFunctionOnSet(g, S) = SumFunctionOnSet(f, S) + (g[x] - f[x])
  <1>. DEFINE T == S \ {x}
  <1>1. IsFiniteSet(T) /\ \A s \in T : f[s] = g[s]
    BY FS_Subset
  <1>2. SumFunctionOnSet(f, T) = SumFunctionOnSet(g, T)
    <2>. HIDE DEF T
    <2>. QED BY <1>1, SumSame
  <1>3. SumFunctionOnSet(f, T) \in Int
    <2>1. \A s \in T : f[s] \in Int
      OBVIOUS
    <2>. HIDE DEF T
    <2>. QED BY <1>1, <2>1, SumInt
  <1>4. SumFunctionOnSet(f, S) = f[x] + SumFunctionOnSet(f, T)
    BY SumTake
  <1>5. SumFunctionOnSet(g, S) = g[x] + SumFunctionOnSet(g, T)
    BY SumTake
  <1>. HIDE DEF T
  <1>. QED BY <1>2, <1>3, <1>4, <1>5

\* One element more.
LEMMA SumAdded ==
    ASSUME NEW f, NEW g, NEW S, IsFiniteSet(S),
           \A s \in S : f[s] \in Int /\ g[s] = f[s],
           NEW x, x \notin S, g[x] \in Int
    PROVE  SumFunctionOnSet(g, S \cup {x}) = SumFunctionOnSet(f, S) + g[x]
  <1>. DEFINE T == S \cup {x}
  <1>1. IsFiniteSet(T) /\ x \in T /\ T \ {x} = S
    BY FS_AddElement
  <1>2. \A s \in T : g[s] \in Int
    OBVIOUS
  <1>3. SumFunctionOnSet(g, T) = g[x] + SumFunctionOnSet(g, S)
    <2>. HIDE DEF T
    <2>. QED BY <1>1, <1>2, SumTake
  <1>4. SumFunctionOnSet(g, S) = SumFunctionOnSet(f, S)
    BY SumSame
  <1>5. SumFunctionOnSet(f, S) \in Int
    BY SumInt
  <1>. QED BY <1>3, <1>4, <1>5

LEMMA SumZero ==
    ASSUME NEW f, NEW S, IsFiniteSet(S), \A s \in S : f[s] = 0
    PROVE  SumFunctionOnSet(f, S) = 0
  <1>. DEFINE G == {T \in SUBSET S : SumFunctionOnSet(f, T) = 0}
  <1>1. ASSUME NEW T \in SUBSET S, \A U \in SUBSET T : U # T => U \in G
        PROVE  T \in G
    <2>1. CASE T = {}
      BY <2>1, SumEmpty
    <2>2. CASE T # {}
      <3>1. Pick(T) \in T /\ T \ {Pick(T)} \in G
        BY <1>1, <2>2, PickIn
      <3>2. SumFunctionOnSet(f, T)
              = f[Pick(T)] + SumFunctionOnSet(f, T \ {Pick(T)})
        BY <2>2, SumStep, FS_Subset
      <3>. QED BY <3>1, <3>2
    <2>. QED BY <2>1, <2>2
  <1>2. G = SUBSET S
    <2>. HIDE DEF G
    <2>1. G \in SUBSET SUBSET S
      BY DEF G
    <2>. QED BY <1>1, <2>1, SubsetInduction
  <1>. QED BY <1>2

----------------------------------------------------------------------------
(* Arithmetic *)

LEMMA Divided ==
    ASSUME NEW x \in Nat, NEW d \in Nat \ {0}
    PROVE  x \div d \in 0 .. x
  <1>. DEFINE q == x \div d
  <1>1. q \in Int /\ x = d * q + (x % d) /\ x % d \in 0 .. d - 1
    OBVIOUS
  <1>2. q >= 0
    BY <1>1
  <1>3. q <= d * q
    BY <1>1, <1>2
  <1>. QED BY <1>1, <1>2, <1>3

LEMMA DividedTimes ==
    ASSUME NEW x \in Nat, NEW d \in Nat \ {0}
    PROVE  (x \div d) * d <= x
  OBVIOUS

LEMMA DividedMonotone ==
    ASSUME NEW x \in Int, NEW y \in Int, x <= y, NEW d \in Nat \ {0}
    PROVE  x \div d <= y \div d
  OBVIOUS

\* A share of a whole is no more than the whole.
LEMMA Share ==
    ASSUME NEW c \in Nat, NEW n \in Nat, NEW q \in Nat, n > 0, n <= q
    PROVE  (c * n) \div q \in 0 .. c
  <1>1. c * n \in Nat /\ c * n <= c * q
    OBVIOUS
  <1>2. q \in Nat \ {0}
    OBVIOUS
  <1>. DEFINE m == c * n
              r == m \div q
  <1>3. r \in Nat /\ r * q <= m
    BY <1>1, <1>2, Divided, DividedTimes
  <1>4. r * q <= c * q
    BY <1>1, <1>3
  <1>5. r <= c
    <2>. HIDE DEF r
    <2>. QED BY <1>2, <1>3, <1>4
  <1>. QED BY <1>3, <1>5

LEMMA MinOfTwo ==
    ASSUME NEW x \in Int, NEW y \in Int
    PROVE  Min({x, y}) \in {x, y} /\ Min({x, y}) <= x /\ Min({x, y}) <= y
  <1>1. CASE x <= y
    <2>1. \E z \in {x, y} : \A w \in {x, y} : z <= w
      BY <1>1
    <2>. QED BY <2>1 DEF Min
  <1>2. CASE ~(x <= y)
    <2>1. \E z \in {x, y} : \A w \in {x, y} : z <= w
      BY <1>2
    <2>. QED BY <2>1 DEF Min
  <1>. QED BY <1>1, <1>2

LEMMA DayOrder ==
    ASSUME NEW t \in Nat, NEW u \in Nat, t <= u
    PROVE  /\ DayOf(t) \in Nat /\ DayOf(t) <= DayOf(u)
           /\ DayOf(t) * DayLen <= t /\ t < (DayOf(t) + 1) * DayLen
  BY PaperAssumption, Divided, DividedMonotone, DividedTimes DEF DayOf

----------------------------------------------------------------------------
(* The helpers keep the type of an account *)

LEMMA WorthNat ==
    ASSUME NEW qty \in [Symbols -> Nat], NEW price \in [Symbols -> Nat]
    PROVE  Worth(qty, price) \in Nat
  <1>. DEFINE f == [s \in Symbols |-> qty[s] * price[s]]
  <1>1. \A s \in Symbols : f[s] \in Nat
    OBVIOUS
  <1>2. SumFunctionOnSet(f, Symbols) \in Nat
    <2>. HIDE DEF f
    <2>. QED BY <1>1, PaperAssumption, SumNat
  <1>. QED BY <1>2 DEF Worth

LEMMA EquityNat ==
    ASSUME NEW K, NEW a \in Accounts(K), NEW price \in [Symbols -> Nat]
    PROVE  Equity(a, price) \in Nat
  <1>1. a.cash \in Nat /\ a.qty \in [Symbols -> Nat]
    BY DEF Accounts
  <1>. QED BY <1>1, WorthNat DEF Equity

LEMMA FeeBounds ==
    ASSUME NEW amount \in Nat PROVE Fee(amount) \in 0 .. amount
  BY PaperAssumption, Divided DEF Fee

LEMMA NewArmAccount ==
    ASSUME NEW K PROVE NewArm \in Accounts(K)
  BY DEF NewArm, Nothing, Accounts

LEMMA AccountFields ==
    ASSUME NEW K, NEW a \in Accounts(K)
    PROVE  /\ a.open \in BOOLEAN /\ a.cash \in Nat /\ a.realized \in Int
           /\ a.qty \in [Symbols -> Nat] /\ a.cost \in [Symbols -> Nat]
           /\ a.cycles \subseteq K /\ a.day \in Int /\ a.opening \in Nat
           /\ a.loss \in BOOLEAN
           /\ a.trades \in Seq(Executions(K))
  BY DEF Accounts

LEMMA TradeFields ==
    ASSUME NEW K, NEW a \in Accounts(K), NEW k \in DOMAIN a.trades
    PROVE  /\ a.trades[k] \in Executions(K)
           /\ a.trades[k].at \in Nat /\ a.trades[k].cash \in Int
           /\ a.trades[k].qty \in Int /\ a.trades[k].symbol \in Symbols
           /\ DayOf(a.trades[k].at) \in Nat
  <1>1. a.trades \in Seq(Executions(K))
    BY AccountFields
  <1>2. a.trades[k] \in Executions(K)
    BY <1>1
  <1>3. /\ a.trades[k].at \in Nat /\ a.trades[k].cash \in Int
        /\ a.trades[k].qty \in Int /\ a.trades[k].symbol \in Symbols
    BY <1>2 DEF Executions
  <1>4. DayOf(a.trades[k].at) \in Nat
    BY <1>3, DayOrder
  <1>. QED BY <1>2, <1>3, <1>4

LEMMA DomainFinite ==
    ASSUME NEW K, NEW a \in Accounts(K)
    PROVE  /\ Len(a.trades) \in Nat /\ DOMAIN a.trades = 1 .. Len(a.trades)
           /\ IsFiniteSet(DOMAIN a.trades)
  <1>1. a.trades \in Seq(Executions(K))
    BY AccountFields
  <1>2. Len(a.trades) \in Nat /\ DOMAIN a.trades = 1 .. Len(a.trades)
    <2>. DEFINE s == a.trades
                S == Executions(K)
    <2>1. s \in Seq(S)
      BY <1>1
    <2>. HIDE DEF s, S
    <2>2. Len(s) \in Nat /\ DOMAIN s = 1 .. Len(s)
      BY <2>1
    <2>. QED BY <2>2 DEF s
  <1>3. IsFiniteSet(1 .. Len(a.trades))
    <2>. DEFINE n == Len(a.trades)
    <2>1. n \in Int /\ 1 \in Int
      BY <1>2
    <2>. HIDE DEF n
    <2>2. IsFiniteSet(1 .. n)
      BY <2>1, FS_Interval
    <2>. QED BY <2>2 DEF n
  <1>. QED BY <1>2, <1>3

\* What an evaluation needs of an observation.
Observed(o, t) ==
    /\ o.at = t /\ t \in Nat
    /\ o.price \in [Symbols -> Nat] /\ \A s \in Symbols : o.price[s] >= Slip
    /\ o.midnight \in [Symbols -> Nat]

\* Two accounts with the same money, holdings and trades.
SameBooks(b, a) ==
    /\ b.open = a.open /\ b.cash = a.cash /\ b.realized = a.realized
    /\ b.qty = a.qty /\ b.cost = a.cost /\ b.trades = a.trades

LEMMA Redated ==
    ASSUME NEW K, NEW a \in Accounts(K), NEW d \in Int, NEW e \in Nat,
           NEW l \in BOOLEAN
    PROVE  [a EXCEPT !.day = d, !.opening = e, !.loss = l] \in Accounts(K)
  BY DEF Accounts

LEMMA BaselinedAccount ==
    ASSUME NEW K, NEW a \in Accounts(K), NEW t, NEW o, Observed(o, t)
    PROVE  /\ Baselined(a, o) \in Accounts(K)
           /\ SameBooks(Baselined(a, o), a)
           /\ Baselined(a, o).cycles = a.cycles
           /\ Baselined(a, o).day \in {a.day, DayOf(t)}
  <1>1. Equity(a, o.midnight) \in Nat
    BY EquityNat DEF Observed
  <1>2. DayOf(t) \in Nat
    BY DayOrder DEF Observed
  <1>3. o.at = t
    BY DEF Observed
  <1>. DEFINE b == [a EXCEPT !.day = DayOf(t), !.opening = Equity(a, o.midnight),
                             !.loss = FALSE]
  <1>4. Baselined(a, o) \in {a, b}
    BY <1>3 DEF Baselined
  <1>5. b \in Accounts(K)
    <2>1. DayOf(t) \in Int /\ FALSE \in BOOLEAN
      BY <1>2
    <2>. QED BY <1>1, <2>1, Redated, Zenon
  <1>6. SameBooks(b, a) /\ b.cycles = a.cycles /\ b.day = DayOf(t)
    BY DEF SameBooks, Accounts
  <1>. HIDE DEF b
  <1>. QED BY <1>4, <1>5, <1>6 DEF SameBooks

LEMMA AssessedAccount ==
    ASSUME NEW K, NEW a \in Accounts(K), NEW t, NEW o, Observed(o, t), NEW key \in K
    PROVE  /\ Assessed(a, o, key) \in Accounts(K)
           /\ SameBooks(Assessed(a, o, key), a)
           /\ Assessed(a, o, key).cycles = a.cycles \cup {key}
           /\ Assessed(a, o, key).day = Baselined(a, o).day
           /\ Assessed(a, o, key).opening = Baselined(a, o).opening
           /\ Assessed(a, o, key).day \in {a.day, DayOf(t)}
  <1>. DEFINE b == Baselined(a, o)
              l == LossTriggered(b, o)
  <1>1. /\ b \in Accounts(K) /\ SameBooks(b, a) /\ b.cycles = a.cycles
        /\ b.day \in {a.day, DayOf(t)}
    BY BaselinedAccount
  <1>2. l \in BOOLEAN
    BY DEF LossTriggered
  <1>3. Assessed(a, o, key) = [b EXCEPT !.cycles = b.cycles \cup {key},
                                        !.loss = b.loss \/ l]
    BY DEF Assessed
  <1>. HIDE DEF b, l
  <1>4. [b EXCEPT !.cycles = b.cycles \cup {key}, !.loss = b.loss \/ l]
            \in Accounts(K)
    BY <1>1, <1>2 DEF Accounts
  <1>. QED BY <1>1, <1>3, <1>4 DEF Accounts, SameBooks, b

----------------------------------------------------------------------------
(* Soundness *)

LEMMA NewArmSound ==
    ASSUME NEW t \in Nat PROVE Sound(NewArm, t)
  <1>1. -1 <= DayOf(t)
    BY DayOrder
  <1>2. \A s \in Symbols : LotsMoved(NewArm, s, DOMAIN NewArm.trades) = 0
    <2>. TAKE s \in Symbols
    <2>1. {k \in DOMAIN NewArm.trades : NewArm.trades[k].symbol = s} = {}
      BY DEF NewArm
    <2>. QED BY <2>1, SumEmpty DEF LotsMoved
  <1>3. \A s \in Symbols : NewArm.qty[s] = 0
    BY DEF NewArm, Nothing
  <1>4. NewArm.open = FALSE /\ DOMAIN NewArm.trades = {} /\ NewArm.day = -1
    BY DEF NewArm
  <1>. QED BY <1>1, <1>2, <1>3, <1>4
       DEF Sound, Posted, Balanced, Spaced, Limited, Dated

\* Later, with the same books, and perhaps on another day.
LEMMA SoundLater ==
    ASSUME NEW K, NEW a \in Accounts(K), NEW b \in Accounts(K),
           NEW t \in Nat, NEW u \in Nat, t <= u,
           Sound(a, t), SameBooks(b, a), a.open,
           b.day \in {a.day, DayOf(u)}
    PROVE  Sound(b, u)
  <1>1. a.day \in Int /\ DayOf(t) \in Nat /\ DayOf(u) \in Nat /\ DayOf(t) <= DayOf(u)
    <2>1. a.day \in Int
      BY AccountFields
    <2>2. DayOf(t) \in Nat /\ DayOf(t) <= DayOf(u)
      BY DayOrder
    <2>3. DayOf(u) \in Nat
      BY DayOrder
    <2>. QED BY <2>1, <2>2, <2>3
  <1>2. b.day <= DayOf(u) /\ a.day <= b.day
    BY <1>1 DEF Sound, Dated
  <1>3. \A k \in DOMAIN a.trades : /\ a.trades[k].at \in Nat
                                   /\ DayOf(a.trades[k].at) \in Nat
    BY TradeFields
  <1>4. Dated(b, u)
    <2>1. \A k \in DOMAIN a.trades : /\ a.trades[k].at <= t
                                     /\ DayOf(a.trades[k].at) <= a.day
      BY DEF Sound, Dated
    <2>2. b.day \in Int /\ b.trades = a.trades
      BY AccountFields DEF SameBooks
    <2>. QED BY <1>1, <1>2, <1>3, <2>1, <2>2 DEF Dated
  <1>5. \A d : TradesOn(b, d) = TradesOn(a, d)
    BY DEF TradesOn, SameBooks
  <1>. QED BY <1>4, <1>5
       DEF Sound, Posted, Balanced, Spaced, Limited, SameBooks, CashMoved, LotsMoved

LEMMA SoundUnopened ==
    ASSUME NEW a, NEW t \in Nat, NEW u \in Nat, Sound(a, t), ~a.open
    PROVE  Sound(a, u)
  BY NewArmSound DEF Sound

LEMMA InitializedSound ==
    ASSUME NEW K, NEW a \in Accounts(K), NEW t \in Nat, Sound(a, t)
    PROVE  /\ Initialized(a, t) \in Accounts(K) /\ Sound(Initialized(a, t), t)
           /\ Initialized(a, t).open /\ Initialized(a, t).cycles = a.cycles
           /\ Initialized(a, t).trades = a.trades
           /\ Initialized(a, t).loss = a.loss
           /\ a.open => Initialized(a, t) = a
           /\ ~a.open => /\ a = NewArm
                         /\ Initialized(a, t).day = DayOf(t)
                         /\ Initialized(a, t).opening = Capital
  <1>1. CASE a.open
    BY <1>1 DEF Initialized
  <1>2. CASE ~a.open
    <2>. DEFINE b == [NewArm EXCEPT !.open = TRUE, !.cash = Capital,
                                    !.day = DayOf(t), !.opening = Capital]
    <2>1. a = NewArm /\ Initialized(a, t) = b
      BY <1>2 DEF Initialized, Sound
    <2>2. Capital \in Nat /\ DayOf(t) \in Nat
      BY PaperAssumption, DayOrder
    <2>3. b \in Accounts(K)
      <3>1. NewArm \in Accounts(K)
        BY NewArmAccount
      <3>2. [NewArm EXCEPT !.open = TRUE, !.cash = Capital] \in Accounts(K)
        <4>. HIDE DEF NewArm
        <4>. QED BY <2>2, <3>1 DEF Accounts
      <3>3. DayOf(t) \in Int
        BY <2>2
      <3>. HIDE DEF NewArm
      <3>4. [[NewArm EXCEPT !.open = TRUE, !.cash = Capital]
                EXCEPT !.day = DayOf(t), !.opening = Capital] \in Accounts(K)
        BY <2>2, <3>2, <3>3 DEF Accounts
      <3>5. b = [[NewArm EXCEPT !.open = TRUE, !.cash = Capital]
                    EXCEPT !.day = DayOf(t), !.opening = Capital]
        BY <3>1 DEF Accounts
      <3>. HIDE DEF b
      <3>. QED BY <3>4, <3>5
    <2>4. /\ b.open = TRUE /\ b.cash = Capital /\ b.realized = 0 /\ b.trades = <<>>
          /\ b.day = DayOf(t) /\ b.qty = NewArm.qty /\ b.cost = Nothing
          /\ b.opening = Capital /\ b.loss = NewArm.loss /\ b.cycles = NewArm.cycles
      BY DEF NewArm
    <2>5. DOMAIN b.trades = {}
      BY <2>4
    <2>6. CashMoved(b, DOMAIN b.trades) = 0
      BY <2>5, SumEmpty DEF CashMoved
    <2>7. SumFunctionOnSet(b.cost, Symbols) = 0
      BY <2>4, SumZero, PaperAssumption DEF Nothing
    <2>8. Posted(NewArm) /\ NewArm.trades = <<>>
      BY NewArmSound DEF Sound, NewArm
    <2>9. \A s \in Symbols : b.qty[s] = LotsMoved(b, s, DOMAIN b.trades)
      <3>1. \A s \in Symbols : NewArm.qty[s] = LotsMoved(NewArm, s, DOMAIN NewArm.trades)
        BY <2>8 DEF Posted
      <3>2. b.trades = NewArm.trades
        BY <2>4, <2>8
      <3>. HIDE DEF b
      <3>. QED BY <2>4, <3>1, <3>2 DEF LotsMoved
    <2>10. Sound(b, t)
      <3>. HIDE DEF b
      <3>. QED BY <2>2, <2>4, <2>5, <2>6, <2>7, <2>9
           DEF Sound, Posted, Balanced, Spaced, Limited, Dated
    <2>. HIDE DEF b
    <2>. QED BY <1>2, <2>1, <2>3, <2>4, <2>10 DEF NewArm
  <1>. QED BY <1>1, <1>2

LEMMA AssessedSound ==
    ASSUME NEW K, NEW a \in Accounts(K), NEW t, NEW o, Observed(o, t), NEW key \in K,
           Sound(a, t), a.open
    PROVE  Sound(Assessed(a, o, key), t)
  BY AssessedAccount, SoundLater DEF Observed

----------------------------------------------------------------------------
(* A fill *)

\* b is a with one execution more; dk is what it does to the cost basis.
Posting(b, a, e, dk) ==
    /\ b.open = a.open /\ b.cash = a.cash + e.cash
    /\ b.qty = [a.qty EXCEPT ![e.symbol] = @ + e.qty]
    /\ b.cost = [a.cost EXCEPT ![e.symbol] = @ + dk]
    /\ b.realized = a.realized + e.cash + dk
    /\ b.trades = Append(a.trades, e)
    /\ b.cycles = a.cycles /\ b.day = a.day /\ b.opening = a.opening
    /\ b.loss = a.loss

LEMMA Appended ==
    ASSUME NEW K, NEW a \in Accounts(K), NEW b, NEW e \in Executions(K), NEW dk,
           Posting(b, a, e, dk)
    PROVE  /\ Len(a.trades) \in Nat /\ DOMAIN a.trades = 1 .. Len(a.trades)
           /\ IsFiniteSet(DOMAIN a.trades)
           /\ DOMAIN b.trades = DOMAIN a.trades \cup {Len(a.trades) + 1}
           /\ Len(a.trades) + 1 \notin DOMAIN a.trades
           /\ \A k \in DOMAIN a.trades : b.trades[k] = a.trades[k]
           /\ b.trades[Len(a.trades) + 1] = e
           /\ Len(b.trades) = Len(a.trades) + 1
  <1>. DEFINE n == Len(a.trades)
  <1>1. n \in Nat /\ DOMAIN a.trades = 1 .. n /\ a.trades \in Seq(Executions(K))
    BY DomainFinite, AccountFields
  <1>3. IsFiniteSet(DOMAIN a.trades)
    BY DomainFinite
  <1>2. b.trades = Append(a.trades, e)
    BY DEF Posting
  <1>. QED BY <1>1, <1>2, <1>3

\* What the earlier trades moved stays the same.
LEMMA MovedKept ==
    ASSUME NEW K, NEW a \in Accounts(K), NEW b, NEW e \in Executions(K), NEW dk,
           Posting(b, a, e, dk), NEW I \in SUBSET DOMAIN a.trades
    PROVE  /\ CashMoved(b, I) = CashMoved(a, I)
           /\ \A s \in Symbols : LotsMoved(b, s, I) = LotsMoved(a, s, I)
  <1>1. IsFiniteSet(I)
    BY DomainFinite, FS_Subset
  <1>2. \A k \in I : k \in DOMAIN b.trades /\ b.trades[k] = a.trades[k]
    <2>1. /\ DOMAIN b.trades = DOMAIN a.trades \cup {Len(a.trades) + 1}
          /\ \A k \in DOMAIN a.trades : b.trades[k] = a.trades[k]
          /\ b.trades[Len(a.trades) + 1] = e
      BY Appended
    <2>. QED BY <2>1
  <1>. DEFINE fa == [k \in DOMAIN a.trades |-> a.trades[k].cash]
              fb == [k \in DOMAIN b.trades |-> b.trades[k].cash]
              ga == [k \in DOMAIN a.trades |-> a.trades[k].qty]
              gb == [k \in DOMAIN b.trades |-> b.trades[k].qty]
  <1>3. \A k \in I : fa[k] = fb[k] /\ ga[k] = gb[k]
    BY <1>2
  <1>. HIDE DEF fa, fb, ga, gb
  <1>4. SumFunctionOnSet(fb, I) = SumFunctionOnSet(fa, I)
    BY <1>1, <1>3, SumSame
  <1>5. ASSUME NEW s \in Symbols
        PROVE  LotsMoved(b, s, I) = LotsMoved(a, s, I)
    <2>. DEFINE J == {k \in I : a.trades[k].symbol = s}
    <2>1. J = {k \in I : b.trades[k].symbol = s}
      BY <1>2
    <2>2. IsFiniteSet(J) /\ \A k \in J : ga[k] = gb[k]
      BY <1>1, <1>3, FS_Subset
    <2>3. SumFunctionOnSet(gb, J) = SumFunctionOnSet(ga, J)
      <3>. HIDE DEF J
      <3>. QED BY <2>2, SumSame
    <2>. QED BY <2>1, <2>3 DEF LotsMoved, ga, gb
  <1>. QED BY <1>4, <1>5 DEF CashMoved, fa, fb

LEMMA PostingPosted ==
    ASSUME NEW K, NEW a \in Accounts(K), NEW b \in Accounts(K),
           NEW e \in Executions(K), NEW dk \in Int, Posting(b, a, e, dk),
           Posted(a), a.open
    PROVE  Posted(b)
  <1>. DEFINE n == Len(a.trades)
              D == DOMAIN a.trades
              fa == [k \in DOMAIN a.trades |-> a.trades[k].cash]
              fb == [k \in DOMAIN b.trades |-> b.trades[k].cash]
              ga == [k \in DOMAIN a.trades |-> a.trades[k].qty]
              gb == [k \in DOMAIN b.trades |-> b.trades[k].qty]
  <1>1. /\ IsFiniteSet(D) /\ DOMAIN b.trades = D \cup {n + 1} /\ n + 1 \notin D
        /\ \A k \in D : b.trades[k] = a.trades[k]
        /\ b.trades[n + 1] = e
    BY Appended
  <1>2. \A k \in D : /\ fa[k] \in Int /\ fb[k] = fa[k]
                     /\ ga[k] \in Int /\ gb[k] = ga[k]
    BY <1>1, TradeFields
  <1>3. /\ fb[n + 1] = e.cash /\ gb[n + 1] = e.qty
        /\ e.cash \in Int /\ e.qty \in Int /\ e.symbol \in Symbols
    BY <1>1 DEF Executions
  <1>. HIDE DEF n, D, fa, fb, ga, gb
  <1>4. SumFunctionOnSet(fb, D \cup {n + 1}) = SumFunctionOnSet(fa, D) + e.cash
    BY <1>1, <1>2, <1>3, SumAdded
  <1>5. b.cash = Capital + CashMoved(b, DOMAIN b.trades)
    <2>1. a.cash = Capital + SumFunctionOnSet(fa, D)
      BY DEF Posted, CashMoved, fa, D
    <2>2. CashMoved(b, DOMAIN b.trades) = SumFunctionOnSet(fa, D) + e.cash
      BY <1>1, <1>4 DEF CashMoved, fb
    <2>3. b.cash = a.cash + e.cash
      BY DEF Posting
    <2>4. SumFunctionOnSet(fa, D) \in Int /\ Capital \in Nat
      BY <1>1, <1>2, SumInt, PaperAssumption
    <2>. QED BY <1>3, <2>1, <2>2, <2>3, <2>4
  <1>6. ASSUME NEW s \in Symbols
        PROVE  b.qty[s] = LotsMoved(b, s, DOMAIN b.trades)
    <2>. DEFINE J == {k \in D : a.trades[k].symbol = s}
                L == {k \in DOMAIN b.trades : b.trades[k].symbol = s}
    <2>1. IsFiniteSet(J) /\ J \subseteq D
      BY <1>1, FS_Subset
    <2>2. a.qty[s] = SumFunctionOnSet(ga, J)
      BY DEF Posted, LotsMoved, ga, D
    <2>3. LotsMoved(b, s, DOMAIN b.trades) = SumFunctionOnSet(gb, L)
      BY DEF LotsMoved, gb
    <2>4. a.qty \in [Symbols -> Nat] /\ b.qty = [a.qty EXCEPT ![e.symbol] = @ + e.qty]
      BY AccountFields DEF Posting
    <2>5. CASE e.symbol = s
      <3>1. L = J \cup {n + 1} /\ n + 1 \notin J
        BY <1>1, <2>5
      <3>2. SumFunctionOnSet(gb, J \cup {n + 1}) = SumFunctionOnSet(ga, J) + gb[n + 1]
        <4>. HIDE DEF J, L
        <4>. QED BY <1>2, <1>3, <2>1, <3>1, SumAdded
      <3>3. b.qty[s] = a.qty[s] + e.qty
        BY <2>4, <2>5
      <3>. HIDE DEF J, L
      <3>. QED BY <1>3, <2>2, <2>3, <3>1, <3>2, <3>3
    <2>6. CASE e.symbol # s
      <3>1. L = J
        BY <1>1, <2>6
      <3>2. SumFunctionOnSet(gb, J) = SumFunctionOnSet(ga, J)
        <4>. HIDE DEF J
        <4>. QED BY <1>2, <2>1, SumSame
      <3>3. b.qty[s] = a.qty[s]
        BY <2>4, <2>6
      <3>. HIDE DEF J, L
      <3>. QED BY <2>2, <2>3, <3>1, <3>2, <3>3
    <2>. QED BY <2>5, <2>6
  <1>. QED BY <1>5, <1>6 DEF Posted

LEMMA PostingBalanced ==
    ASSUME NEW K, NEW a \in Accounts(K), NEW b \in Accounts(K),
           NEW e \in Executions(K), NEW dk \in Int, Posting(b, a, e, dk),
           Balanced(a), a.open
    PROVE  Balanced(b)
  <1>. DEFINE s == e.symbol
  <1>1. s \in Symbols /\ e.cash \in Int
    BY DEF Executions
  <1>2. /\ a.cost \in [Symbols -> Nat] /\ a.cash \in Nat /\ a.realized \in Int
        /\ b.cost \in [Symbols -> Nat]
    BY AccountFields
  <1>3. /\ b.cost[s] = a.cost[s] + dk
        /\ \A x \in Symbols : x # s => a.cost[x] = b.cost[x]
    BY <1>1, <1>2 DEF Posting
  <1>4. \A x \in Symbols : a.cost[x] \in Int /\ b.cost[x] \in Int
    BY <1>2
  <1>. HIDE DEF s
  <1>5. SumFunctionOnSet(b.cost, Symbols)
          = SumFunctionOnSet(a.cost, Symbols) + (b.cost[s] - a.cost[s])
    BY <1>1, <1>3, <1>4, PaperAssumption, SumChanged
  <1>6. SumFunctionOnSet(a.cost, Symbols) \in Int /\ Capital \in Nat
    BY <1>4, PaperAssumption, SumInt
  <1>7. a.cash + SumFunctionOnSet(a.cost, Symbols) = Capital + a.realized
    BY DEF Balanced
  <1>8. b.cash = a.cash + e.cash /\ b.realized = a.realized + e.cash + dk
    BY DEF Posting
  <1>9. SumFunctionOnSet(b.cost, Symbols) = SumFunctionOnSet(a.cost, Symbols) + dk
    BY <1>1, <1>3, <1>4, <1>5, <1>6
  <1>. QED BY <1>1, <1>2, <1>6, <1>7, <1>8, <1>9 DEF Balanced

\* The limits of the risk engine keep the trades few and far between.
LEMMA PostingSpaced ==
    ASSUME NEW K, NEW a \in Accounts(K), NEW b \in Accounts(K),
           NEW e \in Executions(K), NEW dk \in Int, Posting(b, a, e, dk),
           NEW t \in Nat, e.at = t, NEW o, o.at = t, UnderLimits(a, o),
           Spaced(a), Limited(a), Dated(a, t), a.day = DayOf(t)
    PROVE  Spaced(b) /\ Limited(b) /\ Dated(b, t)
  <1>. DEFINE n == Len(a.trades)
              D == DOMAIN a.trades
  <1>1. /\ n \in Nat /\ D = 1 .. n
        /\ IsFiniteSet(D) /\ DOMAIN b.trades = D \cup {n + 1} /\ n + 1 \notin D
        /\ \A k \in D : b.trades[k] = a.trades[k]
        /\ b.trades[n + 1] = e
    BY Appended
  <1>2. \A k \in D : a.trades[k].at \in Nat /\ DayOf(a.trades[k].at) \in Nat
    BY TradeFields
  <1>3. Cooldown \in Nat /\ MaxTrades \in Nat
    BY PaperAssumption
  <1>. HIDE DEF n, D
  <1>4. ASSUME NEW i \in D PROVE t - a.trades[i].at >= Cooldown
    <2>1. a.trades # <<>> /\ n \in D /\ i <= n
      BY <1>1 DEF D
    <2>2. t - a.trades[n].at >= Cooldown
      BY <2>1 DEF UnderLimits, n
    <2>3. i = n \/ a.trades[n].at - a.trades[i].at >= Cooldown
      BY <1>1, <2>1 DEF Spaced, D
    <2>4. a.trades[i].at \in Nat /\ a.trades[n].at \in Nat
      BY <1>2, <2>1
    <2>5. CASE i = n
      BY <2>2, <2>5
    <2>6. CASE a.trades[n].at - a.trades[i].at >= Cooldown
      BY <1>3, <2>2, <2>4, <2>6
    <2>. QED BY <2>3, <2>5, <2>6
  <1>5. Spaced(b)
    <2>. SUFFICES ASSUME NEW i \in DOMAIN b.trades, NEW j \in DOMAIN b.trades, i < j
                  PROVE  b.trades[j].at - b.trades[i].at >= Cooldown
      BY DEF Spaced
    <2>1. i \in D
      BY <1>1
    <2>2. CASE j \in D
      BY <1>1, <2>1, <2>2 DEF Spaced, D
    <2>3. CASE j = n + 1
      BY <1>1, <1>4, <2>1, <2>3
    <2>. QED BY <1>1, <2>2, <2>3
  <1>6. ASSUME NEW d
        PROVE  /\ d # DayOf(t) => TradesOn(b, d) = TradesOn(a, d)
               /\ d = DayOf(t) => TradesOn(b, d) = TradesOn(a, d) \cup {n + 1}
    BY <1>1 DEF TradesOn, D
  <1>7. ASSUME NEW d PROVE IsFiniteSet(TradesOn(a, d))
    BY <1>1, FS_Subset DEF TradesOn, D
  <1>8. Cardinality(TradesOn(b, DayOf(t))) <= MaxTrades
    <2>1. Cardinality(TradesOn(a, DayOf(t))) < MaxTrades
      BY DEF UnderLimits
    <2>2. /\ Cardinality(TradesOn(a, DayOf(t))) \in Nat
          /\ Cardinality(TradesOn(a, DayOf(t)) \cup {n + 1})
               <= Cardinality(TradesOn(a, DayOf(t))) + 1
          /\ Cardinality(TradesOn(a, DayOf(t)) \cup {n + 1}) \in Nat
      <3>. DEFINE X == TradesOn(a, DayOf(t))
      <3>1. IsFiniteSet(X)
        BY <1>7
      <3>. HIDE DEF X
      <3>2. Cardinality(X) \in Nat
        BY <3>1, FS_CardinalityType
      <3>3. Cardinality(X \cup {n + 1})
              = IF n + 1 \in X THEN Cardinality(X) ELSE Cardinality(X) + 1
        BY <3>1, FS_AddElement
      <3>4. /\ Cardinality(X \cup {n + 1}) <= Cardinality(X) + 1
            /\ Cardinality(X \cup {n + 1}) \in Nat
        BY <3>2, <3>3
      <3>. QED BY <3>2, <3>4 DEF X
    <2>. QED BY <1>3, <1>6, <2>1, <2>2
  <1>9. Limited(b)
    <2>. SUFFICES ASSUME NEW k \in DOMAIN b.trades
                  PROVE  Cardinality(TradesOn(b, DayOf(b.trades[k].at))) <= MaxTrades
      BY DEF Limited
    <2>1. CASE DayOf(b.trades[k].at) = DayOf(t)
      BY <1>8, <2>1
    <2>2. CASE DayOf(b.trades[k].at) # DayOf(t)
      <3>1. k \in D /\ b.trades[k] = a.trades[k]
        BY <1>1, <2>2
      <3>2. Cardinality(TradesOn(a, DayOf(a.trades[k].at))) <= MaxTrades
        BY <3>1 DEF Limited, D
      <3>. QED BY <1>6, <2>2, <3>1, <3>2
    <2>. QED BY <2>1, <2>2
  <1>10. Dated(b, t)
    <2>1. b.day = DayOf(t) /\ DayOf(t) \in Nat
      BY DayOrder DEF Posting
    <2>2. \A k \in D : a.trades[k].at <= t /\ DayOf(a.trades[k].at) <= DayOf(t)
      BY DEF Dated, D
    <2>. QED BY <1>1, <2>1, <2>2 DEF Dated
  <1>. QED BY <1>5, <1>9, <1>10

LEMMA PostingSound ==
    ASSUME NEW K, NEW a \in Accounts(K), NEW b \in Accounts(K),
           NEW e \in Executions(K), NEW dk \in Int, Posting(b, a, e, dk),
           NEW t \in Nat, e.at = t, NEW o, o.at = t, UnderLimits(a, o),
           Sound(a, t), a.open, a.day = DayOf(t)
    PROVE  Sound(b, t)
  <1>1. b.open
    BY DEF Posting
  <1>2. Posted(b)
    BY PostingPosted DEF Sound
  <1>3. Balanced(b)
    BY PostingBalanced DEF Sound
  <1>4. Spaced(b) /\ Limited(b) /\ Dated(b, t)
    BY PostingSpaced DEF Sound
  <1>. QED BY <1>1, <1>2, <1>3, <1>4 DEF Sound

----------------------------------------------------------------------------
(* A purchase and a sale are postings *)

LEMMA LotsCost ==
    ASSUME NEW amount \in Nat, NEW p \in Nat, p + Slip > 0
    PROVE  /\ Lots(amount, p) \in Nat
           /\ Lots(amount, p) * Upper(p) \in 0 .. amount
  <1>1. Slip \in Nat /\ p + Slip \in Nat \ {0}
    BY PaperAssumption
  <1>. DEFINE u == p + Slip
              n == amount \div u
  <1>2. n \in Nat /\ n * u <= amount
    BY <1>1, Divided, DividedTimes
  <1>3. n * u \in Nat
    BY <1>1, <1>2
  <1>. QED BY <1>1, <1>2, <1>3 DEF Lots, Upper

\* What a sale asks for, and the lots it comes to.
LEMMA SellNat ==
    ASSUME NEW K, NEW a \in Accounts(K), NEW o, NEW s \in Symbols,
           o.price[s] \in Nat, o.price[s] + Slip > 0, NEW amount \in Nat
    PROVE  SellAmount(a, o, s, amount) \in Nat /\ SellLots(a, o, s, amount) \in Nat
  <1>. DEFINE p == o.price[s]
              q == a.qty[s]
              x == q * Upper(p)
              n == Lots(amount, p)
  <1>1. q \in Nat /\ OrderLimit \in Nat /\ Slip \in Nat /\ p \in Nat /\ p + Slip > 0
    BY AccountFields, PaperAssumption
  <1>2. n \in Nat
    <2>. HIDE DEF p
    <2>. QED BY <1>1, LotsCost
  <1>3. x \in Nat
    <2>1. Upper(p) \in Nat
      BY <1>1 DEF Upper
    <2>. HIDE DEF p, q
    <2>. QED BY <1>1, <2>1
  <1>4. SellAmount(a, o, s, amount) \in {amount, Min({x, OrderLimit})}
    BY DEF SellAmount
  <1>5. SellLots(a, o, s, amount) \in {n, Min({n, q})}
    BY DEF SellLots
  <1>. HIDE DEF x, n, q, p
  <1>6. Min({x, OrderLimit}) \in {x, OrderLimit} /\ Min({n, q}) \in {n, q}
    <2>1. x \in Int /\ OrderLimit \in Int /\ n \in Int /\ q \in Int
      BY <1>1, <1>2, <1>3
    <2>. QED BY <2>1, MinOfTwo, Zenon
  <1>. QED BY <1>1, <1>2, <1>3, <1>4, <1>5, <1>6

LEMMA FeeMonotone ==
    ASSUME NEW x \in Nat, NEW y \in Nat, x <= y
    PROVE  Fee(x) <= Fee(y)
  BY PaperAssumption, DividedMonotone DEF Fee

\* The typed form of the record that a fill builds.
LEMMA Rebooked ==
    ASSUME NEW K, NEW a \in Accounts(K), NEW e \in Executions(K), NEW dk \in Int,
           NEW c \in Nat, NEW q \in [Symbols -> Nat], NEW g \in [Symbols -> Nat],
           NEW r \in Int
    PROVE  [a EXCEPT !.cash = c, !.qty = q, !.cost = g, !.realized = r,
                     !.trades = Append(a.trades, e)] \in Accounts(K)
  <1>1. Append(a.trades, e) \in Seq(Executions(K))
    BY AccountFields
  <1>2. [a EXCEPT !.cash = c, !.qty = q] \in Accounts(K)
    BY DEF Accounts
  <1>3. ASSUME NEW b \in Accounts(K), NEW s \in Seq(Executions(K))
        PROVE  [b EXCEPT !.cost = g, !.realized = r, !.trades = s] \in Accounts(K)
    BY <1>3 DEF Accounts
  <1>4. [[a EXCEPT !.cash = c, !.qty = q] EXCEPT
            !.cost = g, !.realized = r, !.trades = Append(a.trades, e)] \in Accounts(K)
    BY <1>1, <1>2, <1>3, Zenon
  <1>5. [[a EXCEPT !.cash = c, !.qty = q] EXCEPT
            !.cost = g, !.realized = r, !.trades = Append(a.trades, e)]
         = [a EXCEPT !.cash = c, !.qty = q, !.cost = g, !.realized = r,
                     !.trades = Append(a.trades, e)]
    OBVIOUS
  <1>. QED BY <1>4, <1>5

LEMMA BoughtPosting ==
    ASSUME NEW K, NEW a \in Accounts(K), NEW key \in K, NEW t, NEW o, Observed(o, t),
           NEW s \in Symbols, o.price[s] > 0, NEW amount \in Nat,
           NEW n, n = Lots(amount, o.price[s]), n > 0,
           amount + Fee(amount) <= a.cash
    PROVE  /\ Bought(a, o, s, n, key) \in Accounts(K)
           /\ \E e \in Executions(K), dk \in Int :
                /\ Posting(Bought(a, o, s, n, key), a, e, dk)
                /\ e.at = t /\ e.key = key /\ e.qty > 0 /\ e.qty = n
                /\ e.cash = -(n * Upper(o.price[s]) + Fee(n * Upper(o.price[s])))
  <1>. DEFINE p == o.price[s]
              paid == n * Upper(p) + Fee(n * Upper(p))
              e == Trade(s, key, o, -paid, n)
              q == [a.qty EXCEPT ![s] = @ + n]
              g == [a.cost EXCEPT ![s] = @ + paid]
              b == [a EXCEPT !.cash = a.cash - paid, !.qty = q, !.cost = g,
                             !.realized = a.realized,
                             !.trades = Append(a.trades, e)]
  <1>1. p \in Nat /\ t \in Nat /\ o.at = t /\ p + Slip > 0
    BY PaperAssumption DEF Observed
  <1>2. n \in Nat /\ n * Upper(p) \in 0 .. amount
    BY <1>1, LotsCost
  <1>3. /\ Fee(n * Upper(p)) \in Nat /\ Fee(n * Upper(p)) <= Fee(amount)
        /\ Fee(amount) \in Nat
    BY <1>2, FeeBounds, FeeMonotone
  <1>4. a.cash \in Nat /\ a.realized \in Int
        /\ a.qty \in [Symbols -> Nat] /\ a.cost \in [Symbols -> Nat]
    BY AccountFields
  <1>5. paid \in Nat /\ a.cash - paid \in Nat
    BY <1>2, <1>3, <1>4
  <1>. HIDE DEF paid, p
  <1>6. e \in Executions(K) /\ e.at = t /\ e.key = key /\ e.qty = n
        /\ e.cash = -paid /\ e.symbol = s
    BY <1>1, <1>2, <1>5 DEF Trade, Executions
  <1>7. q \in [Symbols -> Nat] /\ g \in [Symbols -> Nat]
    BY <1>2, <1>4, <1>5
  <1>8. b \in Accounts(K)
    <2>. HIDE DEF e, q, g
    <2>. QED BY <1>4, <1>5, <1>6, <1>7, Rebooked
  <1>9. Bought(a, o, s, n, key) = b
    <2>1. Bought(a, o, s, n, key) =
            [a EXCEPT !.cash = @ - paid, !.qty[s] = @ + n, !.cost[s] = @ + paid,
                      !.trades = Append(@, e)]
      BY DEF Bought, paid, p
    <2>. HIDE DEF e
    <2>. QED BY <2>1 DEF Accounts
  <1>10. Posting(b, a, e, paid)
    <2>1. /\ b.open = a.open /\ b.cash = a.cash - paid /\ b.qty = q /\ b.cost = g
          /\ b.realized = a.realized /\ b.trades = Append(a.trades, e)
          /\ b.cycles = a.cycles /\ b.day = a.day /\ b.opening = a.opening
          /\ b.loss = a.loss
      <3>. HIDE DEF e, q, g
      <3>. QED BY DEF Accounts
    <2>. HIDE DEF b, e
    <2>. QED BY <1>4, <1>5, <1>6, <2>1 DEF Posting
  <1>11. e.cash = -(n * Upper(o.price[s]) + Fee(n * Upper(o.price[s])))
    <2>. HIDE DEF e
    <2>. QED BY <1>6 DEF paid, p
  <1>. HIDE DEF b, e, q, g
  <1>. QED BY <1>5, <1>6, <1>8, <1>9, <1>10, <1>11

LEMMA SoldPosting ==
    ASSUME NEW K, NEW a \in Accounts(K), NEW key \in K, NEW t, NEW o, Observed(o, t),
           NEW s \in Symbols, NEW n \in Nat, n > 0, n <= a.qty[s]
    PROVE  /\ Sold(a, o, s, n, key) \in Accounts(K)
           /\ \E e \in Executions(K), dk \in Int :
                /\ Posting(Sold(a, o, s, n, key), a, e, dk)
                /\ e.at = t /\ e.key = key /\ e.qty < 0 /\ e.qty = -n
                /\ e.cash = n * Lower(o.price[s]) - Fee(n * Lower(o.price[s]))
  <1>. DEFINE p == o.price[s]
              gross == n * Lower(p)
              got == gross - Fee(gross)
              gone == (a.cost[s] * n) \div a.qty[s]
              e == Trade(s, key, o, got, -n)
              q == [a.qty EXCEPT ![s] = @ - n]
              g == [a.cost EXCEPT ![s] = @ - gone]
              b == [a EXCEPT !.cash = a.cash + got, !.qty = q, !.cost = g,
                             !.realized = a.realized + got - gone,
                             !.trades = Append(a.trades, e)]
  <1>1. p \in Nat /\ t \in Nat /\ o.at = t /\ p >= Slip /\ Slip \in Nat
    BY PaperAssumption DEF Observed
  <1>2. a.cash \in Nat /\ a.realized \in Int
        /\ a.qty \in [Symbols -> Nat] /\ a.cost \in [Symbols -> Nat]
    BY AccountFields
  <1>3. gross \in Nat
    <2>1. Lower(p) \in Nat
      BY <1>1 DEF Lower
    <2>. QED BY <2>1
  <1>4. got \in Nat
    <2>. HIDE DEF gross
    <2>. QED BY <1>3, FeeBounds
  <1>5. gone \in 0 .. a.cost[s]
    BY <1>2, Share
  <1>. HIDE DEF p, gross, got, gone
  <1>6. e \in Executions(K) /\ e.at = t /\ e.key = key /\ e.qty = -n
        /\ e.cash = got /\ e.symbol = s
    BY <1>1, <1>4 DEF Trade, Executions
  <1>7. q \in [Symbols -> Nat] /\ g \in [Symbols -> Nat]
    BY <1>2, <1>5
  <1>8. b \in Accounts(K)
    <2>1. a.cash + got \in Nat /\ a.realized + got - gone \in Int
      BY <1>2, <1>4, <1>5
    <2>. HIDE DEF e, q, g
    <2>. QED BY <1>5, <1>6, <1>7, <2>1, Rebooked
  <1>9. Sold(a, o, s, n, key) = b
    <2>1. Sold(a, o, s, n, key) =
            [a EXCEPT !.cash = @ + got, !.qty[s] = @ - n, !.cost[s] = @ - gone,
                      !.realized = @ + got - gone, !.trades = Append(@, e)]
      BY DEF Sold, got, gross, gone, p
    <2>. HIDE DEF e
    <2>. QED BY <2>1 DEF Accounts
  <1>10. Posting(b, a, e, -gone)
    <2>1. /\ b.open = a.open /\ b.cash = a.cash + got /\ b.qty = q /\ b.cost = g
          /\ b.realized = a.realized + got - gone /\ b.trades = Append(a.trades, e)
          /\ b.cycles = a.cycles /\ b.day = a.day /\ b.opening = a.opening
          /\ b.loss = a.loss
      <3>. HIDE DEF e, q, g
      <3>. QED BY DEF Accounts
    <2>. HIDE DEF b, e
    <2>2. /\ a.cost[s] - gone = a.cost[s] + (-gone)
          /\ a.qty[s] - n = a.qty[s] + (-n)
          /\ a.realized + got - gone = a.realized + got + (-gone)
      BY <1>2, <1>4, <1>5
    <2>3. b.qty = [a.qty EXCEPT ![s] = @ + (-n)]
      BY <2>1, <2>2
    <2>4. b.cost = [a.cost EXCEPT ![s] = @ + (-gone)]
      BY <2>1, <2>2
    <2>. QED BY <1>6, <2>1, <2>2, <2>3, <2>4 DEF Posting
  <1>11. -gone \in Int /\ -n < 0
    BY <1>2, <1>5
  <1>12. e.cash = n * Lower(o.price[s]) - Fee(n * Lower(o.price[s]))
    <2>. HIDE DEF e
    <2>. QED BY <1>6 DEF got, gross, p
  <1>. HIDE DEF b, e, q, g
  <1>. QED BY <1>6, <1>8, <1>9, <1>10, <1>11, <1>12

=============================================================================
