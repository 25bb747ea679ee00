----------------------------- MODULE SoakProofs -----------------------------
(***************************************************************************)
(* The observation worker and its repairs, proved for every value of the   *)
(* constants.  Inductive is the invariant; it is proved in four layers:    *)
(* what the helpers do to a row, what the world beside the lock holder may *)
(* do, where the holder may be and what its copy of the row then is, and   *)
(* how the fills in the log, the ledger and the account hang together.     *)
(***************************************************************************)
EXTENDS SoakReport, FiniteSetTheorems, SequenceTheorems, TLAPS

(* What the helpers do to a row *)

\* The row an observation starts from.
LEMMA FreshIsRow ==
    FreshRow \in Rows /\ IsFiniteSet(FreshRow.times)
  <1>1. IsFiniteSet({})
    BY FS_EmptySet
  <1>. QED BY <1>1, SoakAssumption DEF FreshRow, Rows, ReadErrors, Money

\* The label, the error and the count of failed reads are not the row's ledger.
LEMMA RowLabelled ==
    ASSUME NEW m \in Rows, NEW s \in {"RUNNING", "COMPLETE", "BLOCKED", "RECONCILED"}
    PROVE  /\ [m EXCEPT !.status = s] \in Rows
           /\ SameRow([m EXCEPT !.status = s], m)
           /\ [m EXCEPT !.status = s].status = s
           /\ [m EXCEPT !.status = s].error = m.error
  <1>1. [m EXCEPT !.status = s] \in Rows
    BY DEF Rows
  <1>2. SameRow([m EXCEPT !.status = s], m)
    BY DEF Rows, SameRow
  <1>. QED BY <1>1, <1>2 DEF Rows

LEMMA RowBlocked ==
    ASSUME NEW m \in Rows,
           NEW e \in ReadErrors \cup {"none", "Ambiguous", "OrderRejected"}
    PROVE  /\ [m EXCEPT !.status = "BLOCKED", !.error = e] \in Rows
           /\ SameRow([m EXCEPT !.status = "BLOCKED", !.error = e], m)
           /\ [m EXCEPT !.status = "BLOCKED", !.error = e].status = "BLOCKED"
           /\ [m EXCEPT !.status = "BLOCKED", !.error = e].error = e
  <1>1. [m EXCEPT !.status = "BLOCKED", !.error = e] \in Rows
    BY DEF Rows
  <1>2. SameRow([m EXCEPT !.status = "BLOCKED", !.error = e], m)
    BY DEF Rows, SameRow
  <1>. QED BY <1>1, <1>2 DEF Rows

LEMMA RowFailed ==
    ASSUME NEW m \in Rows, NEW f \in Nat
    PROVE  /\ [m EXCEPT !.fails = f] \in Rows
           /\ SameRow([m EXCEPT !.fails = f], m)
           /\ [m EXCEPT !.fails = f].status = m.status
           /\ [m EXCEPT !.fails = f].error = m.error
  <1>1. [m EXCEPT !.fails = f] \in Rows
    BY DEF Rows
  <1>2. SameRow([m EXCEPT !.fails = f], m)
    BY DEF Rows, SameRow
  <1>. QED BY <1>1, <1>2 DEF Rows

\* The parts of a row the account is compared with, and the log counted by.
SameBooks(m, n) ==
    /\ m.base = n.base /\ m.cash = n.cash /\ m.btc = n.btc
    /\ m.pending = n.pending /\ m.orders = n.orders
    /\ m.times = n.times /\ m.last = n.last

SameMarks(m, n) == m.day = n.day /\ m.loss = n.loss /\ m.cum = n.cum

\* Binding, activating and renewing keep what was booked.
LEMMA RowStarted ==
    ASSUME NEW m \in Rows, funds \in Money, now \in Nat
    PROVE  /\ [m EXCEPT !.status = "RUNNING", !.base = funds] \in Rows
           /\ LET a == [m EXCEPT !.active = TRUE, !.since = now, !.cycles = 0,
                                 !.deadline = now + Window, !.gap = 0, !.seen = -1]
              IN  /\ a \in Rows /\ SameBooks(a, m) /\ SameMarks(a, m)
                  /\ a.status = m.status /\ a.error = m.error /\ a.active
           /\ Renewed(m) \in Rows
           /\ SameBooks(Renewed(m), m) /\ SameMarks(Renewed(m), m)
           /\ Renewed(m).status = "RUNNING" /\ Renewed(m).error = "none"
  <1>1. Window \in Nat /\ MaxCycles \in Nat /\ now + Window \in Nat /\ 0 \in 0 .. MaxCycles
        /\ -1 \in Int
    BY SoakAssumption
  <1>2. [m EXCEPT !.status = "RUNNING", !.base = funds] \in Rows
    BY DEF Rows
  <1>. DEFINE a == [m EXCEPT !.active = TRUE, !.since = now, !.cycles = 0,
                             !.deadline = now + Window, !.gap = 0, !.seen = -1]
  <1>3. a \in Rows
    <2>. DEFINE b == [m EXCEPT !.active = TRUE, !.since = now]
                c == [b EXCEPT !.cycles = 0, !.deadline = now + Window]
                d == [c EXCEPT !.gap = 0, !.seen = -1]
    <2>1. b \in Rows
      BY DEF Rows
    <2>2. c \in Rows
      <3>. HIDE DEF b
      <3>1. now + Window \in Nat /\ 0 \in 0 .. MaxCycles
        BY <1>1
      <3>. QED BY <2>1, <3>1 DEF Rows
    <2>3. d \in Rows
      <3>. HIDE DEF c
      <3>. QED BY <1>1, <2>2 DEF Rows
    <2>. QED BY <2>3, Zenon
  <1>4. /\ SameBooks(a, m) /\ SameMarks(a, m)
        /\ a.status = m.status /\ a.error = m.error /\ a.active
    BY DEF Rows, SameBooks, SameMarks
  <1>5. Renewed(m) \in Rows
    <2>. DEFINE b == [m EXCEPT !.status = "RUNNING", !.error = "none", !.since = now]
                c == [b EXCEPT !.deadline = now + Window, !.cycles = 0]
                d == [c EXCEPT !.gap = 0, !.fails = 0, !.seen = -1]
    <2>1. b \in Rows
      BY DEF Rows
    <2>2. c \in Rows
      <3>. HIDE DEF b
      <3>1. now + Window \in Nat /\ 0 \in 0 .. MaxCycles
        BY <1>1
      <3>. QED BY <2>1, <3>1 DEF Rows
    <2>3. d \in Rows
      <3>. HIDE DEF c
      <3>. QED BY <1>1, <2>2 DEF Rows
    <2>. QED BY <2>3, Zenon DEF Renewed
  <1>6. /\ SameBooks(Renewed(m), m) /\ SameMarks(Renewed(m), m)
        /\ Renewed(m).status = "RUNNING" /\ Renewed(m).error = "none"
    BY DEF Rows, SameBooks, SameMarks, Renewed
  <1>. QED BY <1>2, <1>3, <1>4, <1>5, <1>6

\* A new evaluation counts, opens its day and latches its losses; what was
\* booked stays, but for the executions of an earlier day.
LEMMA RowEvaluated ==
    ASSUME NEW m \in Rows, NEW p \in Prices, now \in Nat, IsFiniteSet(m.times)
    PROVE  /\ Evaluated(m, p) \in Rows
           /\ LET e == Evaluated(m, p)
              IN  /\ e.cash = m.cash /\ e.btc = m.btc /\ e.base = m.base
                  /\ e.pending = m.pending /\ e.orders = m.orders /\ e.last = m.last
                  /\ e.status = m.status /\ e.error = m.error /\ e.active = m.active
                  /\ e.deadline = m.deadline
                  /\ e.day = Today /\ IsFiniteSet(e.times)
                  /\ e.times = {t \in m.times : DayOf(t.at) = Today}
                  /\ m.day = Today /\ m.loss => e.loss
                  /\ m.cum => e.cum
                  /\ m.cycles < MaxCycles => e.cycles # 0
  <1>1. /\ Today \in Int /\ MaxCycles \in Nat /\ p \in Nat
        /\ CumulativeLoss \in Nat /\ DailyLoss \in Nat /\ Capital \in Nat
    BY SoakAssumption DEF Today, DayOf
  <1>2. Equity(m, p) \in Int
    BY <1>1 DEF Rows, Equity
  <1>3. Latched(m, p) \in Rows
    <2>1. {t \in m.times : DayOf(t.at) = Today} \in SUBSET Executions
      BY DEF Rows
    <2>. DEFINE o == IF m.day = Today THEN m
                     ELSE [m EXCEPT !.day = Today, !.opening = Equity(m, p),
                                    !.loss = FALSE]
                ts == {t \in m.times : DayOf(t.at) = Today}
    <2>2. o \in Rows /\ o.times = m.times
      <3>1. [m EXCEPT !.day = Today, !.opening = Equity(m, p), !.loss = FALSE] \in Rows
        BY <1>1, <1>2 DEF Rows
      <3>. QED BY <3>1 DEF Rows
    <2>. HIDE DEF o
    <2>3. ASSUME NEW c \in BOOLEAN, NEW l \in BOOLEAN
          PROVE  [o EXCEPT !.cum = c, !.loss = l, !.times = ts] \in Rows
      <3>. HIDE DEF ts
      <3>. QED BY <2>1, <2>2 DEF Rows, ts
    <2>4. \E c \in BOOLEAN, l \in BOOLEAN :
            Latched(m, p) = [o EXCEPT !.cum = c, !.loss = l, !.times = ts]
      <3>. DEFINE total == Equity(m, p) <= Capital - CumulativeLoss
                  c == o.cum \/ total
                  l == o.loss \/ total \/ Equity(m, p) <= o.opening - DailyLoss
      <3>1. Latched(m, p) = [o EXCEPT !.cum = c, !.loss = l, !.times = ts]
        BY <2>2 DEF Latched, o
      <3>2. c \in BOOLEAN /\ l \in BOOLEAN
        OBVIOUS
      <3>. QED BY <3>1, <3>2
    <2>. QED BY <2>3, <2>4
  <1>4. LET e == Latched(m, p)
        IN  /\ e.cash = m.cash /\ e.btc = m.btc /\ e.base = m.base
            /\ e.pending = m.pending /\ e.orders = m.orders /\ e.last = m.last
            /\ e.status = m.status /\ e.error = m.error /\ e.active = m.active
            /\ e.deadline = m.deadline /\ e.day = Today
            /\ e.times = {t \in m.times : DayOf(t.at) = Today}
            /\ m.day = Today /\ m.loss => e.loss
            /\ m.cum => e.cum
    <2>1. CASE m.day = Today
      BY <2>1 DEF Rows, Latched
    <2>2. CASE m.day # Today
      BY <2>2 DEF Rows, Latched
    <2>. QED BY <2>1, <2>2
  <1>5. IsFiniteSet({t \in m.times : DayOf(t.at) = Today})
    BY FS_Subset
  <1>6. NextCycle(m) \in 0 .. MaxCycles /\ (m.cycles < MaxCycles => NextCycle(m) # 0)
    BY <1>1 DEF Rows, NextCycle
  <1>7. ASSUME NEW l \in Rows
        PROVE  LET e == [l EXCEPT !.cycles = NextCycle(m),
                                  !.gap = IF m.seen # -1 /\ now - m.seen > @
                                          THEN now - m.seen ELSE @,
                                  !.seen = now]
               IN  /\ e \in Rows
                   /\ e.cash = l.cash /\ e.btc = l.btc /\ e.base = l.base
                   /\ e.pending = l.pending /\ e.orders = l.orders /\ e.last = l.last
                   /\ e.status = l.status /\ e.error = l.error /\ e.active = l.active
                   /\ e.deadline = l.deadline /\ e.times = l.times
                   /\ SameMarks(e, l) /\ e.cycles = NextCycle(m)
    <2>. DEFINE g == IF m.seen # -1 /\ now - m.seen > l.gap THEN now - m.seen ELSE l.gap
                k == NextCycle(m)
                e == [l EXCEPT !.cycles = k, !.gap = g, !.seen = now]
    <2>1. g \in Nat /\ k \in 0 .. MaxCycles /\ now \in Int
      BY <1>6, <1>7 DEF Rows
    <2>. HIDE DEF g, k
    <2>2. e \in Rows
      BY <1>7, <2>1 DEF Rows
    <2>3. /\ e.cash = l.cash /\ e.btc = l.btc /\ e.base = l.base
          /\ e.pending = l.pending /\ e.orders = l.orders /\ e.last = l.last
          /\ e.status = l.status /\ e.error = l.error /\ e.active = l.active
          /\ e.deadline = l.deadline /\ e.times = l.times
          /\ SameMarks(e, l) /\ e.cycles = k
      BY <1>7 DEF Rows, SameMarks
    <2>. QED BY <2>2, <2>3, Zenon DEF g, k
  <1>. QED
    <2>. DEFINE e == Evaluated(m, p)
    <2>1. /\ e \in Rows /\ e.cash = m.cash /\ e.btc = m.btc /\ e.base = m.base
          /\ e.pending = m.pending /\ e.orders = m.orders /\ e.last = m.last
          /\ e.status = m.status /\ e.error = m.error /\ e.active = m.active
          /\ e.deadline = m.deadline /\ e.day = Today
          /\ e.times = {t \in m.times : DayOf(t.at) = Today}
          /\ m.day = Today /\ m.loss => e.loss
          /\ m.cum => e.cum
          /\ e.cycles = NextCycle(m)
      BY <1>3, <1>4, <1>7 DEF Evaluated, SameMarks
    <2>. QED BY <1>5, <1>6, <2>1

\* A fill changes the balances, clears the pending order, counts and is timed.
LEMMA RowBooked ==
    ASSUME NEW m \in Rows, NEW i \in Ids, fill \in [Ids -> Fills], IsFiniteSet(m.times)
    PROVE  /\ LET b == Booked(m, i)
              IN  /\ b.cash = m.cash + fill[i].cash /\ b.btc = m.btc + fill[i].btc
                  /\ b.pending = 0 /\ b.orders = m.orders + 1 /\ b.last = fill[i].at
                  /\ b.times = m.times \cup {[n |-> m.orders + 1, at |-> fill[i].at]}
                  /\ IsFiniteSet(b.times)
                  /\ b.base = m.base /\ b.status = m.status /\ b.error = m.error
                  /\ b.active = m.active /\ SameMarks(b, m)
           /\ Affordable(Booked(m, i)) => Booked(m, i) \in Rows
  <1>1. /\ fill[i].cash \in Int /\ fill[i].btc \in Int /\ fill[i].at \in Nat
        /\ m.orders \in Nat
    BY DEF Fills, Rows
  <1>2. IsFiniteSet(m.times \cup {[n |-> m.orders + 1, at |-> fill[i].at]})
    BY FS_AddElement
  <1>3. [n |-> m.orders + 1, at |-> fill[i].at] \in Executions
    BY <1>1 DEF Executions
  <1>4. m.times \cup {[n |-> m.orders + 1, at |-> fill[i].at]} \in SUBSET Executions
    BY <1>3 DEF Rows
  <1>. DEFINE b == Booked(m, i)
  <1>5. /\ b.cash = m.cash + fill[i].cash /\ b.btc = m.btc + fill[i].btc
        /\ b.pending = 0 /\ b.orders = m.orders + 1 /\ b.last = fill[i].at
        /\ b.times = m.times \cup {[n |-> m.orders + 1, at |-> fill[i].at]}
        /\ b.base = m.base /\ b.status = m.status /\ b.error = m.error
        /\ b.active = m.active /\ SameMarks(b, m)
    BY DEF Rows, Booked, SameMarks
  <1>6. ASSUME Affordable(b) PROVE b \in Rows
    <2>1. m.cash + fill[i].cash \in Nat /\ m.btc + fill[i].btc \in Nat
      BY <1>1, <1>5, <1>6 DEF Affordable, Rows
    <2>. DEFINE cash == m.cash + fill[i].cash
                btc == m.btc + fill[i].btc
                times == m.times \cup {[n |-> m.orders + 1, at |-> fill[i].at]}
                n == m.orders + 1
                at == fill[i].at
                c == [m EXCEPT !.cash = cash, !.btc = btc, !.pending = 0]
                d == [c EXCEPT !.orders = n, !.last = at, !.times = times]
    <2>2. cash \in Nat /\ btc \in Nat /\ times \in SUBSET Executions /\ n \in Nat /\ at \in Int
      BY <1>1, <1>4, <2>1
    <2>3. b = d
      BY DEF Booked, Rows
    <2>. HIDE DEF cash, btc, times, n, at
    <2>4. c \in Rows
      BY <2>2 DEF Rows
    <2>5. d \in Rows
      <3>. HIDE DEF c
      <3>. QED BY <2>2, <2>4 DEF Rows
    <2>. QED BY <2>3, <2>5
  <1>. QED BY <1>2, <1>5, <1>6

\* Booking looks at nothing of a row the copy does not share.
LEMMA BookedSame ==
    ASSUME NEW m \in Rows, NEW n \in Rows, NEW i \in Ids, SameRow(m, n)
    PROVE  SameRow(Booked(m, i), Booked(n, i))
  BY DEF SameRow, Booked, Rows

\* Saving the intent names the evaluation's order.
LEMMA RowIntent ==
    ASSUME NEW m \in Rows, m.cycles # 0
    PROVE  /\ [m EXCEPT !.pending = m.cycles] \in Rows
           /\ [m EXCEPT !.pending = m.cycles].pending = m.cycles
           /\ [m EXCEPT !.pending = m.cycles].status = m.status
           /\ [m EXCEPT !.pending = m.cycles].error = m.error
           /\ m.cycles \in Ids
           /\ \A n \in Rows : SameRow(m, n) =>
                SameRow([m EXCEPT !.pending = m.cycles], [n EXCEPT !.pending = n.cycles])
  <1>1. MaxCycles \in Nat
    BY SoakAssumption
  <1>. QED BY <1>1 DEF Rows, Ids, SameRow

----------------------------------------------------------------------------
(* The invariant in layers *)

RowOK == disk \in Rows /\ IsFiniteSet(disk.times)

WorldOK ==
    /\ log \in Logs
    /\ killed \in BOOLEAN
    /\ reason \in {"none", "operator", "exchange", "soak", "resumed"}
    /\ journal \in [Ids -> Requests]
    /\ ex \in [Ids -> {"absent", "transit", "filled", "odd", "refused"}]
    /\ fill \in [Ids -> Fills] /\ funds \in Money
    /\ posts \in [Ids -> Nat] /\ now \in Nat
    /\ manual \in BOOLEAN /\ lossDays \subseteq Int

Errors == ReadErrors \cup {"none", "Ambiguous", "OrderRejected"}

HolderOK ==
    /\ st \in Rows
    /\ pc \in Steps /\ op \in Commands
    /\ ord \in [side : Sides \cup {"NONE"}, amount : Nat, qty : Nat]
    /\ err \in Errors

OrdersInv == \A i \in Ids : OrderInv(i)

HolderInv == HolderOK /\ CopyInv /\ FlowInv /\ StatusInv

LEMMA Layers ==
    Inductive <=> RowOK /\ WorldOK /\ OrdersInv /\ HolderInv /\ PhaseInv /\ SpaceInv
                  /\ LossInv
  BY DEF Inductive, TypeOK, RowOK, WorldOK, OrdersInv, HolderInv, HolderOK, Errors

LEMMA EmptyOrder ==
    /\ NoOrder \in [side : Sides \cup {"NONE"}, amount : Nat, qty : Nat]
    /\ NoOrder.side = "NONE"
  BY DEF NoOrder, Sides

----------------------------------------------------------------------------
(* The holder where the row does not change *)

\* Nothing the holder relies on moves; the switch may be set.
Still == UNCHANGED <<disk, log, journal, exchange, now>> /\ killed' \in {killed, TRUE}

\* What the holder has established stays established.
LEMMA StillKeeps ==
    ASSUME Still
    PROVE  /\ AllLogged' <=> AllLogged
           /\ Matched' <=> Matched
           /\ SubmittedIds' = SubmittedIds
           /\ st' = st => /\ Same' <=> Same
                          /\ BookedCopy' <=> BookedCopy
                          /\ IntentCopy' <=> IntentCopy
  <1>1. /\ AllLogged' <=> AllLogged
        /\ Matched' <=> Matched
        /\ SubmittedIds' = SubmittedIds
    BY DEF Still, exchange, AllLogged, Posted, FilledIds, Matched, Matches, SubmittedIds
  <1>2. ASSUME st' = st
        PROVE  /\ Same' <=> Same
               /\ BookedCopy' <=> BookedCopy
               /\ IntentCopy' <=> IntentCopy
    BY <1>1, <1>2 DEF Still, exchange, Same, BookedCopy, IntentCopy, Booked, SameRow
  <1>. QED BY <1>1, <1>2

\* The process that ends asks nothing of the row.
LEMMA Leaves ==
    ASSUME Leave, disk' \in Rows
    PROVE  HolderOK' /\ CopyInv' /\ FlowInv'
  <1>1. HolderOK'
    BY EmptyOrder DEF Leave, HolderOK, Steps, Commands, Errors
  <1>2. CopyInv'
    BY DEF Leave, CopyInv, Same, SameRow
  <1>3. FlowInv'
    BY EmptyOrder DEF Leave, FlowInv, RunSteps
  <1>. QED BY <1>1, <1>2, <1>3

\* Leaving keeps what the labels promise.
LEMMA LeavesStill ==
    ASSUME RowOK, HolderInv, Leave, Still
    PROVE  HolderInv'
  <1>1. disk' = disk /\ disk' \in Rows
    BY DEF Still, RowOK
  <1>2. StatusInv'
    BY <1>1, StillKeeps DEF Leave, Still, HolderInv, StatusInv
  <1>. QED BY <1>1, <1>2, Leaves DEF HolderInv

\* An exception in the loop leads to a retry or to the handler.
LEMMA Fails ==
    ASSUME RowOK, HolderInv, NEW e \in Errors, Raise(e), st' = st, Still,
           pc \in {"settle", "fillsave", "funds", "decide", "order", "place", "send",
                   "await", "query"},
           Same \/ (e = "Other" /\ (BookedCopy \/ IntentCopy))
    PROVE  HolderInv'
  <1>1. /\ pc' = IF e = "Transient" THEN "retry" ELSE "blocked"
        /\ err' = e /\ ord' = NoOrder /\ op' = op /\ op = "run"
        /\ disk' = disk /\ log' = log /\ now' = now
    BY DEF Raise, Still, HolderInv, FlowInv, RunSteps
  <1>2. HolderOK'
    BY <1>1, EmptyOrder DEF HolderInv, HolderOK, Steps
  <1>3. CopyInv'
    BY <1>1, StillKeeps DEF HolderInv, CopyInv, RunSteps
  <1>4. FlowInv'
    BY <1>1, EmptyOrder DEF HolderInv, FlowInv, RunSteps
  <1>5. StatusInv'
    BY <1>1, StillKeeps DEF HolderInv, StatusInv, Still
  <1>. QED BY <1>2, <1>3, <1>4, <1>5 DEF HolderInv

\* Where the row names no order and none was lost, every order is in the log.
LEMMA AllAreLogged ==
    ASSUME PhaseInv, HolderInv, disk.pending = 0,
           pc \notin {"idle", "start", "blocked", "blockedsave"}
    PROVE  AllLogged
  <1>1. ~Lost
    BY DEF Lost
  <1>2. Logged
    BY <1>1 DEF PhaseInv, Clean, Doubled
  <1>3. Posted \subseteq FilledIds \cup {0}
    BY <1>2 DEF Logged
  <1>4. 0 \notin Posted
    BY SoakAssumption DEF Posted, Ids
  <1>. QED BY <1>3, <1>4 DEF AllLogged

\* The steps of a run that look, wait and go on, or give up.
LEMMA RunLooks ==
    ASSUME RowOK, WorldOK, HolderInv, PhaseInv,
           \/ Stopped \/ StartRefused \/ Restart \/ Loop \/ WindowOver \/ SettleRefused
           \/ Unsaved \/ FundsMatch \/ ReadRefused \/ Wake \/ NotSent
           \/ ClockUnread \/ Replied \/ Rejected \/ QueryFound \/ QueryFails
    PROVE  HolderInv'
  <1>1. /\ disk \in Rows /\ Errors = ReadErrors \cup {"none", "Ambiguous", "OrderRejected"}
        /\ killed \in BOOLEAN
        /\ now \in Nat /\ disk.deadline \in Nat
    BY DEF RowOK, Errors, WorldOK, Rows
  <1>2. Still
    BY <1>1 DEF Still, Stopped, StartRefused, Restart, Loop, WindowOver, SettleRefused, Unsaved,
           FundsMatch, ReadRefused, Wake, NotSent, ClockUnread, Replied, Rejected,
           QueryFound, QueryFails, MayTrip, Unchanged
  <1>3. CASE Stopped \/ StartRefused
    <2>1. /\ pc \in {"start", "loop"} /\ pc' = "blocked" /\ err' \in ReadErrors
          /\ pc = "loop" => err' = "Other"
          /\ st' = st /\ ord' = ord /\ op' = op
          /\ disk' = disk /\ log' = log /\ now' = now
      BY <1>3 DEF Stopped, StartRefused, Unchanged, ReadErrors
    <2>2. disk.status = "COMPLETE" => killed'
      BY <1>1, <1>3 DEF Stopped, StartRefused, HolderInv, CopyInv, StatusInv, Unchanged, Same, SameRow
    <2>3. HolderOK'
      BY <2>1 DEF HolderInv, HolderOK, Steps, Errors
    <2>4. CopyInv' /\ FlowInv'
      BY <2>1, <1>2, StillKeeps DEF HolderInv, CopyInv, FlowInv, RunSteps
    <2>5. StatusInv'
      BY <1>2, <2>1, <2>2, StillKeeps DEF HolderInv, StatusInv, Still
    <2>. QED BY <2>3, <2>4, <2>5 DEF HolderInv
  <1>4. CASE SettleRefused \/ Unsaved \/ ReadRefused \/ NotSent \/ Rejected \/ QueryFails
    <2>1. PICK e \in Errors : /\ Fail(e)
                              /\ pc = "fillsave" => e = "Other"
      BY <1>1, <1>4 DEF SettleRefused, Unsaved, ReadRefused, NotSent, Rejected, QueryFails,
                        Errors, ReadErrors
    <2>2. pc \in {"settle", "fillsave", "funds", "decide", "order", "place", "send",
                  "await", "query"}
      BY <1>4 DEF SettleRefused, Unsaved, ReadRefused, NotSent, Rejected, QueryFails
    <2>3. Same \/ (e = "Other" /\ BookedCopy)
      BY <2>1, <2>2 DEF HolderInv, CopyInv
    <2>. QED BY <1>2, <2>1, <2>2, <2>3, Fails DEF Fail
  <1>5. CASE Restart \/ Loop \/ WindowOver
    <2>1. /\ pc \in {"start", "loop", "funds"} /\ st' = st /\ op' = op /\ ord' = ord /\ err' = err
          /\ disk' = disk /\ log' = log /\ now' = now /\ killed' = killed
          /\ pc' \in {"loop", "policy", "settle", "funds", "end"}
          /\ pc = "funds" => pc' = "end"
          /\ st.active = disk.active /\ st.pending = disk.pending
          /\ st.deadline = disk.deadline /\ st.status = disk.status
      BY <1>5 DEF Restart, Loop, WindowOver, Continue, Unchanged, HolderInv, CopyInv,
                  Same, SameRow
    <2>2. HolderOK'
      BY <2>1 DEF HolderInv, HolderOK, Steps
    <2>3. CopyInv'
      BY <1>2, <2>1, StillKeeps DEF HolderInv, CopyInv
    <2>4. disk.status = "NONE" => disk.pending = 0
      BY DEF HolderInv, StatusInv
    <2>5. FlowInv'
      <3>1. CASE Restart
        BY <1>2, <2>1, <2>4, <3>1, StillKeeps
           DEF Restart, Continue, HolderInv, FlowInv, StatusInv, RunSteps
      <3>2. CASE Loop \/ WindowOver
        BY <1>2, <2>1, <3>2, StillKeeps
           DEF Loop, WindowOver, Continue, HolderInv, FlowInv, RunSteps
      <3>. QED BY <1>5, <3>1, <3>2
    <2>6. StatusInv'
      <3>1. disk.status = "COMPLETE" => pc' \in {"loop", "end"}
        BY <1>1, <1>5, <2>1
           DEF Restart, Loop, WindowOver, Continue, HolderInv, StatusInv
      <3>. QED BY <1>2, <2>1, <3>1, StillKeeps DEF HolderInv, StatusInv
    <2>. QED BY <2>2, <2>3, <2>5, <2>6 DEF HolderInv
  <1>6. CASE FundsMatch \/ Wake \/ ClockUnread \/ Replied \/ QueryFound
    <2>1. /\ pc \in {"funds", "sleep", "send", "await", "query"} /\ st' = st /\ op' = op
          /\ ord' \in {ord, NoOrder} /\ err' = err
          /\ disk' = disk /\ log' = log /\ now' = now
          /\ killed => killed'
          /\ pc = "funds" => pc' = "decide" /\ ord' = ord
          /\ pc = "sleep" => pc' = "loop" /\ ord' = ord
          /\ pc \in {"send", "await"} => pc' = "query" /\ ord' = ord
          /\ pc = "query" => pc' = "loop" /\ ord' = NoOrder
      BY <1>6 DEF FundsMatch, Wake, ClockUnread, Replied, QueryFound, Continue, Unchanged, MayTrip
    <2>2. HolderOK'
      BY <2>1, EmptyOrder DEF HolderInv, HolderOK, Steps
    <2>3. CopyInv'
      BY <1>2, <2>1, StillKeeps DEF HolderInv, CopyInv
    <2>4. pc = "funds" => Matched /\ AllLogged
      <3>. SUFFICES ASSUME pc = "funds" PROVE Matched /\ AllLogged
        OBVIOUS
      <3>1. disk.pending = 0 /\ Same
        BY DEF HolderInv, FlowInv, CopyInv
      <3>2. AllLogged
        BY <3>1, AllAreLogged
      <3>3. Matches(st)
        BY <1>6 DEF FundsMatch, Wake, ClockUnread, Replied, QueryFound
      <3>. QED BY <3>1, <3>2, <3>3 DEF Same, SameRow, Matches, Matched
    <2>5. FlowInv'
      BY <1>2, <2>1, <2>4, StillKeeps, EmptyOrder DEF HolderInv, FlowInv, RunSteps
    <2>6. StatusInv'
      BY <1>2, <2>1, StillKeeps DEF HolderInv, StatusInv
    <2>. QED BY <2>2, <2>3, <2>5, <2>6 DEF HolderInv
  <1>. QED BY <1>3, <1>4, <1>5, <1>6

----------------------------------------------------------------------------
(* The holder where its copy moves ahead of the row *)

\* Each step writes the copy alone; the handler and the repairs save it later.
LEMMA RunCopies ==
    ASSUME RowOK, WorldOK, HolderInv, PhaseInv,
           Settle \/ IntentUnsaved \/ GiveUp \/ Block \/ RecoverFound
    PROVE  HolderInv'
  <1>1. /\ disk \in Rows /\ st \in Rows /\ IsFiniteSet(disk.times)
        /\ st.times = disk.times \/ pc \in {"fillsave", "rpcheck", "blocked", "blockedsave"}
        /\ killed \in BOOLEAN /\ err \in Errors
        /\ fill \in [Ids -> Fills]
    BY DEF RowOK, HolderInv, HolderOK, WorldOK, CopyInv, Same, SameRow
  <1>2. Still
    BY <1>1 DEF Still, Settle, IntentUnsaved, GiveUp, Block, RecoverFound, Unchanged
  <1>3. disk' = disk /\ log' = log /\ now' = now /\ ex' = ex /\ fill' = fill
    BY <1>2 DEF Still, exchange
  <1>4. CASE Settle \/ RecoverFound
    <2>. DEFINE i == disk.pending
    <2>1. /\ Same /\ i # 0 /\ st.pending = i /\ ex[i] = "filled"
          /\ Affordable(Booked(st, i))
          /\ st.status = disk.status /\ st.error = disk.error
      BY <1>4 DEF Settle, RecoverFound, HolderInv, CopyInv, FlowInv, Same, SameRow
    <2>2. i \in Ids
      BY <1>1, <2>1 DEF Rows
    <2>3. /\ Booked(st, i) \in Rows /\ Booked(st, i).status = disk.status
          /\ Booked(st, i).error = disk.error
          /\ SameRow(Booked(st, i), Booked(disk, i))
      BY <1>1, <2>1, <2>2, RowBooked, BookedSame DEF Same, SameRow
    <2>4. /\ st' \in Rows /\ SameRow(st', Booked(disk, i))
          /\ st'.error = disk.error
          /\ IF pc = "settle" THEN st'.status = disk.status
                              ELSE st'.status = "RECONCILED"
      <3>1. CASE Settle
        BY <2>1, <2>3, <3>1 DEF Settle
      <3>2. CASE RecoverFound
        <4>. DEFINE b == Booked(st, i)
        <4>1. st' = [b EXCEPT !.status = "RECONCILED"] /\ pc # "settle"
          BY <2>1, <3>2 DEF RecoverFound
        <4>. HIDE DEF b
        <4>2. b \in Rows /\ b.error = disk.error /\ SameRow(b, Booked(disk, i))
          BY <2>3 DEF b
        <4>3. /\ st' \in Rows /\ SameRow(st', b) /\ st'.status = "RECONCILED"
              /\ st'.error = disk.error
          BY <4>1, <4>2, RowLabelled
        <4>4. SameRow(st', Booked(disk, i))
          BY <4>2, <4>3 DEF SameRow
        <4>. QED BY <4>1, <4>3, <4>4
      <3>. QED BY <1>4, <3>1, <3>2
    <2>5. BookedCopy'
      <3>1. Booked(disk, i)' = Booked(disk, i)
        BY <1>3 DEF Booked
      <3>. QED BY <1>3, <2>1, <2>4, <3>1 DEF BookedCopy
    <2>6. /\ pc' = IF pc = "settle" THEN "fillsave" ELSE "rpcheck"
          /\ pc \in {"settle", "rpquery"}
          /\ op' = op /\ ord' = ord /\ err' = err /\ killed' = killed
      BY <1>4 DEF Settle, RecoverFound, Continue, Unchanged
    <2>7. HolderOK'
      BY <2>4, <2>6 DEF HolderInv, HolderOK, Steps
    <2>8. CopyInv'
      BY <1>3, <2>4, <2>5, <2>6 DEF CopyInv
    <2>9. FlowInv'
      BY <1>2, <1>3, <2>6, StillKeeps DEF HolderInv, FlowInv, RunSteps
    <2>10. StatusInv'
      BY <1>2, <1>3, <2>6, StillKeeps DEF HolderInv, StatusInv
    <2>. QED BY <2>7, <2>8, <2>9, <2>10 DEF HolderInv
  <1>5. CASE IntentUnsaved
    <2>1. /\ pc = "order" /\ pc' = "blocked" /\ err' = "Other" /\ ord' = NoOrder
          /\ op' = op /\ killed' = killed
          /\ st' = [st EXCEPT !.pending = st.cycles]
          /\ Same /\ st.status = disk.status /\ st.error = disk.error
          /\ st.cycles # 0 /\ disk.pending = 0 /\ AllLogged /\ Matched
          /\ disk.status \notin {"NONE", "RECONCILED", "COMPLETE"}
      <3>1. /\ pc = "order" /\ pc' = "blocked" /\ err' = "Other" /\ ord' = NoOrder
            /\ op' = op /\ killed' = killed
            /\ st' = [st EXCEPT !.pending = st.cycles]
        BY <1>5, Zenon DEF IntentUnsaved, Raise, Unchanged
      <3>2. Same /\ st.status = disk.status /\ st.error = disk.error
        BY <3>1 DEF HolderInv, CopyInv
      <3>3. st.cycles # 0 /\ disk.pending = 0 /\ AllLogged /\ Matched
        BY <3>1, <3>2 DEF HolderInv, FlowInv, Same, SameRow
      <3>4. disk.status \notin {"NONE", "RECONCILED", "COMPLETE"}
        BY <3>1 DEF HolderInv, FlowInv, StatusInv, RunSteps
      <3>. QED BY <3>1, <3>2, <3>3, <3>4
    <2>. DEFINE n == [disk EXCEPT !.pending = disk.cycles]
    <2>2. st' \in Rows /\ st'.status = disk.status /\ st'.error = disk.error
      BY <1>1, <2>1, RowIntent
    <2>3. SameRow(st', n)
      BY <1>1, <2>1, RowIntent DEF Same
    <2>4. IntentCopy'
      <3>1. n' = n /\ AllLogged' /\ Matched'
        BY <1>2, <1>3, <2>1, StillKeeps
      <3>. QED BY <1>3, <2>1, <2>3, <3>1 DEF IntentCopy
    <2>5. HolderOK'
      BY <2>1, <2>2, EmptyOrder DEF HolderInv, HolderOK, Steps, Errors, ReadErrors
    <2>6. CopyInv'
      BY <1>3, <2>1, <2>2, <2>4 DEF CopyInv
    <2>7. FlowInv'
      BY <1>3, <2>1, EmptyOrder DEF HolderInv, FlowInv, RunSteps
    <2>8. StatusInv'
      BY <1>2, <1>3, <2>1, StillKeeps DEF HolderInv, StatusInv
    <2>. QED BY <2>5, <2>6, <2>7, <2>8 DEF HolderInv
  <1>6. CASE GiveUp
    <2>1. /\ pc = "retry" /\ pc' = "blocked" /\ op' = op /\ ord' = ord /\ err' = err
          /\ killed' = killed
          /\ st' = IF MayRetry THEN [st EXCEPT !.fails = st.fails + 1] ELSE st
      BY <1>6 DEF GiveUp, Continue, Unchanged
    <2>2. st.fails + 1 \in Nat
      BY <1>1 DEF Rows
    <2>3. /\ st' \in Rows /\ SameRow(st', st) /\ st'.status = st.status
          /\ st'.error = st.error
      <3>1. SameRow(st, st)
        BY DEF SameRow
      <3>. QED BY <1>1, <2>1, <2>2, <3>1, RowFailed
    <2>4. Same' /\ st'.status = disk.status /\ st'.error = disk.error
      BY <1>3, <2>1, <2>3 DEF HolderInv, CopyInv, Same, SameRow
    <2>5. HolderOK' /\ CopyInv'
      BY <1>3, <2>1, <2>3, <2>4 DEF HolderInv, HolderOK, CopyInv, Steps
    <2>6. FlowInv'
      BY <1>2, <1>3, <2>1, StillKeeps DEF HolderInv, FlowInv, RunSteps
    <2>7. StatusInv'
      BY <1>2, <1>3, <2>1, StillKeeps DEF HolderInv, StatusInv
    <2>. QED BY <2>5, <2>6, <2>7 DEF HolderInv
  <1>7. CASE Block
    <2>1. CASE Leave
      BY <1>2, <2>1, LeavesStill
    <2>2. CASE ~Leave
      <3>1. /\ pc = "blocked" /\ pc' = "blockedsave" /\ op' = op /\ ord' = ord
            /\ err' = err /\ killed' = TRUE
            /\ st' = [st EXCEPT !.status = "BLOCKED", !.error = err]
            /\ disk.status # "NONE"
        BY <1>7, <2>2 DEF Block, Continue, HolderInv, CopyInv
      <3>2. /\ st' \in Rows /\ SameRow(st', st) /\ st'.status = "BLOCKED"
            /\ st'.error = err
        BY <1>1, <3>1, RowBlocked DEF Errors
      <3>3. Same' \/ (err = "Other" /\ (BookedCopy' \/ IntentCopy'))
        <4>1. Same \/ (err = "Other" /\ (BookedCopy \/ IntentCopy))
          BY <3>1 DEF HolderInv, CopyInv
        <4>2. CASE Same
          BY <1>3, <3>2, <4>2 DEF Same, SameRow
        <4>3. CASE BookedCopy
          <5>1. SameRow(st', Booked(disk, disk.pending))
            BY <3>2, <4>3 DEF BookedCopy, SameRow
          <5>2. Booked(disk, disk.pending)' = Booked(disk, disk.pending)
            BY <1>3 DEF Booked
          <5>3. BookedCopy'
            BY <1>3, <4>3, <5>1, <5>2 DEF BookedCopy
          <5>. QED BY <4>1, <5>3, <4>2
        <4>4. CASE IntentCopy
          <5>. DEFINE n == [disk EXCEPT !.pending = disk.cycles]
          <5>1. SameRow(st', n)
            BY <3>2, <4>4 DEF IntentCopy, SameRow
          <5>2. n' = n /\ AllLogged' /\ Matched'
            BY <1>2, <1>3, <4>4, StillKeeps DEF IntentCopy
          <5>3. IntentCopy'
            BY <1>3, <4>4, <5>1, <5>2 DEF IntentCopy
          <5>. QED BY <4>1, <5>3, <4>2
        <4>. QED BY <4>1, <4>2, <4>3, <4>4
      <3>4. HolderOK' /\ CopyInv'
        BY <1>3, <3>1, <3>2, <3>3 DEF HolderInv, HolderOK, CopyInv, Steps
      <3>5. FlowInv'
        BY <1>2, <1>3, <3>1, StillKeeps DEF HolderInv, FlowInv, RunSteps
      <3>6. StatusInv'
        BY <1>2, <1>3, <3>1, StillKeeps DEF HolderInv, StatusInv
      <3>. QED BY <3>4, <3>5, <3>6 DEF HolderInv
    <2>. QED BY <2>1, <2>2
  <1>. QED BY <1>4, <1>5, <1>6, <1>7

----------------------------------------------------------------------------
(* The holder where a command begins, ends, or lifts the stop *)

LEMMA PostedSubmitted ==
    ASSUME WorldOK, OrdersInv
    PROVE  Posted \subseteq SubmittedIds
  BY DEF WorldOK, OrdersInv, OrderInv, Posted, SubmittedIds

\* A command finds the row as it is; what it was asked to repair is there.
LEMMA Begins ==
    ASSUME RowOK, WorldOK, OrdersInv, HolderInv,
           BeginRun \/ BeginRecoverTransient \/ BeginRecoverPending \/ BeginResume
           \/ BeginRecoverRead
    PROVE  HolderInv'
  <1>1. /\ pc = "idle" /\ st' = disk /\ disk' = disk /\ ord' = ord /\ err' = err
        /\ killed' = killed /\ log' = log /\ now' = now
        /\ ord.side = "NONE"
        /\ pc' \in {"start", "rtcheck", "rpquery", "rrcheck", "rfcheck"}
    BY DEF BeginRun, BeginRecoverTransient, BeginRecoverPending, BeginResume,
           BeginRecoverRead, Begin, Unchanged, HolderInv, FlowInv
  <1>2. Still
    BY <1>1 DEF Still, BeginRun, BeginRecoverTransient, BeginRecoverPending, BeginResume,
                BeginRecoverRead, Begin, Unchanged
  <1>3. HolderOK'
    BY <1>1 DEF BeginRun, BeginRecoverTransient, BeginRecoverPending, BeginResume,
                BeginRecoverRead, Begin, HolderInv, HolderOK, RowOK, Steps, Commands
  <1>4. CopyInv'
    BY <1>1 DEF CopyInv, Same, SameRow
  <1>5. FlowInv' /\ StatusInv'
    <2>1. CASE BeginRun
      <3>1. pc' = "start" /\ op' = "run"
        BY <2>1 DEF BeginRun, Begin
      <3>. QED BY <1>1, <1>2, <3>1, StillKeeps DEF HolderInv, FlowInv, StatusInv, RunSteps
    <2>2. CASE BeginRecoverTransient
      <3>1. /\ pc' = "rtcheck" /\ op' = "recover-transient" /\ killed
            /\ disk.status = "BLOCKED" /\ disk.error = "Transient" /\ disk.pending = 0
            /\ SubmittedIds = FilledIds
        BY <2>2 DEF BeginRecoverTransient, Begin, Repairable, AccountedFor
      <3>2. AllLogged
        BY <3>1, PostedSubmitted DEF AllLogged
      <3>. QED BY <1>1, <1>2, <3>1, <3>2, StillKeeps
               DEF HolderInv, FlowInv, StatusInv, RunSteps
    <2>3. CASE BeginRecoverPending
      <3>1. /\ pc' = "rpquery" /\ op' = "recover-pending" /\ killed
            /\ disk.error = "Ambiguous" /\ disk.pending # 0
            /\ disk.status \notin {"NONE", "COMPLETE"}
        BY <2>3 DEF BeginRecoverPending, Begin, Repairable, HolderInv, StatusInv
      <3>. QED BY <1>1, <1>2, <3>1, StillKeeps DEF HolderInv, FlowInv, StatusInv, RunSteps
    <2>4. CASE BeginResume
      <3>1. /\ pc' = "rrcheck" /\ op' = "resume-reconciled" /\ killed
            /\ disk.status = "RECONCILED" /\ disk.pending = 0 /\ AllLogged
        BY <2>4 DEF BeginResume, Begin, Repairable, HolderInv, StatusInv
      <3>. QED BY <1>1, <1>2, <3>1, StillKeeps DEF HolderInv, FlowInv, StatusInv, RunSteps
    <2>5. CASE BeginRecoverRead
      <3>1. /\ pc' = "rfcheck" /\ op' = "recover-read-failure" /\ killed
            /\ disk.error \in {"OrderRejected", "ReadRejected"}
            /\ disk.pending = 0 /\ disk.orders = 0 /\ SubmittedIds = {}
            /\ disk.status # "NONE"
        BY <2>5 DEF BeginRecoverRead, Begin, Repairable, HolderInv, StatusInv
      <3>. QED BY <1>1, <1>2, <3>1, StillKeeps DEF HolderInv, FlowInv, StatusInv, RunSteps
    <2>. QED BY <2>1, <2>2, <2>3, <2>4, <2>5
  <1>. QED BY <1>3, <1>4, <1>5 DEF HolderInv

\* A stop, a crash, a repair given up, and the two that lift the stop.
LEMMA Ends ==
    ASSUME RowOK, WorldOK, HolderInv,
           Stop \/ Crash \/ Abandon \/ Resume \/ ClearFault
    PROVE  HolderInv'
  <1>1. CASE Crash \/ Abandon
    <2>1. Still /\ Leave
      BY <1>1 DEF Crash, Abandon, Still, MayTrip
    <2>. QED BY <2>1, LeavesStill
  <1>2. CASE Stop
    <2>1. /\ Still /\ st' = st /\ pc' = pc /\ op' = op /\ ord' = ord /\ err' = err
          /\ disk' = disk /\ log' = log /\ now' = now /\ killed' = TRUE
          /\ posts' = posts /\ journal' = journal
      BY <1>2 DEF Stop, Still, process, exchange
    <2>2. HolderOK'
      BY <2>1 DEF HolderInv, HolderOK
    <2>3. CopyInv'
      BY <2>1, StillKeeps DEF HolderInv, CopyInv
    <2>4. FlowInv'
      BY <2>1, StillKeeps DEF HolderInv, FlowInv
    <2>5. StatusInv'
      BY <2>1, StillKeeps DEF HolderInv, StatusInv
    <2>. QED BY <2>2, <2>3, <2>4, <2>5 DEF HolderInv
  <1>3. CASE Resume \/ ClearFault
    <2>1. /\ disk' = disk /\ log' = log /\ now' = now /\ disk' \in Rows
          /\ journal' = journal /\ posts' = posts /\ funds' = funds
          /\ pc \in {"rrresume", "rfcheck"}
      BY <1>3 DEF Resume, ClearFault, exchange, RowOK
    <2>2. /\ disk.status \notin {"NONE", "RECONCILED"}
          /\ disk.status = "COMPLETE" => pc = "rfcheck"
      BY <2>1 DEF HolderInv, FlowInv, StatusInv
    <2>3. (SubmittedIds' = SubmittedIds) /\ (AllLogged' <=> AllLogged)
      BY <2>1 DEF SubmittedIds, AllLogged, Posted, FilledIds
    <2>4. pc' = IF pc = "rrresume" THEN "idle" ELSE "rfsave"
      BY <1>3 DEF Resume, ClearFault, Leave, Continue
    <2>5. StatusInv'
      BY <2>1, <2>2, <2>3, <2>4 DEF HolderInv, StatusInv
    <2>6. CASE Resume
      <3>1. Leave
        BY <2>6 DEF Resume
      <3>. QED BY <2>1, <2>5, <3>1, Leaves DEF HolderInv
    <2>7. CASE ClearFault
      <3>1. /\ pc = "rfcheck" /\ pc' = "rfsave" /\ st' = st /\ op' = op /\ ord' = ord
            /\ err' = err
        BY <2>7 DEF ClearFault, Continue
      <3>2. HolderOK'
        BY <3>1 DEF HolderInv, HolderOK, Steps
      <3>3. CopyInv'
        BY <2>1, <3>1 DEF HolderInv, CopyInv, Same, SameRow
      <3>4. FlowInv'
        BY <2>1, <2>3, <3>1 DEF HolderInv, FlowInv, RunSteps
      <3>. QED BY <2>5, <3>2, <3>3, <3>4 DEF HolderInv
    <2>. QED BY <1>3, <2>6, <2>7
  <1>. QED BY <1>1, <1>2, <1>3

----------------------------------------------------------------------------
(* The holder when the journal, the exchange or the clock moves *)

\* Once every order sent is in the log, nothing is in transit.
LEMMA NothingInTransit ==
    ASSUME WorldOK, OrdersInv, AllLogged
    PROVE  \A i \in Ids : ex[i] # "transit"
  BY DEF WorldOK, OrdersInv, OrderInv, AllLogged, Posted

\* The exchange and the clock touch nothing the holder has established.
LEMMA WorldMoves ==
    ASSUME RowOK, WorldOK, OrdersInv, HolderInv,
           Tick \/ (\E i \in Ids, p \in Prices : \E qty \in 0 .. journal[i].qty : Execute(i, p, qty))
           \/ (\E i \in Ids : Refuse(i))
    PROVE  HolderInv'
  <1>1. /\ disk' = disk /\ log' = log /\ killed' = killed /\ journal' = journal
        /\ posts' = posts /\ st' = st /\ pc' = pc /\ op' = op /\ ord' = ord /\ err' = err
        /\ now \in Nat /\ now' \in Nat /\ now <= now' /\ disk.deadline \in Nat
    BY DEF Tick, Execute, Refuse, process, exchange, WorldOK, RowOK, Rows
  <1>2. /\ \A j \in Ids : ex[j] = "filled" => ex'[j] = "filled" /\ fill'[j] = fill[j]
        /\ AllLogged => (Matched' <=> Matched)
    <2>1. CASE Tick
      BY <2>1 DEF Tick, exchange, Matched, Matches
    <2>2. ASSUME NEW i \in Ids, NEW p \in Prices, NEW qty \in 0 .. journal[i].qty, Execute(i, p, qty)
          PROVE  <1>2!1 /\ <1>2!2
      BY <2>2, NothingInTransit DEF Execute, WorldOK
    <2>3. ASSUME NEW i \in Ids, Refuse(i)
          PROVE  <1>2!1 /\ <1>2!2
      BY <2>3, NothingInTransit DEF Refuse, WorldOK
    <2>. QED BY <2>1, <2>2, <2>3
  <1>3. SubmittedIds' = SubmittedIds /\ (AllLogged' <=> AllLogged) /\ (Same' <=> Same)
    BY <1>1 DEF SubmittedIds, AllLogged, Posted, FilledIds, Same, SameRow
  <1>4. BookedCopy => BookedCopy'
    <2>. SUFFICES ASSUME BookedCopy PROVE BookedCopy'
      OBVIOUS
    <2>. DEFINE i == disk.pending
    <2>1. i \in Ids /\ ex[i] = "filled"
      BY DEF BookedCopy, RowOK, Rows
    <2>2. ex'[i] = "filled" /\ fill'[i] = fill[i]
      BY <1>2, <2>1
    <2>3. Booked(disk, i)' = Booked(disk, i)
      BY <1>1, <2>2 DEF Booked
    <2>. QED BY <1>1, <2>2, <2>3 DEF BookedCopy
  <1>5. IntentCopy => IntentCopy'
    BY <1>1, <1>2, <1>3 DEF IntentCopy
  <1>6. HolderOK'
    BY <1>1 DEF HolderInv, HolderOK
  <1>7. CopyInv'
    BY <1>1, <1>3, <1>4, <1>5 DEF HolderInv, CopyInv
  <1>8. FlowInv'
    BY <1>1, <1>2, <1>3 DEF HolderInv, FlowInv
  <1>9. StatusInv'
    BY <1>1, <1>3 DEF HolderInv, StatusInv
  <1>. QED BY <1>6, <1>7, <1>8, <1>9 DEF HolderInv

\* The journal takes the request, and the request leaves.
LEMMA OrderGoes ==
    ASSUME RowOK, WorldOK, OrdersInv, HolderInv, Claim \/ Send
    PROVE  HolderInv'
  <1>1. /\ disk' = disk /\ log' = log /\ killed' = killed /\ now' = now /\ st' = st
        /\ funds' = funds /\ fill' = fill /\ op' = op /\ op = "run"
        /\ pc \in {"place", "send"} /\ Same /\ st.pending = disk.pending
        /\ disk.pending \in Ids /\ disk.pending # 0
        /\ disk.status \notin {"NONE", "RECONCILED", "COMPLETE"}
        /\ st.status = disk.status /\ st.error = disk.error
    <2>1. /\ disk' = disk /\ log' = log /\ killed' = killed /\ now' = now /\ st' = st
          /\ funds' = funds /\ fill' = fill /\ op' = op
          /\ pc \in {"place", "send"}
      BY DEF Claim, Send, exchange, Continue, Raise
    <2>2. /\ Same /\ st.pending = disk.pending
          /\ st.status = disk.status /\ st.error = disk.error
      BY <2>1 DEF HolderInv, CopyInv, Same, SameRow
    <2>3. op = "run" /\ disk.pending # 0 /\ disk.status \notin {"NONE", "RECONCILED", "COMPLETE"}
      BY <2>1 DEF HolderInv, FlowInv, StatusInv, RunSteps
    <2>. QED BY <2>1, <2>2, <2>3 DEF RowOK, Rows
  <1>2. /\ pc' \in {"send", "query", "blocked", "await"} /\ err' \in Errors
        /\ ord' \in {ord, NoOrder} /\ (pc' = "blocked" => ord' = NoOrder)
        /\ pc' # "blocked" => ord' = ord
    BY DEF Claim, Send, Continue, Raise, HolderInv, HolderOK, Errors, ReadErrors
  <1>3. HolderOK'
    BY <1>1, <1>2, EmptyOrder DEF HolderInv, HolderOK, Steps
  <1>4. CopyInv'
    BY <1>1, <1>2 DEF CopyInv, Same, SameRow
  <1>5. FlowInv'
    <2>1. CASE Send
      <3>1. pc' = "await"
        BY <2>1 DEF Send, Continue
      <3>2. disk.active /\ (ord.side = "BUY" => ~disk.loss /\ ~disk.cum)
        BY <1>1 DEF HolderInv, FlowInv, RunSteps
      <3>. QED BY <1>1, <1>2, <3>1, <3>2 DEF FlowInv, RunSteps
    <2>2. CASE Claim
      <3>1. /\ pc = "place" /\ ex' = ex /\ posts' = posts /\ pc' # "await"
            /\ pc' = "send" => /\ journal[st.pending] = NoRequest
                               /\ journal' = [journal EXCEPT ![st.pending] = [side |-> ord.side, qty |-> ord.qty]]
        BY <2>2 DEF Claim, exchange, Continue, Raise, Claimed
      <3>2. /\ disk.active /\ (ord.side = "BUY" => ~disk.loss /\ ~disk.cum)
            /\ ord.side \in Sides /\ disk.cycles # 0 /\ AllLogged /\ Matched
        BY <3>1 DEF HolderInv, FlowInv, RunSteps
      <3>3. AllLogged' /\ Matched'
        BY <1>1, <3>1, <3>2 DEF AllLogged, Posted, FilledIds, Matched, Matches
      <3>4. pc' = "send" => posts[disk.pending] = 0 /\ journal'[disk.pending] # NoRequest
        <4>. SUFFICES ASSUME pc' = "send"
                      PROVE  posts[disk.pending] = 0 /\ journal'[disk.pending] # NoRequest
          OBVIOUS
        <4>1. journal'[disk.pending].side = ord.side
          BY <1>1, <3>1 DEF WorldOK
        <4>2. OrderInv(disk.pending)
          BY <1>1 DEF OrdersInv
        <4>. QED BY <1>1, <3>1, <3>2, <4>1, <4>2 DEF OrderInv, WorldOK, NoRequest, Sides
      <3>. QED BY <1>1, <1>2, <3>1, <3>2, <3>3, <3>4, EmptyOrder DEF FlowInv, RunSteps
    <2>. QED BY <2>1, <2>2
  <1>6. StatusInv'
    BY <1>1 DEF HolderInv, StatusInv
  <1>. QED BY <1>3, <1>4, <1>5, <1>6 DEF HolderInv

----------------------------------------------------------------------------
(* The holder where the row is written *)

LEMMA CopyFinite ==
    ASSUME RowOK, WorldOK, HolderInv
    PROVE  IsFiniteSet(st.times)
  <1>1. CASE Same
    BY <1>1 DEF RowOK, Same, SameRow
  <1>2. CASE BookedCopy
    <2>. DEFINE i == disk.pending
    <2>1. i \in Ids /\ st.times = Booked(disk, i).times
      BY <1>2 DEF BookedCopy, RowOK, Rows, SameRow
    <2>2. IsFiniteSet(Booked(disk, i).times)
      BY <2>1, RowBooked DEF RowOK, WorldOK
    <2>. QED BY <2>1, <2>2
  <1>3. CASE IntentCopy
    BY <1>3 DEF RowOK, IntentCopy, SameRow, Rows
  <1>. QED BY <1>1, <1>2, <1>3 DEF HolderInv, CopyInv

\* The row and the copy are the same after a save.
LEMMA Saved ==
    ASSUME disk' \in Rows, SameRow(st', disk'), st'.status = disk'.status,
           st'.error = disk'.error, pc' \notin {"fillsave", "rpcheck", "blockedsave"}
    PROVE  CopyInv'
  BY DEF CopyInv, Same

LEMMA SameIsSame == \A m : SameRow(m, m)
  BY DEF SameRow

\* Starting, activating, retrying and ending an observation.
LEMMA RunSaves ==
    ASSUME RowOK, WorldOK, HolderInv, Start \/ Activate \/ Retry \/ End
    PROVE  RowOK' /\ HolderInv'
  <1>1. /\ log' = log /\ killed' = killed /\ now' = now /\ journal' = journal
        /\ op = "run" /\ ord.side = "NONE" /\ Same
        /\ st \in Rows /\ disk \in Rows /\ st.error = disk.error /\ st.status = disk.status
        /\ pc \in {"start", "policy", "retry", "end"}
        /\ SubmittedIds' = SubmittedIds
    BY DEF Start, Activate, Retry, End, exchange, Leave, HolderInv, HolderOK, CopyInv,
           FlowInv, RunSteps, RowOK, SubmittedIds
  <1>2. /\ st.pending = disk.pending /\ st.orders = disk.orders /\ st.cash = disk.cash
        /\ st.btc = disk.btc /\ st.times = disk.times /\ st.active = disk.active
        /\ st.deadline = disk.deadline
    BY <1>1 DEF Same, SameRow
  <1>3. CASE Start
    <2>1. /\ disk'.status = "RUNNING" /\ disk' \in Rows /\ st' = disk'
          /\ disk'.orders = disk.orders /\ disk'.cash = disk.cash /\ disk'.btc = disk.btc
          /\ disk'.times = disk.times /\ disk'.error = disk.error /\ disk.error = "none"
          /\ pc' = "policy" /\ op' = op /\ ord' = ord /\ err' = err
      <3>1. st' = [st EXCEPT !.status = "RUNNING", !.base = funds] /\ disk' = st'
        BY <1>3 DEF Start
      <3>2. st' \in Rows
        BY <1>1, <3>1, RowStarted DEF WorldOK
      <3>3. disk.error = "none"
        BY <1>1, <1>3 DEF Start, HolderInv, StatusInv
      <3>4. /\ st'.status = "RUNNING" /\ st'.orders = st.orders /\ st'.cash = st.cash
            /\ st'.btc = st.btc /\ st'.times = st.times /\ st'.error = st.error
        BY <1>1, <3>1 DEF Rows
      <3>5. pc' = "policy" /\ op' = op /\ ord' = ord /\ err' = err
        BY <1>3 DEF Start, Continue
      <3>. QED BY <1>1, <1>2, <3>1, <3>2, <3>3, <3>4, <3>5
    <2>2. RowOK' /\ HolderOK'
      BY <1>2, <2>1 DEF RowOK, HolderInv, HolderOK, Steps
    <2>3. CopyInv'
      BY <2>1, Saved, SameIsSame
    <2>4. FlowInv'
      BY <1>1, <2>1 DEF FlowInv, RunSteps
    <2>5. StatusInv'
      BY <2>1 DEF HolderInv, StatusInv
    <2>. QED BY <2>2, <2>3, <2>4, <2>5 DEF HolderInv
  <1>4. CASE Activate
    <2>1. /\ st' \in Rows /\ SameBooks(st', st) /\ st'.status = st.status
          /\ st'.error = st.error /\ st'.active /\ disk' = st' /\ pc = "policy"
          /\ pc' = "loop" /\ op' = op /\ ord' = ord /\ err' = err
      BY <1>1, <1>4, RowStarted DEF Activate, WorldOK, Continue
    <2>2. disk.status \notin {"NONE", "RECONCILED", "COMPLETE"}
      BY <2>1 DEF HolderInv, FlowInv, StatusInv, RunSteps
    <2>3. RowOK' /\ HolderOK'
      BY <1>2, <2>1 DEF RowOK, HolderInv, HolderOK, Steps, SameBooks
    <2>4. CopyInv'
      BY <2>1, Saved, SameIsSame
    <2>5. FlowInv'
      BY <1>1, <2>1, <2>2 DEF FlowInv, RunSteps
    <2>6. StatusInv'
      BY <1>1, <1>2, <2>1, <2>2 DEF HolderInv, StatusInv, SameBooks
    <2>. QED BY <2>3, <2>4, <2>5, <2>6 DEF HolderInv
  <1>5. CASE Retry
    <2>1. /\ st' = [st EXCEPT !.fails = st.fails + 1] /\ disk' = st' /\ pc = "retry"
          /\ pc' = "loop" /\ op' = op /\ ord' = ord /\ err' = "none"
      BY <1>5 DEF Retry
    <2>2. /\ st' \in Rows /\ SameRow(st', st) /\ st'.status = st.status
          /\ st'.error = st.error
      <3>1. st.fails + 1 \in Nat
        BY <1>1 DEF Rows
      <3>. QED BY <1>1, <2>1, <3>1, RowFailed
    <2>3. disk.status \notin {"NONE", "RECONCILED", "COMPLETE"} /\ disk.active
      BY <2>1 DEF HolderInv, FlowInv, StatusInv, RunSteps
    <2>4. RowOK' /\ HolderOK'
      BY <1>2, <2>1, <2>2 DEF RowOK, HolderInv, HolderOK, Steps, SameRow, Errors
    <2>5. CopyInv'
      BY <2>1, <2>2, Saved, SameIsSame
    <2>6. FlowInv'
      BY <1>1, <1>2, <2>1, <2>2, <2>3 DEF FlowInv, RunSteps, SameRow
    <2>7. StatusInv'
      BY <1>1, <1>2, <2>1, <2>2, <2>3 DEF HolderInv, StatusInv, SameRow
    <2>. QED BY <2>4, <2>5, <2>6, <2>7 DEF HolderInv
  <1>6. CASE End
    <2>1. /\ disk' = [st EXCEPT !.status = "COMPLETE"] /\ pc = "end" /\ Leave
          /\ pc' = "idle"
      BY <1>6 DEF End, Leave
    <2>2. disk' \in Rows /\ SameRow(disk', st) /\ disk'.status = "COMPLETE"
          /\ disk'.error = st.error
      BY <1>1, <2>1, RowLabelled
    <2>3. disk.pending = 0 /\ disk.active /\ now >= disk.deadline
      BY <2>1 DEF HolderInv, FlowInv, RunSteps
    <2>4. RowOK'
      BY <1>2, <2>2 DEF RowOK, SameRow
    <2>5. StatusInv'
      <3>1. /\ disk'.status = "COMPLETE" /\ disk'.error = disk.error
            /\ disk'.pending = 0 /\ disk'.active /\ now' >= disk'.deadline
            /\ disk'.orders = disk.orders /\ disk'.cash = disk.cash
            /\ disk'.btc = disk.btc
        BY <1>1, <1>2, <2>2, <2>3 DEF SameRow
      <3>2. /\ disk.orders = 0 => disk.cash = Capital /\ disk.btc = 0
            /\ disk.error # "none" => log.blocked
        BY DEF HolderInv, StatusInv
      <3>. QED BY <1>1, <1>2, <2>1, <3>1, <3>2 DEF StatusInv
    <2>. QED BY <2>1, <2>2, <2>4, <2>5, Leaves DEF HolderInv
  <1>. QED BY <1>3, <1>4, <1>5, <1>6

\* An evaluation, whether it ends in an order or in sleep.
LEMMA EvaluationSaves ==
    ASSUME RowOK, WorldOK, HolderInv,
           \E p \in Prices : \/ Hold(p)
                             \/ \E side \in Sides, amount \in Amounts : Trade(p, side, amount)
    PROVE  RowOK' /\ HolderInv'
  <1>1. PICK p \in Prices : \/ Hold(p)
                            \/ \E side \in Sides, amount \in Amounts : Trade(p, side, amount)
    OBVIOUS
  <1>. DEFINE e == Evaluated(st, p)
  <1>2. /\ log' = log /\ killed' = killed /\ now' = now /\ journal' = journal
        /\ posts' = posts /\ funds' = funds /\ pc = "decide" /\ disk' = e /\ op' = op /\ err' = err
    BY <1>1 DEF Hold, Trade, Evaluate, exchange, Continue
  <1>3. /\ Same /\ st \in Rows /\ st.error = disk.error /\ st.status = disk.status
        /\ op = "run" /\ disk.pending = 0 /\ AllLogged /\ Matched /\ disk.active
        /\ disk.status \notin {"NONE", "RECONCILED", "COMPLETE"} /\ ord.side = "NONE"
    BY <1>2 DEF HolderInv, HolderOK, CopyInv, FlowInv, StatusInv, RunSteps
  <1>4. /\ st.pending = disk.pending /\ st.orders = disk.orders /\ st.cash = disk.cash
        /\ st.btc = disk.btc /\ st.base = disk.base /\ st.active = disk.active
    BY <1>3 DEF Same, SameRow
  <1>5. /\ e \in Rows /\ IsFiniteSet(e.times)
        /\ e.cash = disk.cash /\ e.btc = disk.btc /\ e.base = disk.base
        /\ e.pending = 0 /\ e.orders = disk.orders /\ e.status = disk.status
        /\ e.error = disk.error /\ e.active
        /\ st.cycles < MaxCycles => e.cycles # 0
    BY <1>3, <1>4, CopyFinite, RowEvaluated DEF WorldOK
  <1>. HIDE DEF e
  <1>6. RowOK'
    BY <1>2, <1>5 DEF RowOK
  <1>7. /\ AllLogged' /\ Matched'
    BY <1>2, <1>3, <1>5 DEF AllLogged, Posted, FilledIds, Matched, Matches
  <1>8. StatusInv'
    BY <1>2, <1>3, <1>5 DEF HolderInv, StatusInv
  <1>9. CASE Hold(p)
    <2>1. st' = [disk' EXCEPT !.fails = 0] /\ pc' = "sleep" /\ ord' = ord
      BY <1>9 DEF Hold, Continue
    <2>2. st' \in Rows /\ SameRow(st', disk') /\ st'.status = disk'.status /\ st'.error = disk'.error
      BY <1>2, <1>5, <2>1, RowFailed
    <2>3. HolderOK' /\ CopyInv'
      BY <1>2, <1>5, <2>1, <2>2, Saved DEF HolderInv, HolderOK, Steps
    <2>4. FlowInv'
      BY <1>2, <1>3, <1>5, <2>1 DEF FlowInv, RunSteps
    <2>. QED BY <1>6, <1>8, <2>3, <2>4 DEF HolderInv
  <1>10. ASSUME NEW side \in Sides, NEW amount \in Amounts, Trade(p, side, amount)
         PROVE  HolderInv'
    <2>1. /\ st' = disk' /\ pc' = "order" /\ ord' = [side |-> side, amount |-> amount, qty |-> 0]
          /\ st.cycles < MaxCycles
          /\ side = "BUY" => ~disk'.loss /\ ~disk'.cum
          /\ amount \in Nat
      BY <1>10, SoakAssumption DEF Trade, Guard
    <2>2. HolderOK' /\ CopyInv'
      <3>1. HolderOK'
        BY <1>2, <1>5, <2>1 DEF HolderInv, HolderOK, Steps, Sides
      <3>2. CopyInv'
        BY <1>2, <1>5, <2>1, Saved, SameIsSame
      <3>. QED BY <3>1, <3>2
    <2>3. FlowInv'
      BY <1>2, <1>3, <1>5, <1>7, <2>1 DEF FlowInv, RunSteps
    <2>. QED BY <1>8, <2>2, <2>3 DEF HolderInv
  <1>. QED BY <1>1, <1>6, <1>9, <1>10

\* The intent names the evaluation's order.
LEMMA IntentSaves ==
    ASSUME RowOK, WorldOK, HolderInv, \E p \in Prices : Intend(p)
    PROVE  RowOK' /\ HolderInv'
  <1>1. PICK p \in Prices : Intend(p)
    OBVIOUS
  <1>. DEFINE q == Quantity(st, ord.side, ord.amount, p)
              d == [st EXCEPT !.pending = st.cycles]
  <1>2. /\ log' = log /\ killed' = killed /\ now' = now /\ journal' = journal
        /\ posts' = posts /\ funds' = funds /\ pc = "order" /\ pc' = "place"
        /\ disk' = d /\ st' = [disk' EXCEPT !.fails = 0]
        /\ ord' = [ord EXCEPT !.qty = q] /\ q > 0 /\ op' = op /\ err' = err
    BY <1>1 DEF Intend, exchange
  <1>3. /\ Same /\ st \in Rows /\ st.error = disk.error /\ st.status = disk.status
        /\ op = "run" /\ AllLogged /\ Matched /\ disk.active
        /\ disk.status \notin {"NONE", "RECONCILED", "COMPLETE"}
        /\ ord.side \in Sides /\ (ord.side = "BUY" => ~disk.loss /\ ~disk.cum)
        /\ ord \in [side : Sides \cup {"NONE"}, amount : Nat, qty : Nat]
        /\ disk.cycles # 0
    BY <1>2 DEF HolderInv, HolderOK, CopyInv, FlowInv, StatusInv, RunSteps
  <1>4. /\ st.cycles = disk.cycles /\ st.orders = disk.orders /\ st.cash = disk.cash
        /\ st.btc = disk.btc /\ st.base = disk.base /\ st.active = disk.active
        /\ st.loss = disk.loss /\ st.cum = disk.cum /\ st.times = disk.times
    BY <1>3 DEF Same, SameRow
  <1>5. /\ d \in Rows /\ d.status = disk.status /\ d.error = disk.error
        /\ d.pending = st.cycles /\ st.cycles \in Ids
    BY <1>3, <1>4, RowIntent
  <1>6. /\ d.orders = disk.orders /\ d.cash = disk.cash
        /\ d.btc = disk.btc /\ d.base = disk.base /\ d.active = disk.active
        /\ d.loss = disk.loss /\ d.cum = disk.cum /\ d.times = disk.times
        /\ d.cycles = disk.cycles
    BY <1>3, <1>4 DEF Rows
  <1>7. q \in Nat
    <2>1. ord.amount \in Nat /\ st.btc \in Nat /\ p \in Nat \ {0}
      BY <1>3, SoakAssumption DEF Rows
    <2>2. ord.amount \div p \in Nat
      BY <2>1
    <2>. QED BY <2>1, <2>2 DEF Quantity
  <1>. HIDE DEF q, d
  <1>8. st' \in Rows /\ SameRow(st', disk') /\ st'.status = disk'.status /\ st'.error = disk'.error
    BY <1>2, <1>5, RowFailed
  <1>9. RowOK'
    BY <1>2, <1>5, <1>6 DEF RowOK
  <1>10. /\ ord' \in [side : Sides \cup {"NONE"}, amount : Nat, qty : Nat]
         /\ ord'.side = ord.side /\ ord'.qty = q
    BY <1>2, <1>3, <1>7
  <1>11. HolderOK' /\ CopyInv'
    BY <1>2, <1>5, <1>8, <1>10, Saved DEF HolderInv, HolderOK, Steps
  <1>12. AllLogged' /\ Matched'
    BY <1>2, <1>3, <1>6 DEF AllLogged, Posted, FilledIds, Matched, Matches
  <1>13. FlowInv'
    BY <1>2, <1>3, <1>4, <1>5, <1>6, <1>10, <1>12 DEF FlowInv, RunSteps
  <1>14. StatusInv'
    BY <1>2, <1>3, <1>5, <1>6 DEF HolderInv, StatusInv
  <1>. QED BY <1>9, <1>11, <1>13, <1>14 DEF HolderInv

\* A fill that was booked in the copy is saved, by the run or by its repair.
LEMMA FillSaves ==
    ASSUME RowOK, WorldOK, HolderInv, PhaseInv, SaveFill \/ CommitPending
    PROVE  RowOK' /\ HolderInv'
  <1>. DEFINE i == disk.pending
  <1>1. /\ disk' = st /\ st' = disk' /\ log' = [log EXCEPT !.fills = Append(@, i)]
        /\ killed' = killed /\ now' = now /\ journal' = journal /\ posts' = posts
        /\ pc \in {"fillsave", "rpcheck"}
        /\ IF pc = "fillsave" THEN pc' = "funds" /\ op' = op /\ ord' = ord /\ err' = err
                              ELSE Leave
    BY DEF SaveFill, CommitPending, LogFill, exchange, Continue, Leave
  <1>2. /\ BookedCopy /\ st \in Rows /\ st.error = disk.error
        /\ IF pc = "fillsave" THEN st.status = disk.status ELSE st.status = "RECONCILED"
    BY <1>1 DEF HolderInv, HolderOK, CopyInv
  <1>3. i \in Ids /\ i # 0
    BY <1>2 DEF BookedCopy, RowOK, Rows
  <1>4. /\ st.pending = 0 /\ st.orders = disk.orders + 1 /\ st.active = disk.active
    BY <1>2, <1>3, RowBooked DEF BookedCopy, RowOK, WorldOK, SameRow
  <1>5. disk.orders \in Nat
    BY DEF RowOK, Rows
  <1>6. RowOK'
    BY <1>1, <1>2, CopyFinite DEF RowOK
  <1>7. log.blocked' = log.blocked /\ FilledIds \cup {i} \subseteq FilledIds'
    <2>1. log.fills \in Seq(Ids) /\ log'.fills = Append(log.fills, i) /\ log'.blocked = log.blocked
      BY <1>1 DEF WorldOK, Logs
    <2>2. Append(log.fills, i)[Len(log.fills) + 1] = i
      BY <1>3, <2>1
    <2>3. /\ DOMAIN log'.fills = 1 .. Len(log.fills) + 1 /\ DOMAIN log.fills = 1 .. Len(log.fills)
          /\ \A k \in DOMAIN log.fills : log'.fills[k] = log.fills[k]
          /\ Len(log.fills) \in Nat
      BY <1>3, <2>1
    <2>4. \A k \in DOMAIN log.fills : log.fills[k] \in FilledIds'
      BY <2>3 DEF FilledIds
    <2>5. i \in FilledIds'
      BY <2>1, <2>2, <2>3 DEF FilledIds
    <2>. QED BY <2>1, <2>4, <2>5 DEF FilledIds
  <1>8. pc = "rpcheck" => AllLogged'
    BY <1>1, <1>3, <1>7 DEF PhaseInv, Clean, Doubled, Lost, Logged, AllLogged, Posted
  <1>9. /\ killed' = killed /\ (pc = "rpcheck" => killed /\ disk.error = "Ambiguous")
        /\ pc = "fillsave" => /\ disk.status \notin {"NONE", "RECONCILED", "COMPLETE"}
                             /\ disk.active /\ op = "run" /\ ord.side = "NONE"
        /\ disk.error # "none" => log.blocked
    BY <1>1 DEF HolderInv, FlowInv, StatusInv, RunSteps
  <1>10. StatusInv'
    BY <1>1, <1>2, <1>4, <1>5, <1>7, <1>8, <1>9 DEF StatusInv
  <1>11. CASE pc = "rpcheck"
    BY <1>1, <1>2, <1>10, <1>6, <1>11, Leaves DEF HolderInv
  <1>12. CASE pc = "fillsave"
    <2>1. HolderOK' /\ CopyInv'
      BY <1>1, <1>2, <1>12, Saved, SameIsSame DEF HolderInv, HolderOK, Steps
    <2>2. FlowInv'
      BY <1>1, <1>2, <1>4, <1>9, <1>12 DEF FlowInv, RunSteps
    <2>. QED BY <1>6, <1>10, <2>1, <2>2 DEF HolderInv
  <1>. QED BY <1>1, <1>11, <1>12

\* The handler saves the copy, whatever the run had left in it.
LEMMA HandlerSaves ==
    ASSUME RowOK, WorldOK, HolderInv, BlockedSave
    PROVE  RowOK' /\ HolderInv'
  <1>1. /\ disk' = st /\ log' = [log EXCEPT !.blocked = TRUE] /\ pc = "blockedsave" /\ Leave
        /\ killed' = killed /\ journal' = journal /\ now' = now /\ pc' = "idle"
    BY DEF BlockedSave, LogBlocked, exchange, Leave
  <1>2. st \in Rows /\ st.status = "BLOCKED"
    BY <1>1 DEF HolderInv, HolderOK, CopyInv
  <1>3. RowOK'
    BY <1>1, <1>2, CopyFinite DEF RowOK
  <1>4. log'.blocked
    BY <1>1 DEF WorldOK, Logs
  <1>5. st.orders = 0 => st.cash = Capital /\ st.btc = 0
    <2>1. disk.orders = 0 => disk.cash = Capital /\ disk.btc = 0
      BY DEF HolderInv, StatusInv
    <2>2. CASE Same
      BY <2>1, <2>2 DEF Same, SameRow
    <2>3. CASE BookedCopy
      <3>1. disk.pending \in Ids /\ disk.orders \in Nat
        BY <2>3 DEF BookedCopy, RowOK, Rows
      <3>2. st.orders = disk.orders + 1
        BY <2>3, <3>1, RowBooked DEF BookedCopy, RowOK, WorldOK, SameRow
      <3>. QED BY <3>1, <3>2
    <2>4. CASE IntentCopy
      BY <2>1, <2>4 DEF IntentCopy, SameRow, RowOK, Rows
    <2>. QED BY <1>1, <2>2, <2>3, <2>4 DEF HolderInv, CopyInv
  <1>6. StatusInv'
    BY <1>1, <1>2, <1>4, <1>5 DEF StatusInv
  <1>. QED BY <1>1, <1>2, <1>3, <1>6, Leaves DEF HolderInv

\* A repair labels the row reconciled, or opens a new window on it.
LEMMA RepairSaves ==
    ASSUME RowOK, WorldOK, HolderInv, CommitTransient \/ Renew
    PROVE  RowOK' /\ HolderInv'
  <1>1. /\ killed' = killed /\ now' = now /\ journal' = journal /\ posts' = posts
        /\ funds' = funds /\ pc \in {"rtcheck", "rrcheck", "rfsave"} /\ st' = disk'
        /\ log'.fills = log.fills /\ (pc = "rtcheck" => log' = log)
    BY DEF CommitTransient, Renew, LogRecovery, Leave, exchange, WorldOK, Logs
  <1>2. /\ Same /\ st \in Rows /\ st.error = disk.error /\ st.status = disk.status
        /\ disk.pending = 0 /\ disk.status # "NONE" /\ ord.side = "NONE" /\ op # "none"
        /\ pc = "rtcheck" => killed /\ disk.error = "Transient"
        /\ pc = "rrcheck" => killed /\ op # "recover-read-failure"
        /\ pc # "rfsave" => AllLogged
        /\ disk.error # "none" => log.blocked
        /\ disk.orders = 0 => disk.cash = Capital /\ disk.btc = 0
    BY <1>1 DEF HolderInv, HolderOK, CopyInv, FlowInv, StatusInv, RunSteps
  <1>3. (pc # "rfsave" => AllLogged') /\ FilledIds' = FilledIds
    BY <1>1, <1>2 DEF AllLogged, Posted, FilledIds
  <1>4. CASE CommitTransient
    <2>1. disk' = [st EXCEPT !.status = "RECONCILED"] /\ pc = "rtcheck" /\ Leave /\ pc' = "idle"
      BY <1>4 DEF CommitTransient, Leave
    <2>2. disk' \in Rows /\ SameRow(disk', st) /\ disk'.status = "RECONCILED"
          /\ disk'.error = st.error
      BY <1>2, <2>1, RowLabelled
    <2>3. SameRow(disk', disk)
      BY <1>2, <2>2 DEF Same, SameRow
    <2>4. RowOK'
      BY <2>2, <2>3 DEF RowOK, SameRow
    <2>5. StatusInv'
      BY <1>1, <1>2, <1>3, <2>1, <2>2, <2>3 DEF StatusInv, SameRow
    <2>. QED BY <2>1, <2>2, <2>4, <2>5, Leaves DEF HolderInv
  <1>5. CASE Renew
    <2>1. disk' = Renewed(st) /\ (pc = "rrcheck" => Matches(st))
      BY <1>5 DEF Renew
    <2>2. /\ disk' \in Rows /\ SameBooks(disk', disk) /\ disk'.status = "RUNNING"
          /\ disk'.error = "none"
      <3>1. /\ disk' \in Rows /\ SameBooks(disk', st) /\ disk'.status = "RUNNING"
            /\ disk'.error = "none"
        <4>1. st \in Rows /\ now \in Nat /\ funds \in Money
          BY <1>2 DEF WorldOK
        <4>. QED BY <2>1, <4>1, RowStarted
      <3>2. SameBooks(st, disk)
        BY <1>2 DEF Same, SameRow, SameBooks
      <3>. QED BY <3>1, <3>2 DEF SameBooks
    <2>3. RowOK'
      BY <2>2 DEF RowOK, SameBooks
    <2>4. StatusInv'
      <3>1. /\ disk'.status = "RUNNING" /\ disk'.error = "none"
            /\ disk'.orders = disk.orders /\ disk'.cash = disk.cash
            /\ disk'.btc = disk.btc
        BY <2>2 DEF SameBooks
      <3>. QED BY <1>2, <3>1 DEF StatusInv
    <2>5. CASE pc = "rrcheck"
      <3>1. pc' = "rrresume" /\ op' = op /\ ord' = ord /\ err' = err
        BY <1>5, <2>5 DEF Renew, Continue
      <3>2. Matched'
        BY <1>1, <1>2, <2>1, <2>2, <2>5 DEF Matched, Matches, Same, SameRow, SameBooks
      <3>3. HolderOK' /\ CopyInv'
        BY <1>1, <2>2, <3>1, Saved, SameIsSame DEF HolderInv, HolderOK, Steps
      <3>4. FlowInv'
        BY <1>1, <1>2, <1>3, <2>2, <2>5, <3>1, <3>2 DEF FlowInv, RunSteps, SameBooks
      <3>. QED BY <2>3, <2>4, <3>3, <3>4 DEF HolderInv
    <2>6. CASE pc # "rrcheck"
      <3>1. Leave
        BY <1>5, <2>6 DEF Renew
      <3>. QED BY <2>2, <2>3, <2>4, <3>1, Leaves DEF HolderInv
    <2>. QED BY <2>5, <2>6
  <1>. QED BY <1>4, <1>5

----------------------------------------------------------------------------
(* The kinds of step *)

\* The row, the log, the exchange and the clock stay as they are.
StillSteps ==
    \/ BeginRun \/ Stopped \/ StartRefused \/ Restart \/ Loop \/ WindowOver
    \/ Settle \/ SettleRefused \/ Unsaved \/ FundsMatch \/ ReadRefused \/ Wake
    \/ IntentUnsaved \/ NotSent \/ ClockUnread \/ Replied \/ Rejected \/ QueryFound
    \/ QueryFails \/ GiveUp \/ Block
    \/ BeginRecoverTransient \/ BeginRecoverPending \/ RecoverFound \/ BeginResume
    \/ Resume \/ BeginRecoverRead \/ ClearFault \/ Abandon \/ Stop \/ Crash

\* The row is saved with another label or another window.
LabelSteps == Activate \/ Retry \/ End \/ CommitTransient \/ Renew

EvaluateSteps ==
    \E p \in Prices : \/ Hold(p)
                      \/ \E side \in Sides, amount \in Amounts : Trade(p, side, amount)

IntendSteps == \E p \in Prices : Intend(p)
FillSteps == SaveFill \/ CommitPending
ExecuteSteps ==
    \E i \in Ids, p \in Prices : \E qty \in 0 .. journal[i].qty : Execute(i, p, qty)
RefuseSteps == \E i \in Ids : Refuse(i)

LEMMA Kinds ==
    Next <=> \/ StillSteps \/ LabelSteps \/ Start \/ EvaluateSteps \/ IntendSteps
             \/ BlockedSave \/ FillSteps \/ Claim \/ Send \/ ExecuteSteps \/ RefuseSteps
             \/ Tick
  BY Zenon DEF Next, Worker, Recovery, Environment, StillSteps, LabelSteps, EvaluateSteps,
         IntendSteps, FillSteps, ExecuteSteps, RefuseSteps

LEMMA StillStepsAreStill ==
    ASSUME StillSteps
    PROVE  /\ disk' = disk /\ log' = log /\ journal' = journal /\ ex' = ex /\ fill' = fill
           /\ funds' = funds /\ posts' = posts /\ now' = now /\ lossDays' = lossDays
           /\ killed' \in {killed, TRUE, FALSE}
           /\ reason' \in {reason, "operator", "exchange", "soak", "resumed"}
           /\ manual' \in {manual, manual \/ op = "none" \/ op = "run", FALSE}
           /\ pc' \in {"place", "send"} => pc \in {"place", "send"}
  <1>1. CASE BeginRun \/ Restart \/ Loop \/ WindowOver \/ Settle \/ Unsaved \/ FundsMatch
             \/ Wake \/ IntentUnsaved \/ GiveUp \/ BeginRecoverTransient
             \/ BeginRecoverPending \/ RecoverFound \/ BeginResume \/ BeginRecoverRead
             \/ Stopped
    BY <1>1 DEF BeginRun, Restart, Loop, WindowOver, Settle, Unsaved, FundsMatch, Wake,
                IntentUnsaved, GiveUp, BeginRecoverTransient, BeginRecoverPending,
                RecoverFound, BeginResume, BeginRecoverRead, Begin, Unchanged, exchange,
                Continue, Fail, Raise, Stopped
  <1>2. CASE StartRefused \/ SettleRefused \/ ReadRefused \/ NotSent \/ ClockUnread
             \/ Replied \/ Rejected \/ QueryFound \/ Abandon \/ Block \/ Stop \/ Crash
             \/ QueryFails \/ Resume \/ ClearFault
    BY <1>2 DEF StartRefused, SettleRefused, ReadRefused, NotSent, ClockUnread, Replied,
                Rejected, QueryFound, QueryFails, Abandon, Block, Resume, ClearFault, Stop, Crash, MayTrip,
                Continue, Fail, Raise, Leave, exchange, process
  <1>. QED BY <1>1, <1>2 DEF StillSteps

----------------------------------------------------------------------------
(* The world and its orders *)

LEMMA FilledAppend ==
    ASSUME WorldOK, NEW i \in Ids, log'.fills = Append(log.fills, i)
    PROVE  /\ FilledIds' = FilledIds \cup {i}
           /\ Len(log'.fills) = Len(log.fills) + 1 /\ Len(log.fills) \in Nat
           /\ DOMAIN log'.fills = 1 .. Len(log.fills) + 1
           /\ DOMAIN log.fills = 1 .. Len(log.fills)
           /\ \A k \in DOMAIN log.fills : log'.fills[k] = log.fills[k]
           /\ log'.fills[Len(log.fills) + 1] = i
           /\ log'.fills \in Seq(Ids)
  <1>1. log.fills \in Seq(Ids)
    BY DEF WorldOK, Logs
  <1>2. /\ Len(log'.fills) = Len(log.fills) + 1 /\ Len(log.fills) \in Nat
        /\ DOMAIN log'.fills = 1 .. Len(log.fills) + 1
        /\ DOMAIN log.fills = 1 .. Len(log.fills)
        /\ \A k \in DOMAIN log.fills : log'.fills[k] = log.fills[k]
        /\ log'.fills[Len(log.fills) + 1] = i
        /\ log'.fills \in Seq(Ids)
    BY <1>1
  <1>3. FilledIds' = FilledIds \cup {i}
    BY <1>2 DEF FilledIds
  <1>. QED BY <1>2, <1>3

\* What a step of the exchange does to the order it is about.
LEMMA WorldStays ==
    ASSUME RowOK, WorldOK, OrdersInv, HolderInv, RowOK', Next
    PROVE  WorldOK'
  <1>1. CASE StillSteps
    BY <1>1, StillStepsAreStill DEF WorldOK
  <1>2. CASE LabelSteps \/ Start \/ IntendSteps \/ BlockedSave
    <2>1. /\ journal' = journal /\ ex' = ex /\ fill' = fill /\ funds' = funds
          /\ posts' = posts /\ now' = now /\ lossDays' = lossDays /\ killed' = killed
          /\ reason' = reason /\ manual' = manual
          /\ log' \in {log, [log EXCEPT !.blocked = TRUE],
                       [log EXCEPT !.before = Len(log.fills), !.blocked = FALSE]}
      BY <1>2 DEF LabelSteps, Activate, Retry, End, CommitTransient, Renew, LogRecovery, Start,
                  IntendSteps, Intend, BlockedSave, LogBlocked, exchange
    <2>2. Len(log.fills) \in Nat
      BY DEF WorldOK, Logs
    <2>3. log' \in Logs
      BY <2>1, <2>2 DEF WorldOK, Logs
    <2>. QED BY <2>1, <2>3 DEF WorldOK
  <1>3. CASE EvaluateSteps
    <2>1. /\ journal' = journal /\ ex' = ex /\ fill' = fill /\ funds' = funds
          /\ posts' = posts /\ now' = now /\ killed' = killed
          /\ reason' = reason /\ manual' = manual /\ log' = log
          /\ lossDays' = lossDays \cup Losses(disk')
      BY <1>3 DEF EvaluateSteps, Hold, Trade, Evaluate, exchange
    <2>2. Losses(disk') \subseteq Int
      <3>1. disk'.day \in Int /\ -1 \in Int
        BY DEF RowOK, Rows
      <3>. QED BY <3>1 DEF Losses
    <2>. QED BY <2>1, <2>2 DEF WorldOK
  <1>4. CASE FillSteps
    <2>1. /\ journal' = journal /\ ex' = ex /\ fill' = fill /\ funds' = funds
          /\ posts' = posts /\ now' = now /\ lossDays' = lossDays /\ killed' = killed
          /\ reason' = reason /\ manual' = manual
          /\ log' = [log EXCEPT !.fills = Append(@, disk.pending)]
          /\ pc \in {"fillsave", "rpcheck"}
      BY <1>4 DEF FillSteps, SaveFill, CommitPending, LogFill, exchange
    <2>2. disk.pending \in Ids
      BY <2>1 DEF HolderInv, CopyInv, BookedCopy, RowOK, Rows
    <2>3. log'.fills = Append(log.fills, disk.pending) /\ log' = [log EXCEPT !.fills = log'.fills]
      BY <2>1 DEF WorldOK, Logs
    <2>4. log'.fills \in Seq(Ids)
      BY <2>2, <2>3, FilledAppend
    <2>5. log' \in Logs
      BY <2>3, <2>4 DEF WorldOK, Logs
    <2>. QED BY <2>1, <2>5 DEF WorldOK
  <1>5. CASE Claim
    <2>1. /\ log' = log /\ ex' = ex /\ fill' = fill /\ funds' = funds
          /\ posts' = posts /\ now' = now /\ lossDays' = lossDays /\ killed' = killed
          /\ reason' = reason /\ manual' = manual
          /\ journal' \in {journal, [journal EXCEPT ![st.pending] = [side |-> ord.side, qty |-> ord.qty]]}
      BY <1>5 DEF Claim, exchange
    <2>2. [side |-> ord.side, qty |-> ord.qty] \in Requests
      BY DEF HolderInv, HolderOK, Requests
    <2>. QED BY <2>1, <2>2 DEF WorldOK
  <1>6. CASE Send
    <2>1. /\ log' = log /\ fill' = fill /\ funds' = funds /\ journal' = journal
          /\ now' = now /\ lossDays' = lossDays /\ killed' = killed
          /\ reason' = reason /\ manual' = manual
          /\ posts' = [posts EXCEPT ![st.pending] = @ + 1]
          /\ ex' = [ex EXCEPT ![st.pending] = "transit"]
      BY <1>6 DEF Send
    <2>2. st.pending \in Ids
      BY <1>6 DEF Send, HolderInv, CopyInv, FlowInv, Same, SameRow, RowOK, Rows
    <2>3. posts[st.pending] + 1 \in Nat
      BY <2>2 DEF WorldOK
    <2>. QED BY <2>1, <2>2, <2>3 DEF WorldOK
  <1>7. CASE ExecuteSteps
    <2>1. PICK i \in Ids, p \in Prices : \E qty \in 0 .. journal[i].qty : Execute(i, p, qty)
      BY <1>7 DEF ExecuteSteps
    <2>2. PICK qty \in 0 .. journal[i].qty : Execute(i, p, qty)
      BY <2>1
    <2>3. qty \in Nat /\ p \in Nat
      BY SoakAssumption DEF WorldOK, Requests
    <2>4. qty * p \in Nat
      BY <2>3
    <2>. DEFINE f == [cash |-> IF journal[i].side = "BUY" THEN -(qty * p) ELSE qty * p,
                      btc |-> IF journal[i].side = "BUY" THEN qty ELSE -qty, at |-> now]
    <2>5. f \in Fills
      BY <2>3, <2>4 DEF Fills, WorldOK
    <2>6. /\ log' = log /\ journal' = journal /\ posts' = posts
          /\ now' = now /\ lossDays' = lossDays /\ killed' = killed
          /\ reason' = reason /\ manual' = manual
          /\ ex' = [ex EXCEPT ![i] = IF qty = journal[i].qty THEN "filled" ELSE "odd"]
          /\ fill' = [fill EXCEPT ![i] = f]
          /\ funds' = [cash |-> funds.cash + f.cash, btc |-> funds.btc + f.btc]
      BY <2>2 DEF Execute
    <2>. HIDE DEF f
    <2>7. funds' \in Money /\ fill' \in [Ids -> Fills]
      BY <2>5, <2>6 DEF Money, Fills, WorldOK
    <2>. QED BY <2>6, <2>7 DEF WorldOK
  <1>8. CASE RefuseSteps
    BY <1>8 DEF RefuseSteps, Refuse, WorldOK
  <1>9. CASE Tick
    <2>1. now' \in Nat
      BY <1>9 DEF Tick, WorldOK
    <2>. QED BY <1>9, <2>1 DEF Tick, exchange, WorldOK
  <1>. QED BY Kinds, <1>1, <1>2, <1>3, <1>4, <1>5, <1>6, <1>7, <1>8, <1>9

LEMMA OrdersStay ==
    ASSUME RowOK, WorldOK, OrdersInv, HolderInv, Next
    PROVE  OrdersInv'
  <1>1. CASE StillSteps \/ LabelSteps \/ Start \/ EvaluateSteps \/ IntendSteps \/ BlockedSave
    <2>1. /\ journal' = journal /\ ex' = ex /\ fill' = fill /\ posts' = posts /\ now' = now
      BY <1>1, StillStepsAreStill
         DEF LabelSteps, Activate, Retry, End, CommitTransient, Renew, Start, EvaluateSteps,
             Hold, Trade, Evaluate, IntendSteps, Intend, BlockedSave, exchange
    <2>2. log'.fills = log.fills
      BY <1>1, StillStepsAreStill
         DEF LabelSteps, Activate, Retry, End, CommitTransient, Renew, Start, EvaluateSteps,
             Hold, Trade, Evaluate, IntendSteps, Intend, BlockedSave, LogBlocked, LogRecovery,
             WorldOK, Logs
    <2>. QED BY <2>1, <2>2 DEF OrdersInv, OrderInv, FilledIds
  <1>2. CASE FillSteps
    <2>1. /\ journal' = journal /\ ex' = ex /\ fill' = fill /\ posts' = posts /\ now' = now
          /\ log' = [log EXCEPT !.fills = Append(@, disk.pending)]
          /\ pc \in {"fillsave", "rpcheck"}
      BY <1>2 DEF FillSteps, SaveFill, CommitPending, LogFill, exchange
    <2>2. disk.pending \in Ids /\ ex[disk.pending] = "filled"
      BY <2>1 DEF HolderInv, CopyInv, BookedCopy, RowOK, Rows
    <2>3. FilledIds' = FilledIds \cup {disk.pending}
      BY <2>1, <2>2, FilledAppend DEF WorldOK, Logs
    <2>. QED BY <2>1, <2>2, <2>3 DEF OrdersInv, OrderInv
  <1>3. CASE Claim
    <2>1. /\ FilledIds' = FilledIds /\ ex' = ex /\ fill' = fill
          /\ posts' = posts /\ now' = now /\ pc = "place"
          /\ \/ journal' = journal
             \/ journal' = [journal EXCEPT ![st.pending] = [side |-> ord.side, qty |-> ord.qty]]
      BY <1>3 DEF Claim, exchange, FilledIds
    <2>2. ord.side \in Sides /\ ord.qty > 0
      BY <2>1 DEF HolderInv, FlowInv
    <2>. QED BY <2>1, <2>2 DEF OrdersInv, OrderInv, WorldOK, NoRequest, Sides
  <1>4. CASE Send
    <2>1. /\ FilledIds' = FilledIds /\ fill' = fill /\ journal' = journal /\ now' = now
          /\ pc = "send"
          /\ posts' = [posts EXCEPT ![st.pending] = @ + 1]
          /\ ex' = [ex EXCEPT ![st.pending] = "transit"]
      BY <1>4 DEF Send, FilledIds
    <2>2. /\ posts[st.pending] = 0 /\ journal[st.pending] # NoRequest
      BY <2>1 DEF HolderInv, FlowInv, CopyInv, Same, SameRow
    <2>. QED BY <2>1, <2>2 DEF OrdersInv, OrderInv, WorldOK
  <1>5. CASE ExecuteSteps
    <2>1. PICK i \in Ids, p \in Prices : \E qty \in 0 .. journal[i].qty : Execute(i, p, qty)
      BY <1>5 DEF ExecuteSteps
    <2>2. PICK qty \in 0 .. journal[i].qty : Execute(i, p, qty)
      BY <2>1
    <2>3. /\ FilledIds' = FilledIds /\ journal' = journal /\ posts' = posts /\ now' = now
          /\ ex[i] = "transit"
          /\ ex' = [ex EXCEPT ![i] = IF qty = journal[i].qty THEN "filled" ELSE "odd"]
          /\ fill'[i].at = now
          /\ fill'[i].btc \in {qty, -qty}
          /\ \A j \in Ids : j # i => fill'[j] = fill[j]
      BY <2>2 DEF Execute, FilledIds, WorldOK
    <2>4. OrderInv(i) /\ posts[i] > 0 /\ journal[i].qty \in Nat /\ qty \in Nat
      BY <2>3 DEF OrdersInv, OrderInv, WorldOK, Requests
    <2>5. OrderInv(i)'
      BY <2>3, <2>4 DEF OrderInv, WorldOK
    <2>6. ASSUME NEW j \in Ids, j # i PROVE OrderInv(j)'
      BY <2>3, <2>6 DEF OrdersInv, OrderInv, WorldOK
    <2>. QED BY <2>5, <2>6 DEF OrdersInv
  <1>6. CASE RefuseSteps
    <2>1. PICK i \in Ids : Refuse(i)
      BY <1>6 DEF RefuseSteps
    <2>. QED BY <2>1 DEF Refuse, OrdersInv, OrderInv, WorldOK, FilledIds
  <1>7. CASE Tick
    <2>1. \A i \in Ids : fill[i].at \in Nat
      BY DEF WorldOK, Fills
    <2>. QED BY <1>7, <2>1 DEF Tick, exchange, OrdersInv, OrderInv, WorldOK, FilledIds
  <1>. QED BY Kinds, <1>1, <1>2, <1>3, <1>4, <1>5, <1>6, <1>7

LEMMA HolderStays ==
    ASSUME RowOK, WorldOK, OrdersInv, HolderInv, PhaseInv, Next
    PROVE  RowOK' /\ HolderInv'
  <1>1. CASE StillSteps
    <2>1. RowOK'
      BY <1>1, StillStepsAreStill DEF RowOK
    <2>. QED BY <1>1, <2>1, RunLooks, RunCopies, Begins, Ends DEF StillSteps
  <1>2. CASE LabelSteps \/ Start \/ EvaluateSteps \/ IntendSteps \/ BlockedSave \/ FillSteps
    BY <1>2, RunSaves, RepairSaves, EvaluationSaves, IntentSaves, HandlerSaves, FillSaves
       DEF LabelSteps, EvaluateSteps, IntendSteps, FillSteps
  <1>3. CASE Claim \/ Send \/ ExecuteSteps \/ RefuseSteps \/ Tick
    <2>1. RowOK'
      BY <1>3 DEF Claim, Send, ExecuteSteps, Execute, RefuseSteps, Refuse, Tick, RowOK
    <2>. QED BY <1>3, <2>1, OrderGoes, WorldMoves DEF ExecuteSteps, RefuseSteps
  <1>. QED BY Kinds, <1>1, <1>2, <1>3

----------------------------------------------------------------------------
(* Steps the ledger does not notice *)

\* What was booked, sent, executed and logged is the same after the step.
Quiet ==
    /\ SameBooks(disk', disk) /\ disk'.day = disk.day
    /\ disk'.status = "NONE" <=> disk.status = "NONE"
    /\ log'.fills = log.fills
    /\ UNCHANGED <<ex, fill, funds, posts, now>>
    /\ pc' \in {"place", "send"} => pc \in {"place", "send"}

LEMMA RowBooks ==
    ASSUME NEW m \in Rows, NEW n \in Rows, SameRow(m, n)
    PROVE  SameBooks(m, n) /\ m.day = n.day
  BY DEF SameRow, SameBooks

LEMMA QuietSteps ==
    ASSUME RowOK, WorldOK, HolderInv, StillSteps \/ LabelSteps \/ Claim \/ (BlockedSave /\ Same)
    PROVE  Quiet
  <1>1. CASE StillSteps
    BY <1>1, StillStepsAreStill DEF Quiet, SameBooks
  <1>2. CASE Claim
    BY <1>2 DEF Claim, Quiet, SameBooks, exchange, Continue, Raise
  <1>3. CASE LabelSteps \/ (BlockedSave /\ Same)
    <2>1. /\ st \in Rows /\ disk \in Rows /\ Same
          /\ st.status = disk.status \/ BlockedSave
      BY <1>3
         DEF LabelSteps, Activate, Retry, End, CommitTransient, Renew, HolderInv, HolderOK,
             CopyInv, RowOK, Same
    <2>2. /\ SameBooks(st, disk) /\ st.day = disk.day
      BY <2>1, RowBooks DEF Same
    <2>3. log'.fills = log.fills /\ UNCHANGED <<ex, fill, funds, posts, now>>
          /\ pc' \notin {"place", "send"}
      BY <1>3 DEF LabelSteps, Activate, Retry, End, CommitTransient, Renew, BlockedSave,
                  LogBlocked, LogRecovery, exchange, Leave, Continue, WorldOK, Logs
    <2>4. disk.status # "NONE"
      BY <1>3 DEF LabelSteps, Activate, Retry, End, CommitTransient, Renew, BlockedSave,
                  HolderInv, FlowInv
    <2>5. /\ SameBooks(disk', st) /\ disk'.day = st.day /\ disk'.status # "NONE"
      <3>1. CASE Activate
        <4>1. /\ SameBooks(disk', st) /\ SameMarks(disk', st) /\ disk'.status = st.status
          BY <2>1, <3>1, RowStarted DEF Activate, WorldOK
        <4>2. st.status = disk.status
          BY <3>1 DEF Activate, HolderInv, CopyInv
        <4>. QED BY <2>4, <4>1, <4>2 DEF SameMarks
      <3>2. CASE Retry
        <4>1. st.fails + 1 \in Nat
          BY <2>1 DEF Rows
        <4>2. disk' = [st EXCEPT !.fails = st.fails + 1] /\ st.status = disk.status
          BY <3>2 DEF Retry, HolderInv, CopyInv
        <4>. QED BY <2>1, <2>4, <4>1, <4>2, RowFailed, RowBooks
      <3>3. CASE End \/ CommitTransient
        <4>1. /\ End => disk' = [st EXCEPT !.status = "COMPLETE"]
              /\ CommitTransient => disk' = [st EXCEPT !.status = "RECONCILED"]
          BY DEF End, CommitTransient
        <4>2. disk' \in Rows /\ SameRow(disk', st) /\ disk'.status # "NONE"
          <5>1. CASE End
            <6>1. st \in Rows /\ disk' = [st EXCEPT !.status = "COMPLETE"]
              BY <2>1, <4>1, <5>1
            <6>. QED BY <6>1, RowLabelled
          <5>2. CASE CommitTransient
            <6>1. st \in Rows /\ disk' = [st EXCEPT !.status = "RECONCILED"]
              BY <2>1, <4>1, <5>2
            <6>. QED BY <6>1, RowLabelled
          <5>. QED BY <3>3, <5>1, <5>2
        <4>. QED BY <2>1, <4>2, RowBooks
      <3>4. CASE Renew
        <4>1. SameBooks(disk', st) /\ SameMarks(disk', st) /\ disk'.status = "RUNNING"
          BY <2>1, <3>4, RowStarted DEF Renew, WorldOK
        <4>. QED BY <4>1 DEF SameMarks
      <3>5. CASE BlockedSave
        BY <3>5 DEF BlockedSave, HolderInv, CopyInv, SameBooks
      <3>. QED BY <1>3, <3>1, <3>2, <3>3, <3>4, <3>5 DEF LabelSteps
    <2>. QED BY <2>2, <2>3, <2>4, <2>5 DEF Quiet, SameBooks
  <1>. QED BY <1>1, <1>2, <1>3

LEMMA QuietKeeps ==
    ASSUME Quiet
    PROVE  /\ Clean' <=> Clean
           /\ Doubled' <=> Doubled
           /\ SpaceInv => SpaceInv'
  <1>1. FilledIds' = FilledIds /\ Posted' = Posted /\ Executed' = Executed
    BY DEF Quiet, FilledIds, Posted, Executed
  <1>2. Logged' <=> Logged
    BY <1>1 DEF Quiet, SameBooks, Logged
  <1>3. Open' = Open
    BY <1>1 DEF Quiet, SameBooks, Open
  <1>4. FillAppliedOnce' <=> FillAppliedOnce
    BY DEF Quiet, FillAppliedOnce
  <1>5. Clean' <=> Clean
    BY <1>2, <1>3, <1>4 DEF Quiet, SameBooks, Clean
  <1>6. Doubled' <=> Doubled
    BY <1>2 DEF Quiet, SameBooks, Doubled, Matched, Matches
  <1>7. SpaceInv => SpaceInv'
    <2>1. ExecutionsSpaced' <=> ExecutionsSpaced
      BY <1>1 DEF Quiet, ExecutionsSpaced
    <2>2. \A t : RoomAt(t)' <=> RoomAt(t)
      BY <1>1 DEF Quiet, RoomAt
    <2>. QED BY <1>1, <1>5, <2>1, <2>2 DEF Quiet, SameBooks, SpaceInv, Due
  <1>. QED BY <1>5, <1>6, <1>7

----------------------------------------------------------------------------
(* Room for an execution *)

\* The values of a function are no more than its arguments.
LEMMA ImageSmall ==
    ASSUME NEW S, IsFiniteSet(S), NEW f, f = [x \in S |-> f[x]]
    PROVE  /\ IsFiniteSet({f[x] : x \in S})
           /\ Cardinality({f[x] : x \in S}) <= Cardinality(S)
  <1>. DEFINE T == {f[x] : x \in S}
  <1>1. f \in Surjection(S, T)
    BY DEF Surjection
  <1>. QED BY <1>1, FS_Surjection, Zenon

LEMMA FilledFinite ==
    ASSUME WorldOK
    PROVE  /\ Len(log.fills) \in Nat /\ DOMAIN log.fills = 1 .. Len(log.fills)
           /\ \A k \in DOMAIN log.fills : log.fills[k] \in Ids
           /\ IsFiniteSet(FilledIds) /\ Cardinality(FilledIds) \in Nat
           /\ Cardinality(FilledIds) <= Len(log.fills)
           /\ FilledIds \subseteq Ids
  <1>1. log.fills \in Seq(Ids)
    BY DEF WorldOK, Logs
  <1>2. /\ Len(log.fills) \in Nat /\ DOMAIN log.fills = 1 .. Len(log.fills)
        /\ \A k \in DOMAIN log.fills : log.fills[k] \in Ids
    BY <1>1
  <1>. DEFINE f == [k \in 1 .. Len(log.fills) |-> log.fills[k]]
              T == {f[k] : k \in 1 .. Len(log.fills)}
  <1>3. IsFiniteSet(1 .. Len(log.fills)) /\ Cardinality(1 .. Len(log.fills)) = Len(log.fills)
    <2>. DEFINE n == Len(log.fills)
    <2>1. n \in Nat /\ n \in Int /\ 1 \in Int
      BY <1>2
    <2>. HIDE DEF n
    <2>2. /\ IsFiniteSet(1 .. n)
          /\ Cardinality(1 .. n) = IF 1 > n THEN 0 ELSE n - 1 + 1
      BY <2>1, FS_Interval
    <2>3. Cardinality(1 .. n) = n
      BY <2>1, <2>2
    <2>. QED BY <2>2, <2>3 DEF n
  <1>4. IsFiniteSet(T) /\ Cardinality(T) <= Cardinality(1 .. Len(log.fills))
    BY <1>3, ImageSmall, Zenon
  <1>5. T = FilledIds
    BY <1>2 DEF FilledIds
  <1>6. Cardinality(FilledIds) \in Nat
    BY <1>4, <1>5, FS_CardinalityType
  <1>. QED BY <1>2, <1>3, <1>4, <1>5, <1>6 DEF FilledIds

\* What the row remembers of its day bounds what was executed on it.
LEMMA TimesCount ==
    ASSUME WorldOK, RowOK, NEW times, IsFiniteSet(times), NEW d,
           \A k \in DOMAIN log.fills :
               DayOf(fill[log.fills[k]].at) = d =>
                   [n |-> k, at |-> fill[log.fills[k]].at] \in times
    PROVE  /\ IsFiniteSet({j \in FilledIds : DayOf(fill[j].at) = d})
           /\ Cardinality({j \in FilledIds : DayOf(fill[j].at) = d}) <= Cardinality(times)
  <1>. DEFINE S == {t \in times : t.n \in DOMAIN log.fills}
              f == [t \in S |-> log.fills[t.n]]
              T == {f[t] : t \in S}
              D == {j \in FilledIds : DayOf(fill[j].at) = d}
  <1>1. IsFiniteSet(S) /\ Cardinality(S) <= Cardinality(times) /\ Cardinality(S) \in Nat
        /\ Cardinality(times) \in Nat
    <2>1. S \in SUBSET times
      OBVIOUS
    <2>. QED BY <2>1, FS_Subset, FS_CardinalityType, Zenon
  <1>2. IsFiniteSet(T) /\ Cardinality(T) <= Cardinality(S) /\ Cardinality(T) \in Nat
    <2>1. IsFiniteSet(T) /\ Cardinality(T) <= Cardinality(S)
      BY <1>1, ImageSmall, Zenon
    <2>. QED BY <2>1, FS_CardinalityType
  <1>3. D \in SUBSET T
    <2>. SUFFICES ASSUME NEW j \in D PROVE j \in T
      BY Zenon
    <2>1. PICK k \in DOMAIN log.fills : j = log.fills[k]
      BY DEF FilledIds
    <2>. DEFINE t == [n |-> k, at |-> fill[log.fills[k]].at]
    <2>2. t \in times
      BY <2>1
    <2>3. t.n = k
      OBVIOUS
    <2>4. t \in S /\ f[t] = j
      BY <2>1, <2>2, <2>3
    <2>. QED BY <2>4
  <1>4. IsFiniteSet(D) /\ Cardinality(D) <= Cardinality(T) /\ Cardinality(D) \in Nat
    BY <1>2, <1>3, FS_Subset, FS_CardinalityType, Zenon
  <1>5. Cardinality(D) <= Cardinality(times)
    BY <1>1, <1>2, <1>4
  <1>. QED BY <1>4, <1>5

\* The guard of the worker leaves room for one execution now.
LEMMA GuardLeavesRoom ==
    ASSUME RowOK, WorldOK, OrdersInv, SpaceInv, LossInv, Clean, UnderLimits(disk)
    PROVE  RoomAt(now)
  <1>1. /\ now \in Nat /\ disk.day \in Int /\ disk.day <= Today /\ Cooldown \in Nat
        /\ MaxTrades \in Nat /\ Today = DayOf(now) /\ DayOf(now) \in Int /\ disk.last \in Int
    BY SoakAssumption DEF WorldOK, RowOK, Rows, LossInv, Today, DayOf
  <1>2. \A k \in DOMAIN log.fills :
            DayOf(fill[log.fills[k]].at) = DayOf(now) =>
                [n |-> k, at |-> fill[log.fills[k]].at] \in disk.times
    BY <1>1 DEF SpaceInv
  <1>3. /\ IsFiniteSet({j \in FilledIds : DayOf(fill[j].at) = DayOf(now)})
        /\ Cardinality({j \in FilledIds : DayOf(fill[j].at) = DayOf(now)})
               <= Cardinality(disk.times)
    BY <1>2, TimesCount DEF RowOK
  <1>4. Cardinality({j \in FilledIds : DayOf(fill[j].at) = DayOf(now)}) < MaxTrades
    <2>1. /\ Cardinality({j \in FilledIds : DayOf(fill[j].at) = DayOf(now)}) \in Nat
          /\ Cardinality(disk.times) \in Nat
      BY <1>3, FS_CardinalityType DEF RowOK
    <2>2. Cardinality(disk.times) < MaxTrades
      BY DEF UnderLimits
    <2>. QED BY <1>1, <1>3, <2>1, <2>2
  <1>5. \A j \in FilledIds : now - fill[j].at >= Cooldown
    <2>. SUFFICES ASSUME NEW j \in FilledIds PROVE now - fill[j].at >= Cooldown
      OBVIOUS
    <2>1. fill[j].at \in Nat /\ fill[j].at <= disk.last
      BY FilledFinite DEF SpaceInv, WorldOK, Fills
    <2>2. now - disk.last >= Cooldown
      BY <1>1, <2>1 DEF UnderLimits
    <2>. QED BY <1>1, <2>1, <2>2
  <1>. QED BY <1>4, <1>5 DEF RoomAt

\* Room now is room at any later time.
LEMMA RoomStays ==
    ASSUME WorldOK, OrdersInv, RoomAt(now), NEW t \in Nat, now <= t
    PROVE  RoomAt(t)
  <1>1. /\ now \in Nat /\ Cooldown \in Nat /\ MaxTrades \in Nat /\ DayLen \in Nat \ {0}
        /\ \A j \in FilledIds : fill[j].at \in Nat /\ fill[j].at <= now
    BY SoakAssumption, FilledFinite DEF WorldOK, Fills, OrdersInv, OrderInv
  <1>2. \A j \in FilledIds : t - fill[j].at >= Cooldown
    BY <1>1 DEF RoomAt
  <1>3. Cardinality({j \in FilledIds : DayOf(fill[j].at) = DayOf(t)}) < MaxTrades
    <2>1. CASE DayOf(t) = DayOf(now)
      BY <2>1 DEF RoomAt
    <2>2. CASE DayOf(t) # DayOf(now)
      <3>1. DayOf(now) <= DayOf(t) /\ \A j \in FilledIds : DayOf(fill[j].at) <= DayOf(now)
        BY <1>1 DEF DayOf
      <3>2. \A j \in FilledIds : DayOf(fill[j].at) # DayOf(t)
        BY <1>1, <2>2, <3>1 DEF DayOf
      <3>3. {j \in FilledIds : DayOf(fill[j].at) = DayOf(t)} = {}
        BY <3>2
      <3>4. Cardinality({j \in FilledIds : DayOf(fill[j].at) = DayOf(now)}) \in Nat
        <4>1. {j \in FilledIds : DayOf(fill[j].at) = DayOf(now)} \in SUBSET FilledIds
          OBVIOUS
        <4>. QED BY <4>1, FilledFinite, FS_Subset, FS_CardinalityType, Zenon
      <3>. QED BY <1>1, <3>3, <3>4, FS_EmptySet DEF RoomAt
    <2>. QED BY <2>1, <2>2
  <1>. QED BY <1>2, <1>3 DEF RoomAt

----------------------------------------------------------------------------
(* The ledger, the log and the account from step to step *)

LEMMA SpacedStays ==
    ASSUME UNCHANGED <<posts, ex, fill>>
    PROVE  ExecutionsSpaced' <=> ExecutionsSpaced
  <1>1. Executed' = Executed
    BY DEF Executed, Posted
  <1>. QED BY <1>1 DEF ExecutionsSpaced

\* A lost fill stays lost: only a run that is stopped at once may begin.
LEMMA LostStays ==
    ASSUME RowOK, WorldOK, HolderInv, Lost, SpaceInv, Next, RowOK', WorldOK'
    PROVE  Lost' /\ SpaceInv'
  <1>1. /\ disk.status = "BLOCKED" /\ disk.error = "Other" /\ killed
        /\ disk.pending = 0 /\ disk.orders > Len(log.fills)
        /\ pc \in {"idle", "start", "blocked", "blockedsave"}
        /\ pc \in {"blocked", "blockedsave"} => err = "Other"
        /\ \A i \in Ids : ex[i] # "transit"
        /\ Same
    BY DEF Lost
  <1>2. /\ pc # "blockedsave" => st.status = "BLOCKED"
        /\ pc = "blockedsave" => st.status = "BLOCKED" /\ st.error = "Other"
    BY <1>1 DEF HolderInv, CopyInv
  <1>3. BeginRun \/ Stopped \/ Block \/ BlockedSave \/ Stop \/ Crash \/ Tick
    <2>1. CASE BeginRun \/ Worker
      <3>1. CASE pc = "idle" \/ pc = "blocked" \/ pc = "blockedsave"
        BY <2>1, <3>1
           DEF Worker, Stopped, Start, StartRefused, Restart, Activate, Loop, WindowOver, End,
               Settle, SettleRefused, SaveFill, Unsaved, FundsMatch, ReadRefused, Hold,
               Intend, Trade, Evaluate, Wake, IntentUnsaved, Claim, NotSent,
               ClockUnread, Send, Replied, Rejected, QueryFound, QueryFails, Retry, GiveUp
      <3>2. CASE pc = "start"
        BY <1>1, <2>1, <3>2
           DEF Worker, Start, StartRefused, Restart, Activate, Loop, WindowOver, End,
               Settle, SettleRefused, SaveFill, Unsaved, FundsMatch, ReadRefused, Hold,
               Intend, Trade, Evaluate, Wake, IntentUnsaved, Claim, NotSent,
               ClockUnread, Send, Replied, Rejected, QueryFound, QueryFails, Retry, GiveUp
      <3>. QED BY <1>1, <3>1, <3>2
    <2>2. ~Recovery
      BY <1>1 DEF Recovery, BeginRecoverTransient, CommitTransient, BeginRecoverPending,
                  RecoverFound, CommitPending, BeginResume, Renew, Resume, BeginRecoverRead,
                  ClearFault, Abandon
    <2>3. CASE Environment
      BY <1>1, <2>3 DEF Environment, Execute, Refuse
    <2>. QED BY <2>1, <2>2, <2>3 DEF Next
  <1>4. /\ ex' = ex /\ posts' = posts /\ fill' = fill /\ log'.fills = log.fills
    BY <1>3 DEF BeginRun, Begin, Stopped, Block, BlockedSave, Stop, Crash, Tick, Unchanged,
                exchange, LogBlocked, WorldOK, Logs
  <1>5. Lost' => SpaceInv'
    <2>1. ExecutionsSpaced'
      BY <1>4, SpacedStays DEF SpaceInv
    <2>2. Len(log.fills) \in Nat /\ disk'.orders \in Nat
      BY FilledFinite DEF RowOK, Rows
    <2>3. Lost' => ~Clean'
      BY <1>4, <2>2 DEF Lost, Clean, Logged
    <2>. QED BY <2>1, <2>3 DEF SpaceInv
  <1>6. CASE BeginRun \/ Stopped \/ Stop \/ Crash \/ Tick
    <2>1. /\ disk' = disk /\ killed' /\ st' \in {st, disk}
          /\ pc' \in {"idle", "start", "blocked", "blockedsave"}
          /\ pc' \in {"blocked", "blockedsave"} => err' = "Other"
      BY <1>1, <1>6 DEF BeginRun, Begin, Stopped, Stop, Crash, Tick, Unchanged, Leave, process
    <2>2. Same'
      BY <1>1, <2>1 DEF Same, SameRow
    <2>. QED BY <1>1, <1>4, <1>5, <2>1, <2>2 DEF Lost
  <1>7. CASE Block
    <2>1. /\ disk' = disk /\ killed' /\ pc' = "blockedsave" /\ err' = err /\ pc = "blocked"
          /\ st' = [st EXCEPT !.status = "BLOCKED", !.error = err]
      BY <1>2, <1>7 DEF Block, Continue
    <2>2. st \in Rows /\ err \in Errors
      BY DEF HolderInv, HolderOK
    <2>3. SameRow(st', st)
      BY <2>1, <2>2, RowBlocked DEF Errors
    <2>4. Same'
      BY <1>1, <2>1, <2>3 DEF Same, SameRow
    <2>. QED BY <1>1, <1>4, <1>5, <2>1, <2>4 DEF Lost
  <1>8. CASE BlockedSave
    <2>1. /\ disk' = st /\ killed' /\ pc' = "idle" /\ st' = disk' /\ pc = "blockedsave"
      BY <1>1, <1>8 DEF BlockedSave, Leave
    <2>2. st.pending = disk.pending /\ st.orders = disk.orders
      BY <1>1 DEF Same, SameRow
    <2>3. Same'
      BY <2>1, SameIsSame DEF Same
    <2>. QED BY <1>1, <1>2, <1>4, <1>5, <2>1, <2>2, <2>3 DEF Lost
  <1>. QED BY <1>3, <1>6, <1>7, <1>8

\* Where the ledger explains the account, no fill was booked twice.
LEMMA MatchedIsClean ==
    ASSUME PhaseInv, Matched, ~Lost PROVE Clean
  BY DEF PhaseInv, Doubled

LEMMA BeforeAnOrder ==
    ASSUME HolderInv, PhaseInv, pc \in {"decide", "order", "place", "send"}
    PROVE  Clean /\ AllLogged /\ Matched /\ Same /\ disk.status # "NONE"
  <1>1. AllLogged /\ Matched /\ Same /\ disk.status # "NONE" /\ ~Lost
    BY DEF HolderInv, FlowInv, CopyInv, Lost
  <1>. QED BY <1>1, MatchedIsClean

\* The account is bound before anything was ever sent.
LEMMA StartLedger ==
    ASSUME RowOK, WorldOK, OrdersInv, HolderInv, PhaseInv, SpaceInv, ~Lost, Start
    PROVE  Clean' /\ SpaceInv'
  <1>1. /\ disk' = [st EXCEPT !.status = "RUNNING", !.base = funds] /\ log' = log
        /\ UNCHANGED <<ex, fill, funds, posts, now>> /\ pc' = "policy" /\ pc = "start"
        /\ st.status = "NONE"
    BY DEF Start, exchange, Continue
  <1>2. /\ Same /\ st \in Rows /\ disk.status = "NONE"
    BY <1>1 DEF HolderInv, HolderOK, CopyInv
  <1>3. /\ disk.pending = 0 /\ disk.orders = 0 /\ SubmittedIds = {}
        /\ disk.cash = Capital /\ disk.btc = 0
    BY <1>2 DEF HolderInv, StatusInv
  <1>4. Posted = {} /\ Posted' = {}
    BY <1>1, <1>3, PostedSubmitted DEF Posted
  <1>5. Len(log.fills) = 0 /\ DOMAIN log.fills = {} /\ FilledIds = {}
    <2>1. Len(log.fills) = 0
      BY <1>3 DEF PhaseInv, Clean, Doubled, Logged
    <2>. QED BY <2>1, FilledFinite DEF FilledIds
  <1>6. /\ disk'.pending = 0 /\ disk'.orders = 0 /\ disk'.cash = Capital /\ disk'.btc = 0
        /\ disk'.base = funds
    BY <1>1, <1>2, <1>3 DEF Same, SameRow, Rows
  <1>7. Clean'
    <2>1. Capital \in Nat /\ funds.cash \in Int /\ funds.btc \in Int /\ Open' = NoFill
      BY <1>6, SoakAssumption DEF WorldOK, Money, Open
    <2>. QED BY <1>1, <1>4, <1>5, <1>6, <2>1 DEF Clean, Logged, FillAppliedOnce, NoFill
  <1>8. SpaceInv'
    <2>1. FilledIds' = {}
      BY <1>1, <1>5 DEF FilledIds
    <2>2. ExecutionsSpaced'
      BY <1>1, SpacedStays DEF SpaceInv
    <2>. QED BY <1>1, <1>5, <1>6, <2>1, <2>2 DEF SpaceInv
  <1>. QED BY <1>7, <1>8

\* An evaluation forgets the executions of earlier days only.
LEMMA EvaluateLedger ==
    ASSUME RowOK, WorldOK, OrdersInv, HolderInv, PhaseInv, SpaceInv, LossInv, EvaluateSteps
    PROVE  Clean' /\ SpaceInv'
  <1>1. PICK p \in Prices : \/ Hold(p)
                            \/ \E side \in Sides, amount \in Amounts : Trade(p, side, amount)
    BY DEF EvaluateSteps
  <1>. DEFINE e == Evaluated(st, p)
  <1>2. /\ log' = log /\ UNCHANGED <<ex, fill, funds, posts, now>> /\ pc = "decide" /\ disk' = e
        /\ pc' \in {"sleep", "order"}
    BY <1>1 DEF Hold, Trade, Evaluate, exchange, Continue
  <1>3. Clean /\ AllLogged /\ Same /\ disk.status # "NONE" /\ st \in Rows
    BY <1>2, BeforeAnOrder DEF HolderInv, HolderOK
  <1>4. /\ st.pending = disk.pending /\ st.orders = disk.orders /\ st.cash = disk.cash
        /\ st.btc = disk.btc /\ st.base = disk.base /\ st.times = disk.times
        /\ st.last = disk.last
    BY <1>3 DEF Same, SameRow
  <1>5. disk.pending = 0
    BY <1>2 DEF HolderInv, FlowInv
  <1>6. /\ e.cash = disk.cash /\ e.btc = disk.btc /\ e.base = disk.base
        /\ e.pending = 0 /\ e.orders = disk.orders /\ e.last = disk.last
        /\ e.day = Today /\ e.times = {t \in disk.times : DayOf(t.at) = Today}
    BY <1>3, <1>4, <1>5, CopyFinite, RowEvaluated DEF WorldOK
  <1>. HIDE DEF e
  <1>7. FilledIds' = FilledIds /\ Posted' = Posted
    BY <1>2 DEF FilledIds, Posted
  <1>8. Clean'
    <2>1. Open' = Open /\ Logged' /\ FillAppliedOnce'
      BY <1>2, <1>3, <1>5, <1>6, <1>7 DEF Clean, Open, Logged, FillAppliedOnce
    <2>. QED BY <1>2, <1>3, <1>6, <2>1 DEF Clean
  <1>9. \A k \in DOMAIN log.fills :
           DayOf(fill[log.fills[k]].at) >= Today =>
               [n |-> k, at |-> fill[log.fills[k]].at] \in e.times
    <2>. SUFFICES ASSUME NEW k \in DOMAIN log.fills, DayOf(fill[log.fills[k]].at) >= Today
                  PROVE  [n |-> k, at |-> fill[log.fills[k]].at] \in e.times
      OBVIOUS
    <2>. DEFINE at == fill[log.fills[k]].at
    <2>1. at \in Nat /\ at <= now /\ now \in Nat /\ DayLen \in Nat \ {0}
          /\ disk.day \in Int /\ disk.day <= Today
      BY SoakAssumption, FilledFinite
         DEF WorldOK, Fills, OrdersInv, OrderInv, LossInv, RowOK, Rows
    <2>2. DayOf(at) <= Today /\ DayOf(at) \in Int /\ Today \in Int
      BY <2>1 DEF DayOf, Today
    <2>3. [n |-> k, at |-> at] \in disk.times
      BY <1>3, <2>1, <2>2 DEF SpaceInv
    <2>4. DayOf(at) = Today
      BY <2>2
    <2>. QED BY <1>6, <2>3, <2>4
  <1>10. SpaceInv'
    <2>1. ExecutionsSpaced'
      BY <1>2, SpacedStays DEF SpaceInv
    <2>2. \A j \in FilledIds : fill[j].at <= disk.last
      BY <1>3 DEF SpaceInv
    <2>. QED BY <1>2, <1>6, <1>7, <1>9, <2>1, <2>2 DEF SpaceInv
  <1>. QED BY <1>8, <1>10

\* The row names an order nothing was sent for.
LEMMA NamedLedger ==
    ASSUME RowOK, WorldOK, OrdersInv, Clean, AllLogged, SpaceInv, disk.status # "NONE",
           NEW i \in Ids, disk.pending = 0, disk'.pending = i,
           disk'.base = disk.base, disk'.cash = disk.cash, disk'.btc = disk.btc,
           disk'.orders = disk.orders, disk'.times = disk.times, disk'.last = disk.last,
           disk'.day = disk.day, log'.fills = log.fills,
           UNCHANGED <<ex, fill, funds, posts, now>>,
           pc' \in {"place", "send"} => RoomAt(now)
    PROVE  Clean' /\ SpaceInv'
  <1>1. FilledIds' = FilledIds /\ Posted' = Posted /\ i # 0
    BY DEF FilledIds, Posted, Ids
  <1>2. Open = NoFill /\ Open' = NoFill
    <2>1. i \notin FilledIds => fill[i] = NoFill
      BY DEF AllLogged, Posted, OrdersInv, OrderInv, WorldOK
    <2>. QED BY <1>1, <2>1 DEF Open
  <1>3. Clean'
    <2>1. Logged' /\ FillAppliedOnce'
      BY <1>1 DEF Clean, Logged, AllLogged, FillAppliedOnce
    <2>. QED BY <1>2, <2>1 DEF Clean
  <1>4. SpaceInv'
    <2>1. ExecutionsSpaced'
      BY SpacedStays DEF SpaceInv
    <2>2. disk'.pending \notin FilledIds' =>
            /\ ~(posts'[disk'.pending] > 0)
            /\ pc' \in {"place", "send"} => RoomAt(Due(i))'
      <3>. SUFFICES ASSUME i \notin FilledIds
                    PROVE  /\ ~(posts[i] > 0)
                           /\ pc' \in {"place", "send"} => RoomAt(Due(i))'
        BY <1>1
      <3>1. ~(posts[i] > 0) /\ ex[i] = "absent"
        BY DEF AllLogged, Posted, OrdersInv, OrderInv, WorldOK
      <3>2. Due(i)' = now
        BY <3>1 DEF Due
      <3>3. RoomAt(now)' <=> RoomAt(now)
        BY <1>1 DEF RoomAt
      <3>. QED BY <1>1, <3>1, <3>2, <3>3 DEF RoomAt
    <2>. QED BY <1>1, <2>1, <2>2 DEF SpaceInv, Clean
  <1>. QED BY <1>3, <1>4

LEMMA IntendLedger ==
    ASSUME RowOK, WorldOK, OrdersInv, HolderInv, PhaseInv, SpaceInv, LossInv, IntendSteps
    PROVE  Clean' /\ SpaceInv'
  <1>1. PICK p \in Prices : Intend(p)
    BY DEF IntendSteps
  <1>2. /\ log' = log /\ UNCHANGED <<ex, fill, funds, posts, now>> /\ pc = "order"
        /\ disk' = [st EXCEPT !.pending = st.cycles]
        /\ UnderLimits(st)
    BY <1>1 DEF Intend, Guard, exchange
  <1>3. Clean /\ AllLogged /\ Same /\ disk.status # "NONE" /\ st \in Rows /\ disk.pending = 0
        /\ disk.cycles # 0
    BY <1>2, BeforeAnOrder DEF HolderInv, HolderOK, FlowInv
  <1>4. /\ st.orders = disk.orders /\ st.cash = disk.cash /\ st.btc = disk.btc
        /\ st.base = disk.base /\ st.times = disk.times /\ st.last = disk.last
        /\ st.day = disk.day /\ st.cycles = disk.cycles
    BY <1>3 DEF Same, SameRow
  <1>5. RoomAt(now)
    <2>1. UnderLimits(disk)
      BY <1>2, <1>4 DEF UnderLimits
    <2>. QED BY <1>3, <2>1, GuardLeavesRoom
  <1>6. disk'.pending = st.cycles /\ st.cycles \in Ids
    BY <1>2, <1>3, <1>4, RowIntent
  <1>7. /\ disk'.orders = disk.orders /\ disk'.cash = disk.cash /\ disk'.btc = disk.btc
        /\ disk'.base = disk.base /\ disk'.times = disk.times /\ disk'.last = disk.last
        /\ disk'.day = disk.day
    BY <1>2, <1>3, <1>4 DEF Rows
  <1>. QED BY <1>2, <1>3, <1>5, <1>6, <1>7, NamedLedger

\* A fill is booked and logged in one save: for the first time ...
LEMMA FillLedger ==
    ASSUME RowOK, WorldOK, OrdersInv, HolderInv, PhaseInv, SpaceInv, FillSteps
    PROVE  (Clean' \/ Doubled') /\ SpaceInv'
  <1>. DEFINE i == disk.pending
              n == Len(log.fills)
  <1>1. /\ disk' = st /\ log'.fills = Append(log.fills, i) /\ pc \in {"fillsave", "rpcheck"}
        /\ UNCHANGED <<ex, fill, funds, posts, now>>
        /\ pc' \notin {"place", "send"}
    BY DEF FillSteps, SaveFill, CommitPending, LogFill, exchange, Continue, Leave, WorldOK, Logs
  <1>2. BookedCopy
    BY <1>1 DEF HolderInv, CopyInv
  <1>3. i \in Ids /\ i # 0 /\ ex[i] = "filled"
    BY <1>2 DEF BookedCopy, RowOK, Rows
  <1>4. /\ st.cash = disk.cash + fill[i].cash /\ st.btc = disk.btc + fill[i].btc
        /\ st.pending = 0 /\ st.orders = disk.orders + 1 /\ st.last = fill[i].at
        /\ st.times = disk.times \cup {[n |-> disk.orders + 1, at |-> fill[i].at]}
        /\ st.base = disk.base /\ st.day = disk.day
    BY <1>2, <1>3, RowBooked DEF BookedCopy, RowOK, WorldOK, SameRow, SameMarks
  <1>5. Clean /\ disk.orders = n /\ disk.status # "NONE"
    BY <1>1, <1>3 DEF PhaseInv, Doubled, Lost, HolderInv, FlowInv, Clean, Logged
  <1>6. /\ FilledIds' = FilledIds \cup {i} /\ Posted' = Posted
        /\ n \in Nat /\ Len(log'.fills) = n + 1
        /\ DOMAIN log'.fills = 1 .. n + 1 /\ DOMAIN log.fills = 1 .. n
        /\ \A k \in DOMAIN log.fills : log'.fills[k] = log.fills[k]
        /\ log'.fills[n + 1] = i
    BY <1>1, <1>3, FilledAppend DEF Posted
  <1>7. Logged'
    BY <1>1, <1>4, <1>5, <1>6 DEF Clean, Logged
  <1>8. /\ fill[i].cash \in Int /\ fill[i].btc \in Int /\ fill[i].at \in Nat /\ fill[i].btc # 0
        /\ disk.cash \in Int /\ disk.btc \in Int /\ disk.base.cash \in Int /\ disk.base.btc \in Int
        /\ funds.cash \in Int /\ funds.btc \in Int /\ Capital \in Nat
    BY <1>3, SoakAssumption DEF WorldOK, Fills, OrdersInv, OrderInv, RowOK, Rows, Money
  <1>9. ExecutionsSpaced'
    BY <1>1, SpacedStays DEF SpaceInv
  <1>10. CASE i \notin FilledIds
    <2>1. Open = fill[i] /\ Open' = NoFill
      BY <1>1, <1>3, <1>4, <1>10 DEF Open
    <2>2. FillAppliedOnce'
      <3>. SUFFICES ASSUME NEW j \in 1 .. n + 1, NEW k \in 1 .. n + 1,
                           log'.fills[j] = log'.fills[k]
                    PROVE  j = k
        BY <1>6 DEF FillAppliedOnce
      <3>1. \A l \in 1 .. n : log.fills[l] # i
        BY <1>6, <1>10 DEF FilledIds
      <3>2. \A a \in 1 .. n, b \in 1 .. n : log.fills[a] = log.fills[b] => a = b
        BY <1>5, <1>6 DEF Clean, FillAppliedOnce
      <3>3. \A a \in 1 .. n + 1 : a # n + 1 => a \in 1 .. n /\ log'.fills[a] = log.fills[a]
        BY <1>6
      <3>4. CASE j = n + 1 \/ k = n + 1
        BY <1>6, <3>1, <3>3, <3>4
      <3>5. CASE j # n + 1 /\ k # n + 1
        BY <3>2, <3>3, <3>5
      <3>. QED BY <3>4, <3>5
    <2>3. Clean'
      <3>1. /\ funds.cash = disk.base.cash + disk.cash - Capital + fill[i].cash
            /\ funds.btc = disk.base.btc + disk.btc + fill[i].btc
        BY <1>5, <2>1 DEF Clean
      <3>2. /\ funds.cash = st.base.cash + st.cash - Capital + NoFill.cash
            /\ funds.btc = st.base.btc + st.btc + NoFill.btc
        BY <1>4, <1>8, <3>1 DEF NoFill
      <3>3. funds' = funds
        BY <1>1
      <3>. QED BY <1>1, <1>7, <2>1, <2>2, <3>2, <3>3 DEF Clean
    <2>4. RoomAt(fill[i].at)
      <3>1. posts[i] > 0
        BY <1>3 DEF OrdersInv, OrderInv, WorldOK
      <3>. QED BY <1>3, <1>5, <1>10, <3>1 DEF SpaceInv, Due
    <2>5. \A j \in FilledIds : fill[j].at <= fill[i].at
      <3>1. Cooldown \in Nat /\ \A j \in FilledIds : fill[j].at \in Nat
        BY SoakAssumption, FilledFinite DEF WorldOK, Fills
      <3>. QED BY <1>8, <2>4, <3>1 DEF RoomAt
    <2>6. \A k \in 1 .. n + 1 :
             DayOf(fill[log'.fills[k]].at) >= disk.day =>
                 [n |-> k, at |-> fill[log'.fills[k]].at] \in st.times
      <3>. SUFFICES ASSUME NEW k \in 1 .. n + 1, DayOf(fill[log'.fills[k]].at) >= disk.day
                    PROVE  [n |-> k, at |-> fill[log'.fills[k]].at] \in st.times
        OBVIOUS
      <3>1. CASE k = n + 1
        BY <1>4, <1>5, <1>6, <3>1
      <3>2. CASE k # n + 1
        <4>1. k \in DOMAIN log.fills /\ log'.fills[k] = log.fills[k]
          BY <1>6, <3>2
        <4>2. [n |-> k, at |-> fill[log.fills[k]].at] \in disk.times
          BY <1>5, <4>1 DEF SpaceInv
        <4>. QED BY <1>4, <4>1, <4>2
      <3>. QED BY <3>1, <3>2
    <2>7. \A j \in FilledIds' : fill[j].at <= fill[i].at
      BY <1>6, <1>8, <2>5
    <2>. QED BY <1>1, <1>4, <1>6, <1>9, <2>3, <2>6, <2>7 DEF SpaceInv
  \* ... or, under an order number used before, once more.
  <1>11. CASE i \in FilledIds
    <2>1. Open = NoFill
      BY <1>11 DEF Open
    <2>2. funds.btc = disk.base.btc + disk.btc
      BY <1>5, <1>8, <2>1 DEF Clean, NoFill
    <2>3. ~Matched'
      <3>1. funds.btc # st.base.btc + st.btc
        BY <1>4, <1>8, <2>2
      <3>2. funds' = funds
        BY <1>1
      <3>. QED BY <1>1, <3>1, <3>2 DEF Matched, Matches
    <2>4. Doubled'
      BY <1>1, <1>4, <1>7, <2>3 DEF Doubled
    <2>5. ~FillAppliedOnce'
      <3>1. PICK k \in DOMAIN log.fills : i = log.fills[k]
        BY <1>11 DEF FilledIds
      <3>2. k \in 1 .. n + 1 /\ n + 1 \in 1 .. n + 1 /\ k # n + 1
        BY <1>6, <3>1
      <3>. QED BY <1>6, <3>1, <3>2 DEF FillAppliedOnce
    <2>. QED BY <1>9, <2>4, <2>5 DEF SpaceInv, Clean
  <1>. QED BY <1>10, <1>11

\* The handler saves a fill without its event, an intent, or the row again.
LEMMA HandlerLedger ==
    ASSUME RowOK, WorldOK, OrdersInv, HolderInv, PhaseInv, SpaceInv, ~Lost, BlockedSave,
           RowOK'
    PROVE  PhaseInv' /\ SpaceInv'
  <1>1. /\ disk' = st /\ log'.fills = log.fills /\ pc = "blockedsave" /\ Leave
        /\ UNCHANGED <<ex, fill, funds, posts, now>> /\ killed' = killed
        /\ pc' = "idle" /\ st' = disk'
    BY DEF BlockedSave, LogBlocked, Leave, exchange, WorldOK, Logs
  <1>2. /\ killed /\ st.status = "BLOCKED" /\ st.error = err /\ disk.status # "NONE"
        /\ Same \/ (err = "Other" /\ (BookedCopy \/ IntentCopy))
    BY <1>1 DEF HolderInv, CopyInv, FlowInv
  <1>3. CASE Same
    <2>1. Quiet
      BY <1>3, QuietSteps
    <2>. QED BY <2>1, QuietKeeps DEF PhaseInv
  <1>4. CASE err = "Other" /\ BookedCopy
    <2>. DEFINE i == disk.pending
    <2>1. i \in Ids /\ i # 0 /\ ex[i] = "filled"
      BY <1>4 DEF BookedCopy, RowOK, Rows
    <2>2. st.pending = 0 /\ st.orders = disk.orders + 1
      BY <1>4, <2>1, RowBooked DEF BookedCopy, RowOK, WorldOK, SameRow
    <2>3. Logged /\ disk.orders \in Nat /\ Len(log.fills) \in Nat
      BY FilledFinite DEF PhaseInv, Clean, Doubled, RowOK, Rows
    <2>4. \A j \in Ids : ex[j] # "transit"
      BY <2>1, <2>3 DEF Logged, Posted, OrdersInv, OrderInv, WorldOK
    <2>5. Lost'
      <3>1. Same'
        BY <1>1, SameIsSame DEF Same
      <3>. QED BY <1>1, <1>2, <1>4, <2>2, <2>3, <2>4, <3>1 DEF Lost, Logged
    <2>6. ~Clean'
      BY <1>1, <2>2, <2>3 DEF Clean, Logged
    <2>7. ExecutionsSpaced'
      BY <1>1, SpacedStays DEF SpaceInv
    <2>. QED BY <2>5, <2>6, <2>7 DEF PhaseInv, SpaceInv
  <1>5. CASE ~Same /\ IntentCopy
    <2>1. /\ disk.pending = 0 /\ AllLogged /\ Matched
          /\ SameRow(st, [disk EXCEPT !.pending = disk.cycles])
      BY <1>5 DEF IntentCopy
    <2>2. /\ st.pending = disk.cycles
          /\ st.orders = disk.orders /\ st.cash = disk.cash /\ st.btc = disk.btc
          /\ st.base = disk.base /\ st.times = disk.times /\ st.last = disk.last
          /\ st.day = disk.day
      BY <2>1 DEF SameRow, RowOK, Rows
    <2>3. disk.cycles \in Ids
      <3>1. disk.cycles # 0
        BY <1>5, <2>1 DEF Same, SameRow, RowOK, Rows
      <3>2. MaxCycles \in Nat
        BY SoakAssumption
      <3>. QED BY <3>1, <3>2 DEF RowOK, Rows, Ids
    <2>4. Clean
      BY <2>1, MatchedIsClean
    <2>. QED BY <1>1, <1>2, <2>1, <2>2, <2>3, <2>4, NamedLedger DEF PhaseInv
  <1>. QED BY <1>2, <1>3, <1>4, <1>5

\* The request leaves where there is room for its execution.
LEMMA SendLedger ==
    ASSUME RowOK, WorldOK, OrdersInv, HolderInv, PhaseInv, SpaceInv, Send
    PROVE  Clean' /\ SpaceInv'
  <1>. DEFINE i == disk.pending
  <1>1. Clean /\ AllLogged /\ Same /\ disk.status # "NONE"
    BY BeforeAnOrder DEF Send
  <1>2. st.pending = i /\ i \in Ids /\ i # 0 /\ posts[i] = 0
    BY <1>1 DEF Send, Same, SameRow, HolderInv, FlowInv, RowOK, Rows
  <1>3. /\ disk' = disk /\ log' = log /\ fill' = fill /\ funds' = funds /\ now' = now
        /\ posts' = [posts EXCEPT ![i] = 1] /\ ex' = [ex EXCEPT ![i] = "transit"]
        /\ pc = "send" /\ pc' = "await"
    BY <1>2 DEF Send, Continue
  <1>4. ex[i] = "absent" /\ i \notin FilledIds
    BY <1>2 DEF OrdersInv, OrderInv, WorldOK
  <1>5. FilledIds' = FilledIds /\ Posted' \subseteq Posted \cup {i} /\ Executed' = Executed
    <2>1. FilledIds' = FilledIds
      BY <1>3 DEF FilledIds
    <2>2. Posted' \subseteq Posted \cup {i}
      BY <1>3 DEF Posted, WorldOK
    <2>3. Executed' = Executed
      BY <1>2, <1>3, <1>4 DEF Executed, Posted, WorldOK
    <2>. QED BY <2>1, <2>2, <2>3
  <1>6. Clean'
    <2>1. Logged'
      BY <1>1, <1>3, <1>5 DEF Clean, Logged
    <2>2. Open' = Open /\ (FillAppliedOnce' <=> FillAppliedOnce)
      BY <1>3, <1>5 DEF Open, FillAppliedOnce
    <2>. QED BY <1>1, <1>3, <2>1, <2>2 DEF Clean
  <1>7. ExecutionsSpaced'
    BY <1>3, <1>5 DEF SpaceInv, ExecutionsSpaced
  <1>8. RoomAt(Due(i))'
    <2>1. RoomAt(now)
      BY <1>1, <1>2, <1>3, <1>4 DEF SpaceInv, Due
    <2>2. Due(i)' = now
      BY <1>2, <1>3 DEF Due, WorldOK
    <2>. QED BY <1>3, <1>5, <2>1, <2>2 DEF RoomAt
  <1>. QED BY <1>1, <1>3, <1>5, <1>6, <1>7, <1>8 DEF SpaceInv

\* What is in transit is what the row names.
LEMMA InTransit ==
    ASSUME RowOK, WorldOK, OrdersInv, PhaseInv, NEW i \in Ids, ex[i] = "transit"
    PROVE  Clean /\ i = disk.pending /\ i # 0 /\ i \notin FilledIds /\ posts[i] > 0
           /\ Executed \subseteq FilledIds
  <1>1. posts[i] > 0 /\ i \notin FilledIds /\ i # 0
    BY DEF OrdersInv, OrderInv, WorldOK, Ids
  <1>2. ~Lost
    BY DEF Lost
  <1>3. i = disk.pending
    BY <1>1, <1>2 DEF PhaseInv, Clean, Doubled, Logged, Posted
  <1>4. Clean
    BY <1>1, <1>2, <1>3 DEF PhaseInv, Doubled
  <1>5. Executed \subseteq FilledIds
    BY <1>3, <1>4 DEF Executed, Clean, Logged
  <1>. QED BY <1>1, <1>3, <1>4, <1>5

\* The exchange executes the order the row names, and the account moves by its fill.
LEMMA ExecuteLedger ==
    ASSUME RowOK, WorldOK, OrdersInv, HolderInv, PhaseInv, SpaceInv, ExecuteSteps,
           WorldOK'
    PROVE  Clean' /\ SpaceInv'
  <1>1. PICK i \in Ids, p \in Prices : \E qty \in 0 .. journal[i].qty : Execute(i, p, qty)
    BY DEF ExecuteSteps
  <1>2. PICK qty \in 0 .. journal[i].qty : Execute(i, p, qty)
    BY <1>1
  <1>3. /\ disk' = disk /\ log' = log /\ posts' = posts /\ now' = now /\ pc' = pc
        /\ ex[i] = "transit" /\ ex'[i] \in {"filled", "odd"}
        /\ \A j \in Ids : j # i => ex'[j] = ex[j] /\ fill'[j] = fill[j]
        /\ fill'[i].at = now
        /\ funds'.cash = funds.cash + fill'[i].cash
        /\ funds'.btc = funds.btc + fill'[i].btc
    BY <1>2 DEF Execute, process, WorldOK
  <1>4. Clean /\ i = disk.pending /\ i # 0 /\ i \notin FilledIds /\ posts[i] > 0
        /\ Executed \subseteq FilledIds /\ fill[i] = NoFill /\ disk.status # "NONE"
    <2>1. fill[i] = NoFill
      BY <1>3 DEF OrdersInv, OrderInv
    <2>2. i = disk.pending /\ i # 0
      BY <1>3, InTransit
    <2>3. disk.status # "NONE"
      BY <2>2 DEF HolderInv, StatusInv
    <2>. QED BY <1>3, <2>1, <2>3, InTransit
  <1>5. FilledIds' = FilledIds /\ Posted' = Posted /\ Executed' = Executed \cup {i}
        /\ FilledIds \subseteq Ids
        /\ \A j \in FilledIds : fill'[j] = fill[j] /\ fill[j].at \in Nat /\ fill[j].at <= now
    <2>1. FilledIds' = FilledIds /\ Posted' = Posted /\ FilledIds \subseteq Ids
      BY <1>3, FilledFinite DEF FilledIds, Posted
    <2>2. Executed' = Executed \cup {i}
      BY <1>3, <1>4, <2>1 DEF Executed, Posted
    <2>3. \A j \in FilledIds : fill'[j] = fill[j] /\ fill[j].at \in Nat /\ fill[j].at <= now
      BY <1>3, <1>4, <2>1 DEF WorldOK, Fills, OrdersInv, OrderInv
    <2>. QED BY <2>1, <2>2, <2>3
  <1>6. Clean'
    <2>1. Logged' /\ FillAppliedOnce'
      BY <1>3, <1>4, <1>5 DEF Clean, Logged, FillAppliedOnce
    <2>2. Open = NoFill /\ Open' = fill'[i]
      BY <1>3, <1>4, <1>5 DEF Open
    <2>3. /\ funds.cash = disk.base.cash + disk.cash - Capital
          /\ funds.btc = disk.base.btc + disk.btc
      <3>1. /\ funds.cash \in Int /\ funds.btc \in Int /\ disk.base.cash \in Int
            /\ disk.base.btc \in Int /\ disk.cash \in Int /\ disk.btc \in Int /\ Capital \in Int
        BY SoakAssumption DEF WorldOK, RowOK, Rows, Money
      <3>. QED BY <1>4, <2>2, <3>1 DEF Clean, NoFill
    <2>4. /\ funds'.cash = disk'.base.cash + disk'.cash - Capital + Open'.cash
          /\ funds'.btc = disk'.base.btc + disk'.btc + Open'.btc
      BY <1>3, <2>2, <2>3
    <2>. QED BY <2>1, <2>4 DEF Clean
  <1>7. RoomAt(now)
    BY <1>3, <1>4 DEF SpaceInv, Due
  <1>8. ExecutionsSpaced'
    <2>1. MaxTrades \in Nat /\ Cooldown \in Nat /\ now \in Nat
      BY SoakAssumption DEF WorldOK
    <2>2. ASSUME NEW d \in 0 .. DayOf(MaxTime)
          PROVE  Cardinality({j \in Executed' : DayOf(fill'[j].at) = d}) <= MaxTrades
      <3>. DEFINE D == {j \in Executed' : DayOf(fill'[j].at) = d}
                  F == {j \in FilledIds : DayOf(fill[j].at) = DayOf(now)}
      <3>1. CASE d = DayOf(now)
        <4>1. IsFiniteSet(F) /\ Cardinality(F) \in Nat
          <5>1. F \in SUBSET FilledIds
            OBVIOUS
          <5>. QED BY <5>1, FilledFinite, FS_Subset, FS_CardinalityType, Zenon
        <4>2. IsFiniteSet(F \cup {i}) /\ Cardinality(F \cup {i}) = Cardinality(F) + 1
          <5>1. i \notin F
            BY <1>4
          <5>. QED BY <4>1, <5>1, FS_AddElement
        <4>3. D \in SUBSET (F \cup {i})
          BY <1>4, <1>5, <3>1
        <4>4. Cardinality(D) <= Cardinality(F \cup {i}) /\ IsFiniteSet(D)
          BY <4>2, <4>3, FS_Subset, Zenon
        <4>5. Cardinality(D) \in Nat
          BY <4>4, FS_CardinalityType
        <4>6. Cardinality(F) < MaxTrades
          BY <1>7 DEF RoomAt
        <4>. QED BY <2>1, <4>1, <4>2, <4>4, <4>5, <4>6
      <3>2. CASE d # DayOf(now)
        <4>1. D = {j \in Executed : DayOf(fill[j].at) = d}
          BY <1>3, <1>4, <1>5, <3>2
        <4>. QED BY <4>1 DEF SpaceInv, ExecutionsSpaced
      <3>. QED BY <3>1, <3>2
    <2>3. ASSUME NEW j \in Executed', NEW k \in Executed', j # k,
                 fill'[j].at <= fill'[k].at
          PROVE  fill'[k].at - fill'[j].at >= Cooldown
      <3>1. \A l \in FilledIds : now - fill[l].at >= Cooldown
        BY <1>7 DEF RoomAt
      <3>2. CASE k = i
        <4>1. j \in FilledIds
          BY <1>4, <1>5, <2>3, <3>2
        <4>. QED BY <1>3, <1>5, <3>1, <3>2, <4>1
      <3>3. CASE j = i
        <4>1. k \in FilledIds
          BY <1>4, <1>5, <2>3, <3>3
        <4>2. fill'[k].at = now
          BY <1>3, <1>5, <2>1, <2>3, <3>3, <4>1
        <4>. QED BY <1>3, <1>5, <2>1, <3>1, <3>3, <4>1, <4>2
      <3>4. CASE j # i /\ k # i
        <4>1. j \in Executed /\ k \in Executed /\ fill'[j] = fill[j] /\ fill'[k] = fill[k]
          BY <1>4, <1>5, <3>4
        <4>. QED BY <2>3, <4>1 DEF SpaceInv, ExecutionsSpaced
      <3>. QED BY <3>2, <3>3, <3>4
    <2>. QED BY <2>2, <2>3 DEF ExecutionsSpaced
  <1>9. RoomAt(Due(i))'
    <2>1. Due(i)' = now
      BY <1>3 DEF Due
    <2>2. {j \in FilledIds : DayOf(fill'[j].at) = DayOf(now)} =
              {j \in FilledIds : DayOf(fill[j].at) = DayOf(now)}
      BY <1>5
    <2>. QED BY <1>5, <1>7, <2>1, <2>2 DEF RoomAt
  <1>10. \A k \in DOMAIN log.fills : log.fills[k] \in FilledIds
    BY DEF FilledIds
  <1>. QED BY <1>3, <1>4, <1>5, <1>6, <1>8, <1>9, <1>10 DEF SpaceInv

LEMMA RefuseLedger ==
    ASSUME RowOK, WorldOK, OrdersInv, HolderInv, PhaseInv, SpaceInv, RefuseSteps
    PROVE  Clean' /\ SpaceInv'
  <1>1. PICK i \in Ids : Refuse(i)
    BY DEF RefuseSteps
  <1>2. /\ disk' = disk /\ log' = log /\ posts' = posts /\ now' = now /\ pc' = pc
        /\ fill' = fill /\ funds' = funds
        /\ ex[i] = "transit" /\ ex' = [ex EXCEPT ![i] = "refused"]
    BY <1>1 DEF Refuse, process
  <1>3. Clean /\ i = disk.pending /\ posts[i] > 0 /\ i \notin FilledIds /\ i # 0
    BY <1>2, InTransit
  <1>4. FilledIds' = FilledIds /\ Posted' = Posted /\ Executed' = Executed
    BY <1>2 DEF FilledIds, Posted, Executed, WorldOK
  <1>5. Clean'
    <2>1. Logged' /\ (FillAppliedOnce' <=> FillAppliedOnce) /\ Open' = Open
      BY <1>2, <1>3, <1>4 DEF Clean, Logged, FillAppliedOnce, Open
    <2>. QED BY <1>2, <1>3, <2>1 DEF Clean
  <1>6. ExecutionsSpaced'
    BY <1>2, <1>4 DEF SpaceInv, ExecutionsSpaced
  <1>7. RoomAt(Due(i))'
    <2>1. RoomAt(now) /\ Due(i)' = now
      BY <1>2, <1>3 DEF SpaceInv, Due, WorldOK
    <2>. QED BY <1>2, <1>4, <2>1 DEF RoomAt
  <1>. QED BY <1>2, <1>3, <1>4, <1>5, <1>6, <1>7 DEF SpaceInv

LEMMA TickLedger ==
    ASSUME RowOK, WorldOK, OrdersInv, HolderInv, PhaseInv, SpaceInv, ~Lost, Tick
    PROVE  PhaseInv' /\ SpaceInv'
  <1>1. /\ disk' = disk /\ log' = log /\ posts' = posts /\ pc' = pc /\ ex' = ex
        /\ fill' = fill /\ funds' = funds /\ now \in Nat /\ now' \in Nat /\ now <= now'
    BY DEF Tick, process, exchange, WorldOK
  <1>2. FilledIds' = FilledIds /\ Posted' = Posted
    BY <1>1 DEF FilledIds, Posted
  <1>3. (Clean' <=> Clean) /\ (Doubled' <=> Doubled)
    <2>1. (Logged' <=> Logged) /\ (FillAppliedOnce' <=> FillAppliedOnce) /\ Open' = Open
      BY <1>1, <1>2 DEF Logged, FillAppliedOnce, Open
    <2>. QED BY <1>1, <2>1 DEF Clean, Doubled, Matched, Matches
  <1>4. ExecutionsSpaced'
    BY <1>1, SpacedStays DEF SpaceInv
  <1>5. ASSUME NEW i \in Ids, RoomAt(Due(i)) PROVE RoomAt(Due(i))'
    <2>1. \A t : RoomAt(t)' <=> RoomAt(t)
      BY <1>1, <1>2 DEF RoomAt
    <2>2. CASE ex[i] \in {"filled", "odd"}
      <3>1. Due(i)' = Due(i)
        BY <1>1, <2>2 DEF Due
      <3>. QED BY <1>1, <1>2, <1>5, <3>1 DEF RoomAt
    <2>3. CASE ex[i] \notin {"filled", "odd"}
      <3>1. Due(i) = now /\ Due(i)' = now'
        BY <1>1, <2>3 DEF Due
      <3>2. RoomAt(now')
        BY <1>1, <1>5, <3>1, RoomStays
      <3>. QED BY <1>1, <1>2, <3>1, <3>2 DEF RoomAt
    <2>. QED BY <2>2, <2>3
  <1>6. disk.pending # 0 => disk.pending \in Ids
    BY DEF RowOK, Rows
  <1>. QED BY <1>1, <1>2, <1>3, <1>4, <1>5, <1>6 DEF PhaseInv, SpaceInv

LEMMA LedgerStays ==
    ASSUME RowOK, WorldOK, OrdersInv, HolderInv, PhaseInv, SpaceInv, LossInv, Next,
           RowOK', WorldOK'
    PROVE  PhaseInv' /\ SpaceInv'
  <1>1. CASE Lost
    BY <1>1, LostStays DEF PhaseInv
  <1>2. CASE ~Lost
    <2>1. CASE StillSteps \/ LabelSteps \/ Claim
      <3>1. Quiet
        BY <2>1, QuietSteps
      <3>. QED BY <1>2, <3>1, QuietKeeps DEF PhaseInv
    <2>2. CASE Start \/ EvaluateSteps \/ IntendSteps \/ FillSteps \/ Send
               \/ ExecuteSteps \/ RefuseSteps
      BY <1>2, <2>2, StartLedger, EvaluateLedger, IntendLedger, FillLedger, SendLedger,
         ExecuteLedger, RefuseLedger DEF PhaseInv
    <2>3. CASE BlockedSave \/ Tick
      BY <1>2, <2>3, HandlerLedger, TickLedger
    <2>. QED BY Kinds, <2>1, <2>2, <2>3
  <1>. QED BY <1>1, <1>2

----------------------------------------------------------------------------
(* The losses *)

LEMMA CopyMarks ==
    ASSUME RowOK, WorldOK, HolderInv
    PROVE  SameMarks(st, disk)
  <1>1. CASE Same
    BY <1>1 DEF Same, SameRow, SameMarks
  <1>2. CASE BookedCopy
    <2>. DEFINE i == disk.pending
    <2>1. i \in Ids /\ SameRow(st, Booked(disk, i))
      BY <1>2 DEF BookedCopy, RowOK, Rows
    <2>2. SameMarks(Booked(disk, i), disk)
      BY <2>1, RowBooked DEF RowOK, WorldOK
    <2>. QED BY <2>1, <2>2 DEF SameRow, SameMarks
  <1>3. CASE IntentCopy
    BY <1>3 DEF RowOK, IntentCopy, SameRow, SameMarks, Rows
  <1>. QED BY <1>1, <1>2, <1>3 DEF HolderInv, CopyInv

\* Only an evaluation opens a day, latches a loss, or sees one.
LEMMA MarksStay ==
    ASSUME RowOK, WorldOK, HolderInv, Next, ~EvaluateSteps
    PROVE  SameMarks(disk', disk) /\ lossDays' = lossDays
  <1>1. CASE StillSteps \/ Claim \/ Send \/ ExecuteSteps \/ RefuseSteps \/ Tick
    BY <1>1, StillStepsAreStill
       DEF Claim, Send, ExecuteSteps, Execute, RefuseSteps, Refuse, Tick, SameMarks
  <1>2. CASE FillSteps \/ BlockedSave
    BY <1>2, CopyMarks DEF FillSteps, SaveFill, CommitPending, BlockedSave
  <1>3. CASE LabelSteps \/ Start \/ IntendSteps
    <2>1. st \in Rows /\ SameMarks(st, disk) /\ lossDays' = lossDays
      BY <1>3, CopyMarks DEF HolderInv, HolderOK, LabelSteps, Activate, Retry, End,
         CommitTransient, Renew, Start, IntendSteps, Intend
    <2>2. SameMarks(disk', st)
      <3>1. CASE Activate
        BY <2>1, <3>1, RowStarted DEF Activate, WorldOK
      <3>2. CASE Renew
        BY <2>1, <3>2, RowStarted DEF Renew, WorldOK
      <3>3. CASE Retry
        <4>1. disk' = [st EXCEPT !.fails = @ + 1]
          BY <3>3 DEF Retry
        <4>. QED BY <2>1, <4>1 DEF SameMarks, Rows
      <3>4. CASE End \/ CommitTransient
        <4>1. \/ disk' = [st EXCEPT !.status = "COMPLETE"]
              \/ disk' = [st EXCEPT !.status = "RECONCILED"]
          BY <3>4 DEF End, CommitTransient
        <4>. QED BY <2>1, <4>1 DEF SameMarks, Rows
      <3>5. CASE Start
        <4>1. disk' = [st EXCEPT !.status = "RUNNING", !.base = funds]
          BY <3>5 DEF Start
        <4>. QED BY <2>1, <4>1 DEF SameMarks, Rows
      <3>6. CASE IntendSteps
        <4>1. disk' = [st EXCEPT !.pending = st.cycles]
          BY <3>6 DEF IntendSteps, Intend
        <4>. QED BY <2>1, <4>1 DEF SameMarks, Rows
      <3>. QED BY <1>3, <3>1, <3>2, <3>3, <3>4, <3>5, <3>6 DEF LabelSteps
    <2>. QED BY <2>1, <2>2 DEF SameMarks
  <1>. QED BY Kinds, <1>1, <1>2, <1>3

LEMMA DaysGoOn ==
    ASSUME NEW s \in Nat, NEW t \in Nat, s <= t
    PROVE  DayOf(s) \in Nat /\ DayOf(t) \in Nat /\ DayOf(s) <= DayOf(t)
  <1>1. DayLen \in Nat \ {0}
    BY SoakAssumption
  <1>. QED BY <1>1 DEF DayOf

LEMMA LossesStay ==
    ASSUME RowOK, WorldOK, HolderInv, LossInv, Next, WorldOK'
    PROVE  LossInv'
  <1>1. /\ disk.day \in Int /\ now \in Nat /\ now' \in Nat /\ now <= now'
        /\ Today \in Nat /\ Today' \in Nat /\ Today <= Today'
        /\ lossDays \subseteq Int
    <2>1. now \in Nat /\ now' \in Nat /\ DayLen \in Nat \ {0} /\ disk.day \in Int
      BY SoakAssumption DEF WorldOK, RowOK, Rows
    <2>2. now <= now'
      <3>1. now' \in {now, now + 1}
        BY Kinds, StillStepsAreStill
           DEF LabelSteps, Activate, Retry, End, CommitTransient, Renew, Start, EvaluateSteps,
               Hold, Trade, Evaluate, IntendSteps, Intend, BlockedSave, FillSteps, SaveFill,
               CommitPending, Claim, Send, ExecuteSteps, Execute, RefuseSteps, Refuse, Tick,
               exchange
      <3>. QED BY <2>1, <3>1
    <2>3. DayOf(now) \in Nat /\ DayOf(now') \in Nat /\ DayOf(now) <= DayOf(now')
      BY <2>1, <2>2, DaysGoOn
    <2>4. Today = DayOf(now) /\ Today' = DayOf(now')
      BY DEF Today, DayOf
    <2>. QED BY <2>1, <2>2, <2>3, <2>4 DEF WorldOK
  <1>2. CASE ~EvaluateSteps
    <2>1. SameMarks(disk', disk) /\ lossDays' = lossDays
      BY <1>2, MarksStay
    <2>. QED BY <1>1, <2>1 DEF LossInv, SameMarks
  <1>3. CASE EvaluateSteps
    <2>1. PICK p \in Prices : \/ Hold(p)
                              \/ \E side \in Sides, amount \in Amounts : Trade(p, side, amount)
      BY <1>3 DEF EvaluateSteps
    <2>. DEFINE e == Evaluated(st, p)
    <2>2. /\ disk' = e /\ lossDays' = lossDays \cup Losses(e) /\ now' = now /\ pc = "decide"
      BY <2>1 DEF Hold, Trade, Evaluate
    <2>3. st \in Rows /\ st.day = disk.day /\ st.loss = disk.loss /\ st.cum = disk.cum
      BY CopyMarks DEF HolderInv, HolderOK, SameMarks
    <2>4. /\ e.day = Today /\ (disk.day = Today /\ disk.loss => e.loss) /\ (disk.cum => e.cum)
      BY <2>3, CopyFinite, RowEvaluated DEF WorldOK
    <2>. HIDE DEF e
    <2>5. /\ Losses(e) \subseteq {Today, -1} /\ (-1 \in Losses(e) => e.cum)
          /\ (Today \in Losses(e) => e.loss)
      <3>1. Today # -1
        BY <1>1
      <3>. QED BY <2>4, <3>1 DEF Losses
    <2>6. Today' = Today
      BY <2>2 DEF Today
    <2>7. \A d \in lossDays : d \in Int /\ d <= disk.day
      BY <1>1 DEF LossInv
    <2>8. \A d \in lossDays' : d <= Today
      BY <1>1, <2>2, <2>5, <2>7 DEF LossInv
    <2>9. -1 \in lossDays' => e.cum
      BY <2>2, <2>4, <2>5 DEF LossInv
    <2>10. Today \in lossDays' \ {-1} => e.loss
      <3>1. CASE Today \in lossDays
        <4>1. disk.day = Today
          BY <1>1, <2>7, <3>1 DEF LossInv
        <4>. QED BY <1>1, <2>4, <3>1, <4>1 DEF LossInv
      <3>2. CASE Today \notin lossDays
        BY <2>2, <2>5, <3>2
      <3>. QED BY <3>1, <3>2
    <2>. QED BY <1>1, <2>2, <2>4, <2>6, <2>8, <2>9, <2>10 DEF LossInv
  <1>. QED BY <1>2, <1>3

----------------------------------------------------------------------------
(* The theorems *)

LEMMA InductiveInit ==
    ASSUME Init PROVE Inductive
  <1>1. /\ FreshRow \in Rows /\ IsFiniteSet(FreshRow.times) /\ MaxTrades \in Nat
        /\ Cooldown \in Nat /\ Capital \in Nat /\ AccountCash \in Nat /\ AccountBtc \in Nat
        /\ DayLen \in Nat \ {0}
    BY FreshIsRow, SoakAssumption
  <1>2. RowOK
    BY <1>1 DEF Init, RowOK
  <1>3. WorldOK
    <2>1. NoRequest \in Requests /\ NoFill \in Fills
      BY DEF NoRequest, Requests, NoFill, Fills
    <2>2. FreshLog \in Logs
      BY DEF FreshLog, Logs
    <2>3. [cash |-> AccountCash, btc |-> AccountBtc] \in Money
      BY <1>1 DEF Money
    <2>. QED BY <2>1, <2>2, <2>3 DEF Init, WorldOK
  <1>4. HolderInv
    <2>1. HolderOK
      BY <1>1, EmptyOrder DEF Init, HolderOK, Steps, Commands, Errors
    <2>2. CopyInv
      BY DEF Init, CopyInv, Same, SameRow
    <2>3. FlowInv
      BY EmptyOrder DEF Init, FlowInv, RunSteps
    <2>4. StatusInv
      BY DEF Init, StatusInv, FreshRow, SubmittedIds, NoRequest
    <2>. QED BY <2>1, <2>2, <2>3, <2>4 DEF HolderInv
  <1>5. log.fills = <<>> /\ Len(log.fills) = 0 /\ DOMAIN log.fills = {} /\ FilledIds = {}
    BY DEF Init, FreshLog, FilledIds
  <1>6. Posted = {} /\ Executed = {}
    BY DEF Init, Posted, Executed
  <1>7. OrdersInv
    BY <1>5 DEF Init, OrdersInv, OrderInv, NoRequest, NoFill
  <1>8. Clean
    BY <1>5, <1>6 DEF Init, Clean, Logged, FillAppliedOnce, FreshRow
  <1>9. ExecutionsSpaced
    <2>1. \A d : {i \in Executed : DayOf(fill[i].at) = d} = {}
      BY <1>6
    <2>. QED BY <1>1, <1>6, <2>1, FS_EmptySet DEF ExecutionsSpaced
  <1>10. SpaceInv
    BY <1>5, <1>9 DEF Init, SpaceInv, FreshRow
  <1>11. LossInv
    <2>1. DayOf(0) \in Nat
      BY <1>1 DEF DayOf
    <2>. QED BY <2>1 DEF Init, LossInv, FreshRow, Today
  <1>. QED BY <1>2, <1>3, <1>4, <1>7, <1>8, <1>10, <1>11, Layers DEF PhaseInv

LEMMA InductiveNext ==
    ASSUME Inductive, [Next]_vars
    PROVE  Inductive'
  <1>1. RowOK /\ WorldOK /\ OrdersInv /\ HolderInv /\ PhaseInv /\ SpaceInv /\ LossInv
    BY Layers
  <1>2. RowOK' /\ WorldOK' /\ OrdersInv' /\ HolderInv' /\ PhaseInv' /\ SpaceInv' /\ LossInv'
    <2>1. CASE Next
      <3>1. RowOK' /\ HolderInv'
        BY <1>1, <2>1, HolderStays
      <3>2. WorldOK' /\ OrdersInv'
        BY <1>1, <2>1, <3>1, WorldStays, OrdersStay
      <3>. QED BY <1>1, <2>1, <3>1, <3>2, LedgerStays, LossesStay
    <2>2. CASE UNCHANGED vars
      <3>1. /\ disk' = disk /\ log' = log /\ killed' = killed /\ reason' = reason
            /\ journal' = journal /\ pc' = pc /\ op' = op /\ st' = st /\ ord' = ord
            /\ err' = err /\ ex' = ex /\ fill' = fill /\ funds' = funds /\ posts' = posts
            /\ now' = now /\ manual' = manual /\ lossDays' = lossDays
        BY <2>2 DEF vars, process, exchange
      <3>2. Still /\ Quiet
        BY <3>1 DEF Still, exchange, Quiet, SameBooks
      <3>3. RowOK' /\ WorldOK'
        BY <1>1, <3>1 DEF RowOK, WorldOK
      <3>4. OrdersInv'
        BY <1>1, <3>1 DEF OrdersInv, OrderInv, FilledIds
      <3>5. HolderInv'
        <4>1. HolderOK' /\ CopyInv'
          BY <1>1, <3>1, <3>2, StillKeeps DEF HolderInv, HolderOK, CopyInv
        <4>2. FlowInv'
          BY <1>1, <3>1, <3>2, StillKeeps DEF HolderInv, FlowInv
        <4>3. StatusInv'
          BY <1>1, <3>1, <3>2, StillKeeps DEF HolderInv, StatusInv
        <4>. QED BY <4>1, <4>2, <4>3 DEF HolderInv
      <3>6. PhaseInv' /\ SpaceInv'
        <4>1. Lost => Lost'
          BY <3>1, <3>2, StillKeeps DEF Lost
        <4>. QED BY <1>1, <3>2, <4>1, QuietKeeps DEF PhaseInv
      <3>7. LossInv'
        BY <1>1, <3>1 DEF LossInv, Today
      <3>. QED BY <3>3, <3>4, <3>5, <3>6, <3>7
    <2>. QED BY <2>1, <2>2
  <1>3. Inductive' <=> RowOK' /\ WorldOK' /\ OrdersInv' /\ HolderInv' /\ PhaseInv' /\ SpaceInv'
                       /\ LossInv'
    BY DEF Inductive, TypeOK, RowOK, WorldOK, OrdersInv, HolderInv, HolderOK, Errors
  <1>. QED BY <1>2, <1>3

\* Nothing but Send posts an order.
LEMMA OnlySend ==
    ASSUME Next, posts' # posts PROVE Send
  BY Kinds, StillStepsAreStill
     DEF LabelSteps, Activate, Retry, End, CommitTransient, Renew, Start, EvaluateSteps,
         Hold, Trade, Evaluate, IntendSteps, Intend, BlockedSave, FillSteps, SaveFill,
         CommitPending, Claim, ExecuteSteps, Execute, RefuseSteps, Refuse, Tick, exchange

\* The types, the orders, the holder's steps, the labels, the ledger and the
\* losses of testnet_soak.py stay consistent, whatever is restarted or repaired.
THEOREM InductiveHolds == Spec => []Inductive
  <1>1. Init => Inductive
    BY InductiveInit
  <1>2. Inductive /\ [Next]_vars => Inductive'
    BY InductiveNext
  <1>. QED BY <1>1, <1>2, PTL DEF Spec

\* run, recover, resume: an order leaves at most once, and is not forgotten.
THEOREM OrdersAreSentOnce == Spec => []SentOnce
  <1>1. Inductive => SentOnce
    <2>. SUFFICES ASSUME Inductive, NEW i \in Posted
                  PROVE  /\ posts[i] = 1
                         /\ \/ disk.pending = i
                            \/ i \in FilledIds
                            \/ disk.orders # Cardinality(FilledIds)
      BY DEF SentOnce
    <2>1. RowOK /\ WorldOK /\ OrdersInv /\ PhaseInv
      BY Layers
    <2>2. posts[i] = 1
      BY <2>1 DEF Posted, OrdersInv, OrderInv, WorldOK
    <2>3. CASE Lost
      BY <2>1, <2>2, <2>3, FilledFinite DEF Lost, RowOK, Rows
    <2>4. CASE ~Lost
      BY <2>1, <2>2, <2>4 DEF PhaseInv, Clean, Doubled, Logged
    <2>. QED BY <2>3, <2>4
  <1>. QED BY <1>1, InductiveHolds, PTL

\* guard and apply_fill: executions keep the daily number and the distance.
THEOREM SoakIsSpaced == Spec => []ExecutionsSpaced
  <1>1. Inductive => ExecutionsSpaced
    BY DEF Inductive, SpaceInv
  <1>. QED BY <1>1, InductiveHolds, PTL

\* resume_reconciled and recover_read_failure lift the stop only on a log that
\* has every order sent, and on a ledger that explains the account.
THEOREM RepairsFindAllBooked == Spec => RepairFindsAllBooked
  <1>1. Inductive /\ [Next]_vars =>
            [killed /\ ~killed' => Posted \subseteq FilledIds /\ Matches(disk)]_vars
    <2>. SUFFICES ASSUME Inductive, Next, killed, ~killed'
                  PROVE  Posted \subseteq FilledIds /\ Matches(disk)
      BY DEF vars, process, exchange
    <2>1. RowOK /\ WorldOK /\ OrdersInv /\ HolderInv /\ PhaseInv
      BY Layers
    <2>2. Resume \/ ClearFault
      <3>1. CASE StillSteps
        BY <3>1 DEF StillSteps, BeginRun, Restart, Loop, WindowOver, Settle, Unsaved, FundsMatch,
                    Wake, IntentUnsaved, NotSent, ClockUnread, GiveUp, BeginRecoverTransient,
                    BeginRecoverPending, RecoverFound, BeginResume, BeginRecoverRead, Begin,
                    Unchanged, Stopped, StartRefused, SettleRefused, ReadRefused, Replied,
                    Rejected, QueryFound, QueryFails, Abandon, Block, Stop, Crash, MayTrip
      <3>2. CASE ~StillSteps
        BY <3>2, Kinds
           DEF LabelSteps, Activate, Retry, End, CommitTransient, Renew, Start, EvaluateSteps,
               Hold, Trade, Evaluate, IntendSteps, Intend, BlockedSave, FillSteps, SaveFill,
               CommitPending, Claim, Send, ExecuteSteps, Execute, RefuseSteps, Refuse, Tick
      <3>. QED BY <3>1, <3>2
    <2>3. CASE Resume
      BY <2>1, <2>3 DEF Resume, HolderInv, FlowInv, AllLogged, Matched
    <2>4. CASE ClearFault
      <3>1. /\ Posted = {} /\ disk.cash = Capital /\ disk.btc = 0 /\ Same /\ funds = st.base
        BY <2>1, <2>4, PostedSubmitted DEF ClearFault, HolderInv, FlowInv, StatusInv, CopyInv
      <3>2. Matches(disk)
        BY <2>1, <3>1, SoakAssumption DEF Matches, Same, SameRow, RowOK, Rows, Money
      <3>. QED BY <3>1, <3>2
    <2>. QED BY <2>2, <2>3, <2>4
  <1>. QED BY <1>1, InductiveHolds, PTL DEF Spec, RepairFindsAllBooked

\* run: an order leaves only while the ledger explains the account.
THEOREM OrdersLeaveWhenMatched == Spec => OrderOnlyWhenMatched
  <1>1. Inductive /\ [Next]_vars => [posts' # posts => Matches(disk)]_vars
    <2>. SUFFICES ASSUME Inductive, Next, posts' # posts PROVE Matches(disk)
      BY DEF vars, process, exchange
    <2>1. Send
      BY OnlySend
    <2>. QED BY <2>1, Layers DEF Send, HolderInv, FlowInv, Matched
  <1>. QED BY <1>1, InductiveHolds, PTL DEF Spec, OrderOnlyWhenMatched

\* evaluate and guard: no buy leaves on a day of a loss, nor after the total loss.
THEOREM LossesStopBuying == Spec => NoBuyAfterLoss
  <1>1. Inductive /\ [Next]_vars =>
            [posts' # posts /\ ord.side = "BUY" => lossDays \cap {disk.day, -1} = {}]_vars
    <2>. SUFFICES ASSUME Inductive, Next, posts' # posts, ord.side = "BUY"
                  PROVE  lossDays \cap {disk.day, -1} = {}
      BY DEF vars, process, exchange
    <2>1. Send
      BY OnlySend
    <2>2. ~disk.loss /\ ~disk.cum /\ LossInv
      BY <2>1, Layers DEF Send, HolderInv, FlowInv
    <2>. QED BY <2>2 DEF LossInv
  <1>. QED BY <1>1, InductiveHolds, PTL DEF Spec, NoBuyAfterLoss

\* assess: while the verdict stands no order leaves, and only a stop takes it back.
THEOREM VerdictsStand == Spec => VerdictStands
  <1>1. Inductive /\ [Next]_vars => [Passed => posts' = posts /\ (Passed' \/ killed')]_vars
    <2>. SUFFICES ASSUME Inductive, Next, Passed
                  PROVE  posts' = posts /\ (Passed' \/ killed')
      BY DEF vars, process, exchange
    <2>1. RowOK /\ WorldOK /\ HolderInv
      BY Layers
    <2>2. pc \in {"idle", "start", "loop", "end"} /\ disk.status = "COMPLETE" /\ ~killed
      BY <2>1 DEF Passed, RowPasses, LogPasses, Observed, HolderInv, FlowInv, StatusInv
    <2>3. st.status = disk.status /\ Same /\ st \in Rows /\ disk \in Rows
      BY <2>1, <2>2 DEF HolderInv, HolderOK, CopyInv, RowOK
    <2>4. StillSteps \/ ExecuteSteps \/ RefuseSteps \/ Tick \/ End
      BY <2>2, <2>3, Kinds
         DEF LabelSteps, Activate, Retry, CommitTransient, Renew, Start, EvaluateSteps, Hold,
             Trade, Evaluate, IntendSteps, Intend, BlockedSave, FillSteps, SaveFill,
             CommitPending, Claim, Send
    <2>5. CASE StillSteps \/ ExecuteSteps \/ RefuseSteps \/ Tick
      <3>1. disk' = disk /\ log' = log /\ journal' = journal /\ posts' = posts
        BY <2>5, StillStepsAreStill
           DEF ExecuteSteps, Execute, RefuseSteps, Refuse, Tick, exchange
      <3>2. WindowSides' = WindowSides
        BY <3>1 DEF WindowSides
      <3>. QED BY <3>1, <3>2 DEF Passed, RowPasses, LogPasses, Observed
    <2>6. CASE End
      <3>1. /\ disk' = [st EXCEPT !.status = "COMPLETE"] /\ log' = log /\ journal' = journal
            /\ posts' = posts /\ killed' = killed
        BY <2>6 DEF End, exchange
      <3>2. disk'.status = "COMPLETE" /\ SameRow(disk', st)
        BY <2>3, <3>1, RowLabelled
      <3>3. SameRow(disk', disk)
        BY <2>3, <3>2 DEF Same, SameRow
      <3>4. WindowSides' = WindowSides
        BY <3>1 DEF WindowSides
      <3>. QED BY <3>1, <3>2, <3>3, <3>4 DEF Passed, RowPasses, LogPasses, Observed, SameRow
    <2>. QED BY <2>4, <2>5, <2>6
  <1>. QED BY <1>1, InductiveHolds, PTL DEF Spec, VerdictStands

----------------------------------------------------------------------------
(* The report that is read while the worker writes *)

\* A report moves neither the row nor anything else the worker relies on.
THEOREM ReportsLeaveSoak == ReportSpec => Spec
  <1>1. ReportInit => Init
    BY DEF ReportInit
  <1>2. [ReportNext]_<<vars, report>> => [Next]_vars
    BY DEF ReportNext, ReadRow, ReadLog, ReadSwitch, Advance
  <1>. QED BY <1>1, <1>2, PTL DEF ReportSpec, Spec

\* A worker that blocked itself on a stop stays blocked.
LEMMA ShutStays ==
    ASSUME WorldOK, HolderInv, Shut, Next
    PROVE  Shut'
  <1>1. /\ disk.status = "BLOCKED" /\ disk.error = "Other" /\ killed /\ log.blocked
        /\ pc \in {"idle", "start", "blocked", "blockedsave"}
        /\ pc \in {"blocked", "blockedsave"} => err = "Other"
    BY DEF Shut
  <1>2. /\ pc # "blockedsave" => st.status = "BLOCKED"
        /\ pc = "blockedsave" => st.status = "BLOCKED" /\ st.error = "Other"
    BY <1>1 DEF HolderInv, CopyInv
  <1>3. CASE StillSteps
    <2>1. BeginRun \/ Stopped \/ Block \/ Stop \/ Crash
      BY <1>1, <1>2, <1>3
         DEF StillSteps, StartRefused, Restart, Loop, WindowOver, Settle, SettleRefused,
             Unsaved, FundsMatch, ReadRefused, Wake, IntentUnsaved, NotSent, ClockUnread,
             Replied, Rejected, QueryFound, QueryFails, GiveUp, BeginRecoverTransient,
             BeginRecoverPending, RecoverFound, BeginResume, Resume, BeginRecoverRead,
             ClearFault, Abandon
    <2>2. disk' = disk /\ log' = log /\ killed'
      BY <1>1, <2>1 DEF BeginRun, Begin, Stopped, Block, Stop, Crash, Unchanged
    <2>3. /\ pc' \in {"idle", "start", "blocked", "blockedsave"}
          /\ pc' \in {"blocked", "blockedsave"} => err' = "Other"
      BY <1>1, <1>2, <2>1
         DEF BeginRun, Begin, Stopped, Block, Stop, Crash, Leave, Continue, process
    <2>. QED BY <1>1, <2>2, <2>3 DEF Shut
  <1>4. CASE BlockedSave
    BY <1>1, <1>2, <1>4 DEF BlockedSave, LogBlocked, Leave, Shut, WorldOK, Logs
  <1>5. CASE ExecuteSteps \/ RefuseSteps \/ Tick
    BY <1>1, <1>5 DEF ExecuteSteps, Execute, RefuseSteps, Refuse, Tick, process, Shut
  <1>6. StillSteps \/ BlockedSave \/ ExecuteSteps \/ RefuseSteps \/ Tick
    <2>1. ~LabelSteps /\ ~Start
      BY <1>1 DEF LabelSteps, Activate, Retry, End, CommitTransient, Renew, Start
    <2>2. ~EvaluateSteps
      BY <1>1 DEF EvaluateSteps, Hold, Trade, Evaluate
    <2>3. ~IntendSteps
      BY <1>1 DEF IntendSteps, Intend
    <2>4. ~FillSteps /\ ~Claim /\ ~Send
      BY <1>1 DEF FillSteps, SaveFill, CommitPending, Claim, Send
    <2>. QED BY <2>1, <2>2, <2>3, <2>4, Kinds
  <1>. QED BY <1>3, <1>4, <1>5, <1>6

\* Where no time passes, whatever executes does so now.
LEMMA JustOpenedStays ==
    ASSUME WorldOK, OrdersInv, HolderInv, RowOK, JustOpened, Next, now' = now
    PROVE  JustOpened'
  <1>. SUFFICES ASSUME NEW i \in Executed' PROVE fill'[i].at = now
    BY DEF JustOpened
  <1>1. i \in Ids /\ posts'[i] > 0 /\ ex'[i] \in {"filled", "odd"}
    BY DEF Executed, Posted
  <1>2. CASE UNCHANGED <<posts, ex, fill>>
    BY <1>1, <1>2 DEF JustOpened, Executed, Posted
  <1>3. CASE Send
    <2>1. ex' = [ex EXCEPT ![st.pending] = "transit"] /\ fill' = fill
      BY <1>3 DEF Send
    <2>2. ex[i] \in {"filled", "odd"}
      BY <1>1, <2>1 DEF WorldOK
    <2>3. posts[i] > 0
      BY <1>1, <2>2 DEF OrdersInv, OrderInv, WorldOK
    <2>. QED BY <1>1, <2>1, <2>2, <2>3 DEF JustOpened, Executed, Posted
  <1>4. CASE ExecuteSteps
    <2>1. PICK j \in Ids, p \in Prices : \E qty \in 0 .. journal[j].qty : Execute(j, p, qty)
      BY <1>4 DEF ExecuteSteps
    <2>2. CASE i = j
      BY <1>1, <2>1, <2>2 DEF Execute, WorldOK
    <2>3. CASE i # j
      <3>1. ex'[i] = ex[i] /\ fill'[i] = fill[i] /\ posts'[i] = posts[i]
        BY <1>1, <2>1, <2>3 DEF Execute, WorldOK
      <3>. QED BY <1>1, <3>1 DEF JustOpened, Executed, Posted
    <2>. QED BY <2>2, <2>3
  <1>5. CASE RefuseSteps
    <2>1. PICK j \in Ids : Refuse(j)
      BY <1>5 DEF RefuseSteps
    <2>2. posts' = posts /\ fill' = fill /\ (ex'[i] = ex[i] \/ ex'[i] = "refused")
      BY <1>1, <2>1 DEF Refuse, WorldOK
    <2>. QED BY <1>1, <2>2 DEF JustOpened, Executed, Posted
  <1>6. UNCHANGED <<posts, ex, fill>> \/ Send \/ ExecuteSteps \/ RefuseSteps
    BY Kinds, StillStepsAreStill
       DEF LabelSteps, Activate, Retry, End, CommitTransient, Renew, Start, EvaluateSteps,
           Hold, Trade, Evaluate, IntendSteps, Intend, BlockedSave, FillSteps, SaveFill,
           CommitPending, Claim, Tick, exchange
  <1>. QED BY <1>2, <1>3, <1>4, <1>5, <1>6

\* Only a stop ends a run on a completed observation.
LEMMA EndedByStopStays ==
    ASSUME RowOK, WorldOK, HolderInv, EndedByStop, Next
    PROVE  EndedByStop'
  <1>1. disk.status = "COMPLETE" =>
            pc \in {"idle", "start", "loop", "end", "blocked", "blockedsave", "rfcheck", "rfsave"}
    BY DEF HolderInv, StatusInv
  <1>2. pc \notin {"rpcheck", "blockedsave"} => st.status = disk.status
    BY DEF HolderInv, CopyInv
  <1>. SUFFICES ASSUME disk'.status = "COMPLETE", pc' \in {"blocked", "blockedsave"}
                PROVE  err' = "Other"
    BY DEF EndedByStop
  <1>3. CASE StillSteps
    <2>1. disk' = disk
      BY <1>3, StillStepsAreStill
    <2>2. pc \in {"start", "loop", "blocked", "blockedsave"}
      BY <1>1, <1>3, <2>1
         DEF StillSteps, BeginRun, Begin, Stopped, StartRefused, Restart, Loop, WindowOver,
             Settle, SettleRefused, Unsaved, FundsMatch, ReadRefused, Wake, IntentUnsaved,
             NotSent, ClockUnread, Replied, Rejected, QueryFound, QueryFails, GiveUp, Block,
             BeginRecoverTransient, BeginRecoverPending, RecoverFound, BeginResume, Resume,
             BeginRecoverRead, ClearFault, Abandon, Stop, Crash, Leave, Continue, process
    <2>3. Stopped \/ Block \/ Stop
      BY <1>2, <1>3, <2>1, <2>2
         DEF StillSteps, BeginRun, Begin, StartRefused, Restart, Loop, WindowOver,
             Settle, SettleRefused, Unsaved, FundsMatch, ReadRefused, Wake, IntentUnsaved,
             NotSent, ClockUnread, Replied, Rejected, QueryFound, QueryFails, GiveUp,
             BeginRecoverTransient, BeginRecoverPending, RecoverFound, BeginResume, Resume,
             BeginRecoverRead, ClearFault, Abandon, Crash, Leave, Continue
    <2>. QED BY <2>1, <2>3 DEF Stopped, Block, Stop, Leave, Continue, process, EndedByStop
  <1>4. CASE ExecuteSteps \/ RefuseSteps \/ Tick
    BY <1>4 DEF ExecuteSteps, Execute, RefuseSteps, Refuse, Tick, process, EndedByStop
  <1>5. CASE Claim
    BY <1>1, <1>5 DEF Claim
  <1>6. StillSteps \/ ExecuteSteps \/ RefuseSteps \/ Tick \/ Claim
    BY Kinds
       DEF LabelSteps, Activate, Retry, End, CommitTransient, Renew, Start, EvaluateSteps,
           Hold, Trade, Evaluate, IntendSteps, Intend, BlockedSave, FillSteps, SaveFill,
           CommitPending, Send, Leave, Continue
  <1>. QED BY <1>3, <1>4, <1>5, <1>6

\* What becomes of a row that passes: it stays, or the worker meets a stop, or an
\* observation without orders and with a fault in its log is opened anew.
LEMMA PassingRow ==
    ASSUME RowOK, WorldOK, OrdersInv, HolderInv, EndedByStop, RowPasses, Next
    PROVE  \/ RowPasses' /\ log' = log /\ journal' = journal
           \/ Shut'
           \/ Posted' = {} /\ log.blocked
  <1>1. /\ disk.status = "COMPLETE" /\ disk.pending = 0
        /\ pc \in {"idle", "start", "loop", "end", "blocked", "blockedsave", "rfcheck", "rfsave"}
    BY DEF RowPasses, Observed, HolderInv, StatusInv
  <1>2. pc # "blockedsave" => st.status = disk.status
    BY <1>1 DEF HolderInv, CopyInv
  <1>3. CASE StillSteps \/ ExecuteSteps \/ RefuseSteps \/ Tick
    <2>1. disk' = disk /\ log' = log /\ journal' = journal
      BY <1>3, StillStepsAreStill
         DEF ExecuteSteps, Execute, RefuseSteps, Refuse, Tick, exchange
    <2>. QED BY <2>1 DEF RowPasses, Observed
  <1>4. CASE End
    <2>1. disk' = [st EXCEPT !.status = "COMPLETE"] /\ log' = log /\ journal' = journal
      BY <1>4 DEF End
    <2>2. pc = "end" /\ st \in Rows /\ SameRow(st, disk)
      BY <1>4 DEF End, HolderInv, HolderOK, CopyInv, Same
    <2>3. disk'.status = "COMPLETE" /\ SameRow(disk', st)
      BY <2>1, <2>2, RowLabelled
    <2>. QED BY <2>1, <2>2, <2>3 DEF RowPasses, Observed, SameRow
  <1>5. CASE BlockedSave
    <2>1. /\ pc = "blockedsave" /\ disk' = st /\ killed' = killed /\ killed
          /\ log' = [log EXCEPT !.blocked = TRUE] /\ pc' = "idle"
      BY <1>5 DEF BlockedSave, LogBlocked, Leave, HolderInv, FlowInv
    <2>2. st.status = "BLOCKED" /\ st.error = "Other"
      BY <1>1, <2>1 DEF HolderInv, CopyInv, EndedByStop
    <2>. QED BY <2>1, <2>2 DEF Shut, WorldOK, Logs
  <1>6. CASE Renew
    <2>1. pc = "rfsave" /\ posts' = posts
      BY <1>1, <1>6 DEF Renew, exchange
    <2>2. SubmittedIds = {} /\ disk.error \in {"OrderRejected", "ReadRejected"}
      BY <2>1 DEF HolderInv, FlowInv
    <2>3. log.blocked
      BY <2>2 DEF HolderInv, StatusInv
    <2>4. Posted' = {}
      BY <2>1, <2>2, PostedSubmitted DEF Posted
    <2>. QED BY <2>3, <2>4
  <1>7. StillSteps \/ ExecuteSteps \/ RefuseSteps \/ Tick \/ End \/ BlockedSave \/ Renew
    BY <1>1, <1>2, Kinds
       DEF LabelSteps, Activate, Retry, CommitTransient, Start, EvaluateSteps, Hold, Trade,
           Evaluate, IntendSteps, Intend, FillSteps, SaveFill, CommitPending, Claim, Send
  <1>. QED BY <1>3, <1>4, <1>5, <1>6, <1>7

\* Two orders do not execute in one moment, so a log that has a purchase and a sale
\* was not written in one.
LEMMA LogTakesTime ==
    ASSUME RowOK, WorldOK, OrdersInv, SpaceInv, JustOpened
    PROVE  ~LogPasses
  <1>. SUFFICES ASSUME Sides \subseteq WindowSides
                PROVE  FALSE
    BY DEF LogPasses
  <1>1. PICK j, k \in DOMAIN log.fills :
            journal[log.fills[j]].side = "BUY" /\ journal[log.fills[k]].side = "SELL"
    BY DEF Sides, WindowSides
  <1>. DEFINE a == log.fills[j]
              b == log.fills[k]
  <1>2. a \in FilledIds /\ b \in FilledIds /\ a # b
    BY <1>1 DEF FilledIds
  <1>3. FilledIds \subseteq Ids
    BY DEF FilledIds, WorldOK, Logs
  <1>. HIDE DEF a, b
  <1>4. ASSUME NEW i \in FilledIds
        PROVE  i \in Ids /\ i \in Executed /\ fill[i].at = now
    <2>1. i \in Ids
      BY <1>3
    <2>2. ex[i] = "filled" /\ posts[i] \in {0, 1} /\ posts[i] # 0
      BY <2>1 DEF OrdersInv, OrderInv
    <2>3. i \in Executed
      BY <2>1, <2>2 DEF Executed, Posted
    <2>. QED BY <2>1, <2>3 DEF JustOpened
  <1>5. a \in Executed /\ b \in Executed /\ fill[a].at = now /\ fill[b].at = now
    BY <1>2, <1>4
  <1>6. now - now >= Cooldown
    BY <1>2, <1>5 DEF SpaceInv, ExecutionsSpaced, WorldOK
  <1>. QED BY <1>6, SoakAssumption, ReportAssumption DEF WorldOK

LEMMA ReportStays ==
    ASSUME Inductive, ReportInductive, [ReportNext]_<<vars, report>>, Inductive'
    PROVE  ReportInductive'
  <1>1. RowOK /\ WorldOK /\ OrdersInv /\ HolderInv /\ SpaceInv
    BY Layers
  <1>2. ASSUME UNCHANGED vars
        PROVE  /\ EndedByStop' <=> EndedByStop
               /\ RowPasses' <=> RowPasses
               /\ LogPasses' <=> LogPasses
               /\ Shut' <=> Shut
               /\ JustOpened' <=> JustOpened
    BY <1>2 DEF vars, process, exchange, EndedByStop, RowPasses, Observed, LogPasses,
                WindowSides, Shut, JustOpened, Executed, Posted
  <1>3. CASE ReadRow \/ UNCHANGED <<vars, report>>
    BY <1>2, <1>3 DEF ReadRow, Advance, ReportInductive
  <1>4. CASE ReadLog
    BY <1>1, <1>2, <1>4, LogTakesTime DEF ReadLog, Advance, ReportInductive, Shut, LogPasses
  <1>5. CASE ReadSwitch
    BY <1>2, <1>5 DEF ReadSwitch, Advance, ReportInductive
  <1>6. CASE Next /\ report' = report /\ (report = "row" => now' = now)
    <2>1. EndedByStop'
      BY <1>1, <1>6, EndedByStopStays DEF ReportInductive
    <2>2. ASSUME report = "row"
          PROVE  RowPasses' \/ Shut' \/ JustOpened'
      <3>1. CASE RowPasses
        BY <1>1, <1>6, <3>1, PassingRow DEF ReportInductive, JustOpened, Executed
      <3>2. CASE Shut
        BY <1>1, <1>6, <3>2, ShutStays
      <3>3. CASE JustOpened
        BY <1>1, <1>6, <2>2, <3>3, JustOpenedStays
      <3>. QED BY <2>2, <3>1, <3>2, <3>3 DEF ReportInductive
    <2>3. ASSUME report = "log"
          PROVE  (RowPasses' /\ LogPasses') \/ Shut'
      <3>1. CASE Shut
        BY <1>1, <1>6, <3>1, ShutStays
      <3>2. CASE RowPasses /\ LogPasses
        <4>1. (RowPasses' /\ log' = log /\ journal' = journal) \/ Shut'
          BY <1>1, <1>6, <3>2, PassingRow DEF ReportInductive, LogPasses
        <4>2. log' = log /\ journal' = journal => LogPasses'
          BY <3>2 DEF LogPasses, WindowSides
        <4>. QED BY <4>1, <4>2
      <3>. QED BY <2>3, <3>1, <3>2 DEF ReportInductive
    <2>. QED BY <1>6, <2>1, <2>2, <2>3 DEF ReportInductive
  <1>. QED BY <1>3, <1>4, <1>5, <1>6 DEF ReportNext

\* read_report: a report rests at each of its readings on what it has read.
THEOREM ReportsRest == ReportSpec => []ReportInductive
  <1>1. ReportInit => ReportInductive
    BY DEF ReportInit, Init, FreshRow, ReportInductive, EndedByStop
  <1>2. ReportSpec => []Inductive
    BY ReportsLeaveSoak, InductiveHolds, PTL
  <1>3. Inductive /\ Inductive' /\ ReportInductive /\ [ReportNext]_<<vars, report>>
            => ReportInductive'
    BY ReportStays
  <1>. QED BY <1>1, <1>2, <1>3, PTL DEF ReportSpec

\* read_report: a report that passes is true of the database when it is complete,
\* although row, log and switch were read one after the other.
THEOREM ReportsAreTrue == ReportSpec => ReportIsTrue
  <1>1. ReportInductive /\ [ReportNext]_<<vars, report>>
            => [report = "log" /\ report' = "passed" => Passed]_<<vars, report>>
    BY DEF ReportInductive, ReportNext, ReadRow, ReadLog, ReadSwitch, Advance, Shut, Passed
  <1>. QED BY <1>1, ReportsRest, PTL DEF ReportSpec, ReportIsTrue

=============================================================================
