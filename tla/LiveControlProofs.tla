------------------------- MODULE LiveControlProofs -------------------------
(***************************************************************************)
(* LiveControl, proved for every value of its constants.  IInv is the      *)
(* inductive invariant; it is proved conjunct by conjunct, first what each *)
(* helper does to a row, then what saving a row does to the ledger.        *)
(***************************************************************************)
EXTENDS LiveControl, SequenceTheorems, TLAPS

(* What the helpers do to a row *)

\* Dropping the proposal, disarming and arming leave the ledger alone ...
LEMMA RowMarks ==
    ASSUME NEW m \in Rows
    PROVE  /\ WithoutProposal(m) \in Rows
           /\ SameLedger(WithoutProposal(m), m)
           /\ WithoutProposal(m).proposal = NoProposal
           /\ Disarmed(m) \in Rows
           /\ SameLedger(Disarmed(m), m)
           /\ Disarmed(m).proposal = m.proposal
           /\ ArmedRow(m) \in Rows
           /\ SameLedger(ArmedRow(m), m)
           /\ ArmedRow(m).proposal = m.proposal
  <1>1. NoProposal \in Proposals
    BY DEF NoProposal, Proposals, Sides
  <1>. QED
    BY <1>1 DEF Rows, WithoutProposal, Disarmed, ArmedRow, SameLedger

\* ... and so do claiming a slot ...
LEMMA RowClaimed ==
    ASSUME NEW m \in Rows, NEW s \in Int
    PROVE  /\ [m EXCEPT !.lastSlot = s] \in Rows
           /\ SameLedger([m EXCEPT !.lastSlot = s], m)
           /\ [m EXCEPT !.lastSlot = s].proposal = m.proposal
  BY DEF Rows, SameLedger

\* ... and recording addresses.
LEMMA RowApproved ==
    ASSUME NEW m \in Rows, NEW a \in SUBSET IPs
    PROVE  /\ [m EXCEPT !.approved = a] \in Rows
           /\ SameLedger([m EXCEPT !.approved = a], m)
           /\ [m EXCEPT !.approved = a].proposal = m.proposal
  BY DEF Rows, SameLedger

\* Intending an order moves the proposal's id to pending.
LEMMA RowIntent ==
    ASSUME NEW m \in Rows
    PROVE  /\ IntentRow(m) \in Rows
           /\ SameLedger(IntentRow(m), [m EXCEPT !.pending = m.proposal.id])
           /\ IntentRow(m).pending = m.proposal.id
           /\ IntentRow(m).proposal = NoProposal
  <1>1. NoProposal \in Proposals
    BY DEF NoProposal, Proposals, Sides
  <1>2. m.proposal.id \in Ids \cup {None}
    BY DEF Rows, Proposals
  <1>. QED
    BY <1>1, <1>2 DEF Rows, IntentRow, SameLedger

\* Binding and observing leave cash, BTC, trades and the pending order alone.
LEMMA RowObserved ==
    ASSUME NEW m \in Rows, NEW p \in Prices, funds \in Money, now \in Nat
    PROVE  /\ Bound(m) \in Rows
           /\ Observed(Bound(m), p) \in Rows
           /\ Observed(Bound(m), p).bound
           /\ Observed(Bound(m), p).base = IF m.bound THEN m.base ELSE funds
           /\ Observed(Bound(m), p).cash = m.cash
           /\ Observed(Bound(m), p).btc = m.btc
           /\ Observed(Bound(m), p).trades = m.trades
           /\ Observed(Bound(m), p).pending = m.pending
           /\ Observed(Bound(m), p).proposal = m.proposal
  <1>1. /\ Bound(m) \in Rows
        /\ Bound(m).bound
        /\ Bound(m).base = IF m.bound THEN m.base ELSE funds
        /\ Bound(m).cash = m.cash /\ Bound(m).btc = m.btc
        /\ Bound(m).trades = m.trades /\ Bound(m).pending = m.pending
        /\ Bound(m).proposal = m.proposal
    BY DEF Rows, Bound
  <1>2. Today \in Int
    BY LimitAssumption DEF Today, DayOf
  <1>3. ASSUME NEW n \in Rows
        PROVE  /\ Observed(n, p) \in Rows
               /\ Observed(n, p).bound = n.bound
               /\ Observed(n, p).base = n.base
               /\ Observed(n, p).cash = n.cash /\ Observed(n, p).btc = n.btc
               /\ Observed(n, p).trades = n.trades
               /\ Observed(n, p).pending = n.pending
               /\ Observed(n, p).proposal = n.proposal
    <2>1. Equity(n, p) \in Int
      BY <1>3, DomainAssumption DEF Rows, Equity
    <2>2. CASE n.day = Today
      BY <1>3, <2>1, <2>2 DEF Rows, Observed
    <2>3. CASE n.day # Today
      BY <1>3, <1>2, <2>1, <2>3 DEF Rows, Observed
    <2>. QED BY <2>2, <2>3
  <1>. QED BY <1>1, <1>3

\* The ids a row has booked are order ids.
LEMMA BookedAreIds ==
    ASSUME NEW m \in Rows
    PROVE  BookedIds(m) \subseteq Ids
  <1>1. m.trades \in Seq(Trades)
    BY DEF Rows
  <1>2. \A k \in DOMAIN m.trades : m.trades[k] \in Trades
    BY <1>1
  <1>3. \A t \in Trades : t.id \in Ids
    BY DEF Trades
  <1>. QED BY <1>2, <1>3 DEF BookedIds

\* A fill changes the balances, clears the pending order and is one trade more.
LEMMA RowBooked ==
    ASSUME NEW m \in Rows, NEW i \in Ids, fill \in [Ids -> Fills]
    PROVE  /\ Booked(m, i).cash = m.cash + fill[i].cash
           /\ Booked(m, i).btc = m.btc + fill[i].btc
           /\ Booked(m, i).pending = None
           /\ Booked(m, i).trades = Append(m.trades, [id |-> i, at |-> fill[i].at])
           /\ Booked(m, i).trades \in Seq(Trades)
           /\ BookedIds(Booked(m, i)) = BookedIds(m) \cup {i}
           /\ Booked(m, i).bound = m.bound
           /\ Booked(m, i).base = m.base
           /\ Booked(m, i).proposal = m.proposal
           /\ NotNegative(Booked(m, i)) => Booked(m, i) \in Rows
  <1>. DEFINE t == [id |-> i, at |-> fill[i].at]
  <1>1. t \in Trades /\ fill[i].cash \in Int /\ fill[i].btc \in Int
    BY DEF Trades, Fills
  <1>2. m.trades \in Seq(Trades)
    BY DEF Rows
  <1>3. /\ Booked(m, i).cash = m.cash + fill[i].cash
        /\ Booked(m, i).btc = m.btc + fill[i].btc
        /\ Booked(m, i).pending = None
        /\ Booked(m, i).trades = Append(m.trades, t)
        /\ Booked(m, i).bound = m.bound
        /\ Booked(m, i).base = m.base
        /\ Booked(m, i).proposal = m.proposal
    BY DEF Rows, Booked
  <1>4. Append(m.trades, t) \in Seq(Trades)
    BY <1>1, <1>2
  <1>5. BookedIds(Booked(m, i)) = BookedIds(m) \cup {i}
    <2>1. /\ DOMAIN Append(m.trades, t) = 1 .. Len(m.trades) + 1
          /\ DOMAIN m.trades = 1 .. Len(m.trades)
          /\ \A k \in DOMAIN m.trades : Append(m.trades, t)[k] = m.trades[k]
          /\ Append(m.trades, t)[Len(m.trades) + 1] = t
          /\ Len(m.trades) \in Nat
      BY <1>1, <1>2
    <2>. QED BY <1>3, <2>1 DEF BookedIds
  <1>6. ASSUME NotNegative(Booked(m, i)) PROVE Booked(m, i) \in Rows
    <2>1. m.cash + fill[i].cash \in Nat /\ m.btc + fill[i].btc \in Nat
      BY <1>1, <1>3, <1>6 DEF NotNegative, Rows
    <2>. QED BY <1>4, <2>1 DEF Booked, Rows
  <1>. QED BY <1>3, <1>4, <1>5, <1>6


\* Booking looks at nothing of a row but its ledger.
LEMMA BookedSame ==
    ASSUME NEW m \in Rows, NEW n \in Rows, NEW i \in Ids, SameLedger(m, n)
    PROVE  SameLedger(Booked(m, i), Booked(n, i))
  BY DEF SameLedger, Booked, Rows

----------------------------------------------------------------------------
(* What saving a row does to the ledger *)

LedgerInv ==
    /\ \A i \in Ids : OrderInv(i)
    /\ RowInv
    /\ Books

\* A save that keeps the ledger, and at most drops the proposal, keeps every
\* claim about it.
LEMMA LedgerKept ==
    ASSUME TypeOK, LedgerInv, disk' \in Rows,
           SameLedger(disk', disk), disk'.proposal \in {disk.proposal, NoProposal},
           UNCHANGED <<journal, exchange, minted, ext>>
    PROVE  LedgerInv'
  <1>1. /\ disk'.cash = disk.cash /\ disk'.btc = disk.btc
        /\ disk'.trades = disk.trades /\ disk'.pending = disk.pending
        /\ disk'.bound = disk.bound /\ disk'.base = disk.base
    BY DEF SameLedger
  <1>2. BookedIds(disk') = BookedIds(disk)
    BY <1>1 DEF BookedIds
  <1>3. (\A i \in Ids : OrderInv(i))'
    BY <1>1, <1>2 DEF LedgerInv, OrderInv, exchange, BookedIds
  <1>4. NoProposal.id = None
    BY DEF NoProposal
  <1>5. RowInv'
    BY <1>1, <1>2, <1>4 DEF LedgerInv, RowInv, exchange, BookedIds
  <1>6. Books'
    BY <1>1 DEF LedgerInv, Books, exchange
  <1>. QED BY <1>3, <1>5, <1>6 DEF LedgerInv

\* Saving the copy with the pending fill booked: what was open is now part of
\* the ledger, and the account still is the ledger.
LEMMA LedgerBooked ==
    ASSUME TypeOK, LedgerInv, disk' \in Rows,
           disk.pending # None, ex[disk.pending] = "filled",
           SameLedger(disk', Booked(disk, disk.pending)),
           disk'.proposal.id = None,
           UNCHANGED <<journal, exchange, minted, ext>>
    PROVE  LedgerInv'
  <1>. DEFINE i == disk.pending
  <1>1. i \in Ids /\ fill \in [Ids -> Fills] /\ disk \in Rows
    BY DEF TypeOK, Rows
  <1>2. /\ disk'.cash = disk.cash + fill[i].cash
        /\ disk'.btc = disk.btc + fill[i].btc
        /\ disk'.pending = None
        /\ disk'.trades = Booked(disk, i).trades
        /\ disk'.bound = disk.bound /\ disk'.base = disk.base
        /\ BookedIds(Booked(disk, i)) = BookedIds(disk) \cup {i}
    BY <1>1, RowBooked DEF SameLedger
  <1>3. BookedIds(disk') = BookedIds(disk) \cup {i}
    BY <1>2 DEF BookedIds
  <1>4. (\A j \in Ids : OrderInv(j))'
    BY <1>2, <1>3 DEF LedgerInv, OrderInv, exchange, BookedIds
  <1>5. RowInv'
    <2>1. disk.bound
      BY DEF LedgerInv, RowInv
    <2>. QED
      BY <1>2, <1>3, <2>1 DEF LedgerInv, RowInv, exchange, BookedIds
  <1>6. Books'
    <2>1. funds \in Money /\ ext \in Int
      BY DEF TypeOK
    <2>3. /\ disk.base \in Money
          /\ disk.cash \in Int /\ disk.btc \in Int
      BY <1>1 DEF Rows
    <2>4. fill[i].cash \in Int /\ fill[i].btc \in Int
      BY <1>1 DEF Fills
    <2>2. NoFill.cash = 0 /\ NoFill.btc = 0
      BY DEF NoFill
    <2>. QED
      BY <1>2, <2>1, <2>2, <2>3, <2>4, LimitAssumption DEF LedgerInv, Books, exchange, Money
  <1>. QED BY <1>4, <1>5, <1>6 DEF LedgerInv

\* Saving an intent: an id nobody has used becomes the pending order.
LEMMA LedgerIntended ==
    ASSUME TypeOK, LedgerInv, disk' \in Rows, NEW i \in Ids,
           disk.pending = None, disk.bound,
           i \in minted, journal[i] = NoRequest,
           SameLedger(disk', [disk EXCEPT !.pending = i]),
           disk'.proposal.id = None,
           UNCHANGED <<journal, exchange, minted, ext>>
    PROVE  LedgerInv'
  <1>1. disk \in Rows /\ i # None
    BY NoneAssumption DEF TypeOK
  <1>2. /\ disk'.cash = disk.cash /\ disk'.btc = disk.btc
        /\ disk'.trades = disk.trades /\ disk'.pending = i
        /\ disk'.bound = disk.bound /\ disk'.base = disk.base
    BY <1>1 DEF SameLedger, Rows
  <1>3. BookedIds(disk') = BookedIds(disk)
    BY <1>2 DEF BookedIds
  <1>4. /\ posts[i] = 0 /\ ex[i] = "absent" /\ fill[i] = NoFill
        /\ i \notin BookedIds(disk)
    BY DEF LedgerInv, OrderInv, RowInv
  <1>5. (\A j \in Ids : OrderInv(j))'
    BY <1>2, <1>3, NoneAssumption DEF LedgerInv, OrderInv, exchange, BookedIds
  <1>6. RowInv'
    BY <1>1, <1>2, <1>3, <1>4 DEF LedgerInv, RowInv, exchange, BookedIds
  <1>7. Books'
    BY <1>1, <1>2, <1>4 DEF LedgerInv, Books, exchange
  <1>. QED BY <1>5, <1>6, <1>7 DEF LedgerInv

\* Whatever the copy of a lock holder is when it is saved, the ledger holds.
LEMMA LedgerSaved ==
    ASSUME TypeOK, LedgerInv, Same \/ Candidate \/ Unsaved, disk' = mem,
           UNCHANGED <<journal, exchange, minted, ext>>
    PROVE  LedgerInv'
  <1>0. disk' \in Rows
    BY DEF TypeOK
  <1>1. CASE Same
    BY <1>0, <1>1, LedgerKept DEF Same
  <1>2. CASE Candidate
    BY <1>0, <1>2, LedgerBooked DEF Candidate
  <1>3. CASE Unsaved
    <2>1. mem.pending \in Ids
      BY <1>3 DEF Unsaved, TypeOK
    <2>. QED
      BY <1>0, <1>3, <2>1, LedgerIntended DEF Unsaved
  <1>. QED BY <1>1, <1>2, <1>3

----------------------------------------------------------------------------
(* The lock holder *)

HolderOK ==
    /\ mem \in Rows /\ pc \in Steps /\ op \in Operations /\ phase \in Phases
    /\ ord \in Proposals /\ quote \in Nat
    /\ before \in IPs \cup {None} /\ grant \in Ids \cup {None}
    /\ lateStop \in {"idle", "send", "busy"}

WorldOK ==
    /\ killed \in BOOLEAN
    /\ journal \in [Ids -> [side : Sides \cup {"NONE"}, qty : Nat]]
    /\ ex \in [Ids -> {"absent", "transit", "filled", "odd", "refused"}]
    /\ fill \in [Ids -> Fills]
    /\ funds \in Money
    /\ posts \in [Ids -> Nat]
    /\ now \in Nat
    /\ minted \subseteq Ids
    /\ evals \in Seq(Int) /\ lossDays \subseteq Int /\ ext \in Nat

HolderInv == HolderOK /\ CopyInv /\ FlowInv

\* The invariant regrouped: the row, the world around it, the ledger, the holder.
LEMMA Parts == IInv <=> disk \in Rows /\ WorldOK /\ LedgerInv /\ HolderInv
  BY DEF IInv, TypeOK, WorldOK, HolderOK, HolderInv, LedgerInv

\* The same regrouping of the next state, where the four parts are shown.
LEMMA PartsNext ==
    ASSUME disk' \in Rows, WorldOK', LedgerInv', HolderInv'
    PROVE  IInv'
  BY DEF IInv, TypeOK, WorldOK, HolderOK, HolderInv, LedgerInv

\* A step that touches neither exchange, journal, clock nor history.
LEMMA WorldFrame ==
    ASSUME WorldOK, UNCHANGED <<journal, exchange, now, history>>,
           killed' \in BOOLEAN
    PROVE  WorldOK'
  BY DEF WorldOK, exchange, history

\* The empty proposal is a proposal and carries no id.
LEMMA EmptyProposal == NoProposal \in Proposals /\ NoProposal.id = None
  BY DEF NoProposal, Proposals, Sides

\* Dropping the copy satisfies whatever is asked of the holder.
LEMMA Leaves ==
    ASSUME Leave, disk' \in Rows
    PROVE  HolderInv'
  <1>1. HolderOK'
    BY EmptyProposal DEF Leave, HolderOK, Steps, Operations, Phases
  <1>2. CopyInv'
    BY DEF Leave, CopyInv, Same, SameLedger
  <1>3. FlowInv'
    BY DEF Leave, FlowInv, PhasesOf
  <1>. QED BY <1>1, <1>2, <1>3 DEF HolderInv

\* An exception that reaches step's handler takes any of the copies with it.
LEMMA Raises ==
    ASSUME HolderInv, Raise, disk' \in Rows,
           mem' = mem => (Same \/ Candidate \/ Unsaved)'
    PROVE  HolderInv'
  <1>1. CASE op = "run"
    <2>1. pc' = "halt" /\ mem' = mem /\ op' = op /\ phase' = phase
      BY <1>1 DEF Raise, Continue
    <2>2. HolderOK'
      BY <1>1 DEF Raise, Continue, HolderInv, HolderOK, Steps
    <2>3. CopyInv'
      BY <2>1 DEF CopyInv
    <2>4. FlowInv'
      BY <2>1 DEF FlowInv, HolderInv
    <2>. QED BY <2>2, <2>3, <2>4 DEF HolderInv
  <1>2. CASE op # "run"
    BY <1>2, Leaves DEF Raise
  <1>. QED BY <1>1, <1>2

\* An exception after submit's save leads to its handler or to a plain raise.
LEMMA RaisesInFlight ==
    ASSUME HolderInv, RaiseInFlight, disk' \in Rows,
           mem' = mem => (Same \/ Candidate)'
    PROVE  HolderInv'
  <1>1. CASE phase = "submit"
    <2>1. pc' = "unresolved" /\ mem' = mem /\ op' = op /\ phase' = phase
      BY <1>1 DEF RaiseInFlight, Continue
    <2>2. HolderOK'
      BY <1>1 DEF RaiseInFlight, Continue, HolderInv, HolderOK, Steps
    <2>3. CopyInv'
      BY <2>1 DEF CopyInv
    <2>4. FlowInv'
      BY <2>1 DEF FlowInv, HolderInv
    <2>. QED BY <2>2, <2>3, <2>4 DEF HolderInv
  <1>2. CASE phase # "submit"
    BY <1>2, Raises DEF RaiseInFlight
  <1>. QED BY <1>1, <1>2

\* A step of the holder that changes the switch at most and keeps its copy.
LEMMA StaysSame ==
    ASSUME Same, mem' = mem, UNCHANGED <<disk, journal, exchange, minted>>
    PROVE  Same'
  BY DEF Same, SameLedger

----------------------------------------------------------------------------
(* Three kinds of step *)

\* The row stays: only the holder, or the switch, moves.
LEMMA KeepsRow ==
    ASSUME IInv, UNCHANGED <<disk, journal, exchange, now, history>>,
           killed' \in BOOLEAN, HolderInv'
    PROVE  IInv'
  <1>1. WorldOK' /\ disk' \in Rows /\ TypeOK /\ LedgerInv
    BY Parts, WorldFrame DEF IInv, LedgerInv
  <1>2. LedgerInv'
    BY <1>1, LedgerKept DEF SameLedger, history
  <1>. QED BY <1>1, <1>2, PartsNext

\* The row is rewritten with the ledger it had.
LEMMA MarksRow ==
    ASSUME IInv, disk' \in Rows, SameLedger(disk', disk),
           disk'.proposal \in {disk.proposal, NoProposal},
           UNCHANGED <<journal, exchange, minted, ext>>,
           WorldOK', HolderInv'
    PROVE  IInv'
  <1>1. TypeOK /\ LedgerInv
    BY DEF IInv, LedgerInv
  <1>2. LedgerInv'
    BY <1>1, LedgerKept
  <1>. QED BY <1>2, PartsNext

\* The copy is saved.
LEMMA SavesCopy ==
    ASSUME IInv, disk' = mem, Same \/ Candidate \/ Unsaved,
           UNCHANGED <<journal, exchange, now, history>>,
           killed' \in BOOLEAN, HolderInv'
    PROVE  IInv'
  <1>1. WorldOK' /\ disk' \in Rows /\ TypeOK /\ LedgerInv
    BY Parts, WorldFrame DEF IInv, TypeOK, LedgerInv
  <1>2. LedgerInv'
    BY <1>1, LedgerSaved DEF history
  <1>. QED BY <1>1, <1>2, PartsNext

----------------------------------------------------------------------------
(* IInv is kept: the lock is taken *)

\* Taking the lock keeps the invariant: the holder starts from the row.
LEMMA DispatchStep ==
    ASSUME IInv, Dispatch
    PROVE  IInv'
  <1>1. disk \in Rows /\ killed \in BOOLEAN /\ HolderInv
    BY Parts DEF WorldOK
  <1>2. ASSUME NEW o \in Operations, NEW ph \in Phases, NEW s \in Steps,
               Begin(o, ph, s), before' \in IPs \cup {None}, Unchanged,
               s \notin {"book", "unresolved", "unresolvedsave", "halt", "save"}
        PROVE  HolderOK' /\ CopyInv'
    <2>1. HolderOK'
      BY <1>1, <1>2 DEF Begin, HolderInv, HolderOK
    <2>2. CopyInv'
      BY <1>2 DEF Begin, CopyInv, Same, SameLedger, Unchanged
    <2>. QED BY <2>1, <2>2
  <1>3. CASE BeginIpCheck
    BY <1>1, <1>2, <1>3, KeepsRow
       DEF BeginIpCheck, Start, Begin, Unchanged, FlowInv, PhasesOf, HolderInv, HolderOK,
           Operations, Phases, Steps
  <1>4. CASE BeginPreflight
    BY <1>1, <1>2, <1>4, KeepsRow
       DEF BeginPreflight, Start, Begin, Unchanged, FlowInv, PhasesOf, AfterFlight,
           HolderInv, HolderOK, Operations, Phases, Steps
  <1>5. CASE BeginPrepare
    BY <1>1, <1>2, <1>5, KeepsRow
       DEF BeginPrepare, Start, Begin, Unchanged, FlowInv, PhasesOf, HolderInv, HolderOK,
           Operations, Phases, Steps
  <1>6. CASE BeginApprove
    BY <1>1, <1>2, <1>6, KeepsRow
       DEF BeginApprove, Start, Begin, Unchanged, FlowInv, PhasesOf, HolderInv, HolderOK,
           Operations, Phases, Steps
  <1>7. CASE BeginReconcile
    BY <1>1, <1>2, <1>7, KeepsRow
       DEF BeginReconcile, Start, Begin, Unchanged, FlowInv, PhasesOf, HolderInv,
           HolderOK, Operations, Phases, Steps
  <1>8. CASE BeginResume
    BY <1>1, <1>2, <1>8, KeepsRow
       DEF BeginResume, Settled, Begin, Unchanged, FlowInv, PhasesOf, AfterFlight,
           HolderInv, HolderOK, Operations, Phases, Steps
  <1>9. CASE BeginArm
    BY <1>1, <1>2, <1>9, KeepsRow
       DEF BeginArm, Start, Begin, Unchanged, FlowInv, PhasesOf, HolderInv, HolderOK,
           Operations, Phases, Steps
  <1>10. CASE BeginDisarm
    BY <1>1, <1>2, <1>10, KeepsRow
       DEF BeginDisarm, Start, Begin, Unchanged, FlowInv, PhasesOf, HolderInv, HolderOK,
           Operations, Phases, Steps
  <1>11. CASE BeginRun
    <2>1. HolderOK'
      BY <1>1, <1>11 DEF BeginRun, Start, Begin, HolderInv, HolderOK, Operations,
                         Phases, Steps
    <2>2. Same'
      BY <1>11 DEF BeginRun, Start, Begin, Unchanged, Same, SameLedger
    <2>3. CopyInv'
      BY <1>11, <2>2 DEF CopyInv, BeginRun, Start, Begin
    <2>4. FlowInv'
      BY <1>11 DEF BeginRun, Start, Begin, Unchanged, FlowInv, PhasesOf
    <2>. QED
      BY <1>1, <1>11, <2>1, <2>3, <2>4, KeepsRow
         DEF BeginRun, Start, Unchanged, HolderInv
  <1>. QED
    BY <1>3, <1>4, <1>5, <1>6, <1>7, <1>8, <1>9, <1>10, <1>11 DEF Dispatch

----------------------------------------------------------------------------
(* IInv is kept: the checks *)

\* A holder that moves on with its copy, when nothing else moved.
LEMMA MovesOn ==
    ASSUME IInv, NEW s \in Steps, Continue(s), mem' = mem, Same,
           UNCHANGED <<disk, journal, exchange, now, history>>,
           killed' \in BOOLEAN,
           s \notin {"book", "unresolved", "unresolvedsave", "halt", "save"},
           FlowInv'
    PROVE  IInv'
  <1>1. HolderOK'
    BY Parts DEF HolderInv, HolderOK, Continue
  <1>2. CopyInv'
    BY StaysSame DEF CopyInv, Continue, history
  <1>. QED
    BY <1>1, <1>2, KeepsRow DEF HolderInv

\* An operation that raises before it saves.
LEMMA RaisesUnsaved ==
    ASSUME IInv, Raise, Same, UNCHANGED <<disk, journal, exchange, now, history>>,
           killed' \in BOOLEAN
    PROVE  IInv'
  <1>1. HolderInv /\ disk' \in Rows
    BY Parts
  <1>2. mem' = mem => Same'
    BY StaysSame DEF history
  <1>3. HolderInv'
    BY <1>1, <1>2, Raises
  <1>. QED BY <1>3, KeepsRow

\* check_ip, check_release and preflight keep the invariant.
LEMMA ChecksStep ==
    ASSUME IInv, Checks
    PROVE  IInv'
  <1>1. /\ disk \in Rows /\ mem \in Rows /\ killed \in BOOLEAN /\ HolderInv /\ FlowInv
        /\ CopyInv /\ HolderOK /\ WorldOK
    BY Parts DEF WorldOK, HolderInv, HolderOK
  <1>2. CASE IpVerified
    <2>1. Same /\ disk' = mem
      BY <1>1, <1>2 DEF IpVerified, CopyInv
    <2>2. CASE op = "ip-check"
      BY <1>1, <1>2, <2>1, <2>2, Leaves, SavesCopy DEF IpVerified
    <2>3. CASE op # "ip-check"
      <3>1. Continue("release") /\ mem' = mem
        BY <1>2, <2>3 DEF IpVerified
      <3>2. HolderOK'
        BY <1>1, <3>1 DEF HolderOK, Continue, Steps
      <3>3. CopyInv'
        BY <2>1, <3>1 DEF CopyInv, Continue, Same, SameLedger
      <3>4. FlowInv'
        BY <1>1, <1>2, <2>3, <3>1
           DEF FlowInv, PhasesOf, HolderOK, Operations, Continue, IpVerified
      <3>. QED
        BY <1>1, <1>2, <2>1, <3>2, <3>3, <3>4, SavesCopy DEF HolderInv, IpVerified
    <2>. QED BY <2>2, <2>3
  <1>3. CASE IpRefused
    <2>1. Same
      BY <1>1, <1>3 DEF IpRefused, CopyInv
    <2>2. HolderOK'
      BY <1>1, <1>3, RowMarks DEF HolderOK, IpRefused, Continue, Steps
    <2>3. CopyInv'
      <3>1. SameLedger(mem', mem) /\ mem'.proposal = NoProposal
        BY <1>1, <1>3, RowMarks DEF IpRefused
      <3>. QED
        BY <1>3, <2>1, <3>1 DEF CopyInv, IpRefused, Continue, Same, SameLedger
    <2>4. FlowInv'
      BY <1>1, <1>3 DEF FlowInv, IpRefused, Continue
    <2>. QED
      BY <1>3, <2>2, <2>3, <2>4, KeepsRow DEF HolderInv, IpRefused
  <1>4. CASE IpRefusedSave
    <2>1. Same /\ disk' = mem
      BY <1>1, <1>4 DEF IpRefusedSave, CopyInv
    <2>2. mem' = mem => Same'
      BY <2>1 DEF Same, SameLedger
    <2>3. HolderInv'
      BY <1>1, <1>4, <2>1, <2>2, Raises DEF IpRefusedSave
    <2>. QED
      BY <1>1, <1>4, <2>1, <2>3, SavesCopy DEF IpRefusedSave
  <1>5. CASE Released
    <2>1. Same
      BY <1>1, <1>5 DEF Released, CopyInv
    <2>2. FlowInv'
      BY <1>1, <1>5, <2>1
         DEF FlowInv, Released, Continue, Unchanged, AfterFlight, Same, SameLedger
    <2>. QED
      BY <1>1, <1>5, <2>1, <2>2, MovesOn DEF Released, Unchanged, Steps
  <1>6. CASE Refused
    <2>1. Same
      BY <1>1, <1>6 DEF Refused, CopyInv
    <2>. QED
      BY <1>1, <1>6, <2>1, RaisesUnsaved DEF Refused, Unchanged
  <1>7. CASE \E p \in Prices : Preflight(p)
    <2>1. PICK p \in Prices : Preflight(p)
      BY <1>7
    <2>2. Same
      BY <1>1, <2>1 DEF Preflight, CopyInv
    <2>3. /\ disk' \in Rows /\ disk'.bound
          /\ disk'.base = IF mem.bound THEN mem.base ELSE funds
          /\ disk'.cash = mem.cash /\ disk'.btc = mem.btc
          /\ disk'.trades = mem.trades /\ disk'.pending = mem.pending
          /\ disk'.proposal = mem.proposal
      BY <1>1, <2>1, RowObserved DEF Preflight, WorldOK
    <2>4. disk'.pending = disk.pending /\ BookedIds(disk') = BookedIds(disk)
      BY <2>2, <2>3 DEF Same, SameLedger, BookedIds
    <2>5. WorldOK'
      <3>1. lossDays' \subseteq Int
        <4>1. disk'.day \in Int
          BY <2>3 DEF Rows
        <4>2. Losses(disk') \subseteq Int
          BY <4>1 DEF Losses
        <4>3. lossDays' = lossDays \cup Losses(disk')
          BY <2>1 DEF Preflight
        <4>. QED
          BY <1>1, <4>2, <4>3 DEF WorldOK
      <3>2. ext' \in Nat
        BY <1>1, <2>1 DEF Preflight, WorldOK
      <3>. QED
        BY <1>1, <2>1, <3>1, <3>2 DEF Preflight, WorldOK, exchange
    <2>6. LedgerInv'
      <3>1. CASE disk.bound
        <4>1. SameLedger(disk', disk) /\ ext' = ext
          BY <2>1, <2>2, <2>3, <3>1 DEF Preflight, Same, SameLedger
        <4>2. disk'.proposal \in {disk.proposal, NoProposal}
          BY <2>2, <2>3 DEF Same
        <4>3. TypeOK /\ LedgerInv
          BY Parts DEF IInv
        <4>. QED
          BY <2>1, <2>3, <4>1, <4>2, <4>3, LedgerKept DEF Preflight
      <3>2. CASE ~disk.bound
        <4>1. /\ mem.cash = disk.cash /\ mem.btc = disk.btc
              /\ mem.pending = disk.pending /\ mem.bound = disk.bound
              /\ mem.proposal \in {disk.proposal, NoProposal}
          BY <2>2 DEF Same, SameLedger
        <4>2. /\ disk.pending = None /\ disk.proposal.id = None
              /\ disk.cash = Capital /\ disk.btc = 0
          BY <3>2, Parts DEF LedgerInv, RowInv
        <4>3. ext' = 0 /\ UNCHANGED <<journal, exchange, minted>>
          BY <2>1, <3>2, <4>1 DEF Preflight
        <4>4. (\A i \in Ids : OrderInv(i))'
          BY <2>4, <4>3, Parts DEF LedgerInv, OrderInv, exchange
        <4>5. RowInv'
          BY <2>3, <2>4, <4>1, <4>2, <4>3, EmptyProposal, Parts
             DEF LedgerInv, RowInv, exchange
        <4>6. Books'
          <5>1. funds \in Money
            BY <1>1 DEF WorldOK
          <5>2. disk'.base = funds /\ disk'.cash = Capital /\ disk'.btc = 0
            BY <2>3, <3>2, <4>1, <4>2
          <5>3. NoFill.cash = 0 /\ NoFill.btc = 0
            BY DEF NoFill
          <5>. QED
            BY <2>4, <4>2, <4>3, <5>1, <5>2, <5>3, LimitAssumption
               DEF Books, exchange, Money
        <4>. QED BY <4>4, <4>5, <4>6 DEF LedgerInv
      <3>. QED BY <3>1, <3>2
    <2>7. HolderInv'
      <3>1. CASE op = "preflight"
        BY <2>1, <2>3, <3>1, Leaves DEF Preflight
      <3>2. CASE op # "preflight"
        <4>1. /\ pc' = AfterFlight[phase] /\ quote' = p /\ mem' = disk'
              /\ UNCHANGED <<op, phase, ord, before, grant, lateStop>>
          BY <2>1, <3>2 DEF Preflight
        <4>2. phase \in {"cycle", "prepare", "submit", "arm", "resume"}
          BY <1>1, <2>1, <3>2 DEF FlowInv, PhasesOf, AfterFlight, Preflight, HolderOK,
                                  Operations
        <4>3. pc' = IF phase = "cycle" THEN "slot"
                    ELSE IF phase = "prepare" THEN "offer"
                    ELSE IF phase = "submit" THEN "intend"
                    ELSE IF phase = "arm" THEN "arm" ELSE "accept"
          BY <4>1, <4>2 DEF AfterFlight
        <4>4. HolderOK'
          BY <1>1, <2>3, <4>1, <4>2, <4>3, DomainAssumption DEF HolderOK, Steps
        <4>5. CopyInv'
          BY <4>1, <4>2, <4>3 DEF CopyInv, Same, SameLedger
        <4>6. FlowInv'
          BY <1>1, <2>1, <2>2, <2>3, <2>4, <4>1, <4>2, <4>3
             DEF FlowInv, PhasesOf, Preflight, HolderOK, Operations, Same, SameLedger
        <4>. QED BY <4>4, <4>5, <4>6 DEF HolderInv
      <3>. QED BY <3>1, <3>2
    <2>. QED BY <2>3, <2>5, <2>6, <2>7, PartsNext
  <1>. QED
    BY <1>2, <1>3, <1>4, <1>5, <1>6, <1>7 DEF Checks

----------------------------------------------------------------------------
(* IInv is kept: resume, arm, disarm *)

\* resume, arm, disarm and their saves keep the invariant.
LEMMA ControlStep ==
    ASSUME IInv, Control
    PROVE  IInv'
  <1>1. /\ disk \in Rows /\ mem \in Rows /\ killed \in BOOLEAN /\ HolderInv /\ FlowInv
        /\ CopyInv /\ HolderOK /\ WorldOK
    BY Parts DEF WorldOK, HolderInv, HolderOK
  <1>2. CASE \E ip \in IPs : AcceptIp(ip)
    <2>1. PICK ip \in IPs : AcceptIp(ip)
      BY <1>2
    <2>2. Same
      BY <1>1, <2>1 DEF AcceptIp, CopyInv
    <2>3. /\ mem' \in Rows /\ disk' = mem'
          /\ SameLedger(mem', mem) /\ mem'.proposal = mem.proposal
      BY <1>1, <2>1, RowApproved, DomainAssumption DEF AcceptIp
    <2>4. SameLedger(disk', disk) /\ disk'.proposal \in {disk.proposal, NoProposal}
      BY <2>2, <2>3 DEF Same, SameLedger
    <2>5. HolderInv'
      <3>1. HolderOK'
        BY <1>1, <2>1, <2>3 DEF HolderOK, AcceptIp, Continue, Steps
      <3>2. CopyInv'
        BY <2>1, <2>3 DEF CopyInv, AcceptIp, Continue, Same, SameLedger
      <3>3. FlowInv'
        BY <1>1, <2>1, <2>4 DEF FlowInv, AcceptIp, Continue, SameLedger
      <3>. QED BY <3>1, <3>2, <3>3 DEF HolderInv
    <2>6. WorldOK'
      BY <1>1, <2>1, WorldFrame DEF AcceptIp
    <2>. QED
      BY <2>1, <2>3, <2>4, <2>5, <2>6, MarksRow DEF AcceptIp, history
  <1>3. CASE AddressMoved
    BY <1>1, <1>3, Leaves, KeepsRow DEF AddressMoved
  <1>4. CASE Resume
    <2>1. Same
      BY <1>1, <1>4 DEF Resume, CopyInv
    <2>2. /\ mem' \in Rows /\ SameLedger(mem', mem) /\ mem'.proposal = NoProposal
      BY <1>1, <1>4, RowMarks DEF Resume
    <2>3. HolderOK'
      BY <1>1, <1>4, <2>2 DEF HolderOK, Resume, Continue, Steps
    <2>4. CopyInv'
      BY <1>4, <2>1, <2>2 DEF CopyInv, Resume, Continue, Same, SameLedger
    <2>5. FlowInv'
      BY <1>1, <1>4 DEF FlowInv, Resume, Continue
    <2>. QED
      BY <1>4, <2>3, <2>4, <2>5, KeepsRow DEF HolderInv, Resume
  <1>5. CASE Arm
    <2>1. Same
      BY <1>1, <1>5 DEF Arm, CopyInv
    <2>2. /\ disk' \in Rows /\ SameLedger(disk', mem) /\ disk'.proposal = mem.proposal
      BY <1>1, <1>5, RowMarks DEF Arm
    <2>3. SameLedger(disk', disk) /\ disk'.proposal \in {disk.proposal, NoProposal}
      BY <2>1, <2>2 DEF Same, SameLedger
    <2>4. HolderInv' /\ WorldOK'
      BY <1>1, <1>5, <2>2, Leaves, WorldFrame DEF Arm
    <2>. QED
      BY <1>5, <2>2, <2>3, <2>4, MarksRow DEF Arm, history
  <1>6. CASE Disarm
    <2>1. Same
      BY <1>1, <1>6 DEF Disarm, CopyInv
    <2>2. /\ mem' \in Rows /\ SameLedger(mem', mem) /\ mem'.proposal = NoProposal
      <3>1. WithoutProposal(mem) \in Rows
        BY <1>1, RowMarks
      <3>. QED
        BY <1>1, <1>6, <3>1, RowMarks DEF Disarm, SameLedger
    <2>3. HolderOK'
      BY <1>1, <1>6, <2>2 DEF HolderOK, Disarm, Continue, Steps
    <2>4. CopyInv'
      BY <1>6, <2>1, <2>2 DEF CopyInv, Disarm, Continue, Same, SameLedger
    <2>5. FlowInv'
      BY <1>1, <1>6 DEF FlowInv, Disarm, Continue
    <2>. QED
      BY <1>6, <2>3, <2>4, <2>5, KeepsRow DEF HolderInv, Disarm
  <1>7. CASE SaveAndLeave
    <2>1. disk' = mem /\ (Same \/ Candidate \/ Unsaved)
      BY <1>1, <1>7 DEF SaveAndLeave, CopyInv
    <2>2. HolderInv'
      BY <1>1, <1>7, <2>1, Leaves DEF SaveAndLeave
    <2>. QED
      BY <1>1, <1>7, <2>1, <2>2, SavesCopy DEF SaveAndLeave
  <1>. QED
    BY <1>2, <1>3, <1>4, <1>5, <1>6, <1>7 DEF Control

----------------------------------------------------------------------------
(* IInv is kept: the automatic cycle *)

\* The handler's copy, whatever it was, minus the authorisation and proposal.
LEMMA CopyDisarmed ==
    ASSUME IInv, Same \/ Candidate \/ Unsaved, UNCHANGED <<disk, journal, exchange, minted>>,
           mem' = Disarmed(WithoutProposal(mem))
    PROVE  /\ mem' \in Rows
           /\ (Same \/ Candidate \/ Unsaved)'
  <1>1. /\ mem' \in Rows /\ SameLedger(mem', mem) /\ mem'.proposal = NoProposal
    <2>1. mem \in Rows
      BY DEF IInv, TypeOK
    <2>2. WithoutProposal(mem) \in Rows
      BY <2>1, RowMarks
    <2>. QED BY <2>1, <2>2, RowMarks DEF SameLedger
  <1>2. CASE Same
    BY <1>1, <1>2 DEF Same, SameLedger
  <1>3. CASE Candidate
    BY <1>1, <1>3, EmptyProposal DEF Candidate, SameLedger, Booked, exchange
  <1>4. CASE Unsaved
    BY <1>1, <1>4, EmptyProposal DEF Unsaved, SameLedger
  <1>. QED BY <1>1, <1>2, <1>3, <1>4

\* The automatic cycle, prepare and the handlers of step keep the invariant.
LEMMA CycleStep ==
    ASSUME IInv, Cycle
    PROVE  IInv'
  <1>1. /\ disk \in Rows /\ mem \in Rows /\ killed \in BOOLEAN /\ HolderInv /\ FlowInv
        /\ CopyInv /\ HolderOK /\ WorldOK
    BY Parts DEF WorldOK, HolderInv, HolderOK
  <1>2. CASE ClaimSlot
    <2>1. Same
      BY <1>1, <1>2 DEF ClaimSlot, CopyInv
    <2>2. Slot \in Int
      <3>1. now \in Nat /\ SlotLen \in Nat \ {0}
        BY <1>1, LimitAssumption DEF WorldOK
      <3>. QED BY <3>1 DEF Slot
    <2>3. /\ mem' \in Rows /\ disk' = mem'
          /\ SameLedger(mem', mem) /\ mem'.proposal = mem.proposal
      <3>1. mem' = [mem EXCEPT !.lastSlot = Slot] /\ disk' = mem'
        BY <1>2 DEF ClaimSlot
      <3>. QED BY <1>1, <2>2, <3>1, RowClaimed
    <2>4. SameLedger(disk', disk) /\ disk'.proposal \in {disk.proposal, NoProposal}
      BY <2>1, <2>3 DEF Same, SameLedger
    <2>5. HolderInv'
      <3>1. HolderOK'
        BY <1>1, <1>2, <2>3 DEF HolderOK, ClaimSlot, Continue, Steps
      <3>2. CopyInv'
        BY <1>2, <2>3 DEF CopyInv, ClaimSlot, Continue, Same, SameLedger
      <3>3. FlowInv'
        BY <1>1, <1>2, <2>4 DEF FlowInv, ClaimSlot, Continue, SameLedger
      <3>. QED BY <3>1, <3>2, <3>3 DEF HolderInv
    <2>6. WorldOK'
      BY <1>1, <1>2, <2>2 DEF WorldOK, ClaimSlot, exchange
    <2>. QED
      BY <1>2, <2>3, <2>4, <2>5, <2>6, MarksRow DEF ClaimSlot
  <1>3. CASE SlotTaken
    BY <1>1, <1>3, Leaves, KeepsRow DEF SlotTaken
  <1>4. CASE Wait
    BY <1>1, <1>4, Leaves, KeepsRow DEF Wait
  <1>5. CASE Act
    <2>1. Same /\ op = "run"
      BY <1>1, <1>5 DEF Act, CopyInv, FlowInv
    <2>2. HolderOK'
      BY <1>1, <1>5 DEF HolderOK, Act, Steps, Phases
    <2>3. CopyInv'
      BY <1>5, <2>1 DEF CopyInv, Act, Unchanged, Same, SameLedger
    <2>4. FlowInv'
      BY <1>5, <2>1 DEF FlowInv, PhasesOf, Act
    <2>. QED
      BY <1>1, <1>5, <2>2, <2>3, <2>4, KeepsRow DEF HolderInv, Act, Unchanged
  <1>6. CASE \E i \in Ids, side \in Sides, qty \in Quantities : Offer(i, side, qty)
    <2>1. PICK i \in Ids, side \in Sides, qty \in Quantities : Offer(i, side, qty)
      BY <1>6
    <2>. DEFINE q == [id |-> i, side |-> side, qty |-> qty, ask |-> quote,
                      expires |-> now + Ttl, auto |-> op = "run"]
    <2>2. Same /\ disk.pending = None /\ disk.bound /\ i \notin minted
      BY <1>1, <2>1 DEF Offer, CopyInv, FlowInv, FreshIds
    <2>3. q \in Proposals
      <3>1. now + Ttl \in Nat /\ qty \in Nat /\ quote \in Nat
        <4>1. Ttl \in Nat /\ now \in Nat
          BY <1>1, LimitAssumption DEF WorldOK
        <4>2. quote \in Nat /\ qty \in Nat
          BY <1>1, DomainAssumption DEF HolderOK
        <4>. QED BY <4>1, <4>2
      <3>2. (op = "run") \in BOOLEAN
        OBVIOUS
      <3>. QED BY <3>1, <3>2, Zenon DEF Proposals
    <2>4. /\ disk' \in Rows /\ disk'.proposal = q
          /\ disk'.cash = mem.cash /\ disk'.btc = mem.btc
          /\ disk'.trades = mem.trades /\ disk'.pending = mem.pending
          /\ disk'.bound = mem.bound /\ disk'.base = mem.base
      BY <1>1, <2>1, <2>3 DEF Offer, Rows
    <2>5. /\ SameLedger(disk', disk) /\ disk'.proposal.id = i
          /\ BookedIds(disk') = BookedIds(disk)
      BY <2>2, <2>4 DEF Same, SameLedger, BookedIds
    <2>6. minted' = minted \cup {i} /\ UNCHANGED <<journal, exchange, ext>>
      BY <2>1 DEF Offer
    <2>7. WorldOK'
      BY <1>1, <2>1, <2>6 DEF WorldOK, Offer, exchange
    <2>8. LedgerInv'
      <3>1. (\A j \in Ids : OrderInv(j))'
        BY <2>5, <2>6, Parts DEF LedgerInv, OrderInv, exchange, SameLedger
      <3>2. RowInv'
        <4>1. journal[i] = NoRequest
          BY <2>2, Parts DEF LedgerInv, OrderInv
        <4>. QED
          BY <2>2, <2>5, <2>6, <4>1, Parts
             DEF LedgerInv, RowInv, exchange, SameLedger
      <3>3. Books'
        BY <2>5, <2>6, Parts DEF LedgerInv, Books, exchange, SameLedger
      <3>. QED BY <3>1, <3>2, <3>3 DEF LedgerInv
    <2>9. HolderInv'
      <3>1. CASE op = "run"
        <4>1. Continue("gate") /\ mem' = disk'
          BY <2>1, <3>1 DEF Offer
        <4>2. HolderOK'
          BY <1>1, <2>4, <4>1 DEF HolderOK, Continue, Steps
        <4>3. CopyInv'
          BY <4>1 DEF CopyInv, Continue, Same, SameLedger
        <4>4. FlowInv'
          BY <1>1, <2>2, <2>5, <3>1, <4>1, NoneAssumption
             DEF FlowInv, Continue, SameLedger
        <4>. QED BY <4>2, <4>3, <4>4 DEF HolderInv
      <3>2. CASE op # "run"
        BY <2>1, <2>4, <3>2, Leaves DEF Offer
      <3>. QED BY <3>1, <3>2
    <2>. QED BY <2>4, <2>7, <2>8, <2>9, PartsNext
  <1>7. CASE GatePassed
    <2>1. Same /\ op = "run" /\ mem.proposal.id # None
      BY <1>1, <1>7 DEF GatePassed, CopyInv, FlowInv
    <2>2. HolderOK'
      BY <1>1, <1>7 DEF HolderOK, GatePassed, Steps, Phases
    <2>3. CopyInv'
      BY <1>7, <2>1 DEF CopyInv, GatePassed, Unchanged, Same, SameLedger
    <2>4. FlowInv'
      BY <1>7, <2>1 DEF FlowInv, PhasesOf, GatePassed
    <2>. QED
      BY <1>1, <1>7, <2>2, <2>3, <2>4, KeepsRow DEF HolderInv, GatePassed, Unchanged
  <1>8. CASE GateClosed
    <2>1. Same
      BY <1>1, <1>8 DEF GateClosed, CopyInv
    <2>2. /\ disk' \in Rows /\ SameLedger(disk', disk) /\ disk'.proposal = NoProposal
      BY <1>1, <1>8, <2>1, RowMarks DEF GateClosed, Same, SameLedger
    <2>3. HolderInv' /\ WorldOK'
      BY <1>1, <1>8, <2>2, Leaves, WorldFrame DEF GateClosed
    <2>. QED
      BY <1>8, <2>2, <2>3, MarksRow DEF GateClosed, history
  <1>9. CASE Halt
    <2>1. Same \/ Candidate \/ Unsaved
      BY <1>1, <1>9 DEF Halt, CopyInv
    <2>2. mem' \in Rows /\ (Same \/ Candidate \/ Unsaved)'
      BY <1>9, <2>1, CopyDisarmed DEF Halt, history
    <2>3. HolderOK'
      BY <1>1, <1>9, <2>2 DEF HolderOK, Halt, Continue, Steps
    <2>4. CopyInv'
      BY <1>9, <2>2 DEF CopyInv, Halt, Continue
    <2>5. FlowInv'
      BY <1>1, <1>9 DEF FlowInv, Halt, Continue
    <2>. QED
      BY <1>9, <2>3, <2>4, <2>5, KeepsRow DEF HolderInv, Halt
  <1>10. CASE Park
    <2>1. Same /\ disk.pending # None
      BY <1>1, <1>10 DEF Park, CopyInv, FlowInv
    <2>2. mem' \in Rows /\ SameLedger(mem', mem) /\ mem'.proposal = mem.proposal
      BY <1>1, <1>10, RowMarks DEF Park
    <2>3. HolderOK'
      BY <1>1, <1>10, <2>2 DEF HolderOK, Park, Continue, Steps
    <2>4. CopyInv'
      BY <1>10, <2>1, <2>2 DEF CopyInv, Park, Continue, Same, SameLedger
    <2>5. FlowInv'
      BY <1>1, <1>10, <2>1 DEF FlowInv, Park, Continue
    <2>. QED
      BY <1>10, <2>3, <2>4, <2>5, KeepsRow DEF HolderInv, Park
  <1>11. CASE ParkSave
    <2>1. Same /\ disk' = mem /\ Continue("query") /\ mem' = mem /\ disk.pending # None
      BY <1>1, <1>11 DEF ParkSave, CopyInv, FlowInv
    <2>2. HolderOK'
      BY <1>1, <2>1 DEF HolderOK, Continue, Steps
    <2>3. CopyInv'
      BY <2>1 DEF CopyInv, Continue, Same, SameLedger
    <2>4. FlowInv'
      BY <1>1, <2>1 DEF FlowInv, Continue, Same, SameLedger
    <2>. QED
      BY <1>1, <1>11, <2>1, <2>2, <2>3, <2>4, SavesCopy DEF HolderInv, ParkSave
  <1>. QED
    BY <1>2, <1>3, <1>4, <1>5, <1>6, <1>7, <1>8, <1>9, <1>10, <1>11 DEF Cycle

----------------------------------------------------------------------------
(* IInv is kept: submit and place_order *)

\* submit's handler is reached with the row's own copy.
LEMMA MovesToUnresolved ==
    ASSUME IInv, Continue("unresolved"), mem' = mem, Same,
           UNCHANGED <<disk, journal, exchange, now, history>>,
           killed' \in BOOLEAN
    PROVE  IInv'
  <1>1. HolderOK'
    BY Parts DEF HolderInv, HolderOK, Continue, Steps
  <1>2. CopyInv'
    BY StaysSame DEF CopyInv, Continue, history
  <1>3. FlowInv'
    BY Parts DEF FlowInv, HolderInv, Continue
  <1>. QED
    BY <1>1, <1>2, <1>3, KeepsRow DEF HolderInv

\* submit and place_order keep the invariant up to the reply.
LEMMA SubmitStep ==
    ASSUME IInv, Submit
    PROVE  IInv'
  <1>1. /\ disk \in Rows /\ mem \in Rows /\ killed \in BOOLEAN /\ HolderInv /\ FlowInv
        /\ CopyInv /\ HolderOK /\ WorldOK /\ LedgerInv
    BY Parts DEF WorldOK, HolderInv, HolderOK
  <1>2. ASSUME Approvable
        PROVE  /\ Same /\ disk.pending = None /\ disk.bound
               /\ mem.proposal = disk.proposal
               /\ mem.proposal.id \in Ids /\ mem.proposal.id \in minted
               /\ mem.proposal \in Proposals
               /\ journal[mem.proposal.id] = NoRequest /\ posts[mem.proposal.id] = 0
               /\ IntentRow(mem) \in Rows
               /\ IntentRow(mem).pending = mem.proposal.id
               /\ IntentRow(mem).proposal = NoProposal
               /\ SameLedger(IntentRow(mem), [disk EXCEPT !.pending = mem.proposal.id])
    <2>1. Same /\ disk.pending = None /\ disk.bound /\ mem.proposal.id # None
      BY <1>1, <1>2 DEF Approvable, CopyInv, FlowInv
    <2>2. mem.proposal = disk.proposal
      BY <2>1, EmptyProposal DEF Same
    <2>3. mem.proposal \in Proposals /\ mem.proposal.id \in Ids
      BY <1>1, <2>1 DEF Rows, Proposals
    <2>4. mem.proposal.id \in minted /\ journal[mem.proposal.id] = NoRequest
      BY <1>1, <2>1, <2>2 DEF LedgerInv, RowInv
    <2>5. posts[mem.proposal.id] = 0
      BY <1>1, <2>3, <2>4 DEF LedgerInv, OrderInv
    <2>6. /\ IntentRow(mem) \in Rows
          /\ SameLedger(IntentRow(mem), [mem EXCEPT !.pending = mem.proposal.id])
          /\ IntentRow(mem).pending = mem.proposal.id
          /\ IntentRow(mem).proposal = NoProposal
      BY <1>1, RowIntent
    <2>7. SameLedger(IntentRow(mem), [disk EXCEPT !.pending = mem.proposal.id])
      BY <1>1, <2>1, <2>6 DEF Same, SameLedger, Rows
    <2>. QED BY <2>1, <2>2, <2>3, <2>4, <2>5, <2>6, <2>7
  <1>3. CASE Intend
    <2>. DEFINE i == mem.proposal.id
    <2>1. Approvable /\ mem' = IntentRow(mem) /\ disk' = mem'
      BY <1>3 DEF Intend, SaveIntent
    <2>2. /\ disk' \in Rows /\ SameLedger(disk', [disk EXCEPT !.pending = i])
          /\ disk'.proposal.id = None
      BY <1>2, <2>1, EmptyProposal
    <2>3. WorldOK'
      BY <1>1, <1>3, WorldFrame DEF Intend
    <2>4. LedgerInv'
      <3>1. TypeOK
        BY DEF IInv
      <3>2. UNCHANGED <<journal, exchange, minted, ext>>
        BY <1>3 DEF Intend, history
      <3>. QED
        BY <1>1, <1>2, <2>1, <2>2, <3>1, <3>2, LedgerIntended
    <2>5. HolderInv'
      <3>1. HolderOK'
        BY <1>1, <1>2, <1>3, <2>1, <2>2 DEF HolderOK, Intend, Steps
      <3>2. CopyInv'
        BY <1>3, <2>1 DEF CopyInv, Intend, Same, SameLedger
      <3>3. FlowInv'
        <4>1. disk'.pending = i /\ ord' = mem.proposal /\ posts' = posts
          BY <1>2, <1>3, <2>1 DEF Intend, exchange
        <4>2. ord'.side \in Sides /\ i # None
          BY <1>2, <2>1, <4>1, NoneAssumption DEF Proposals
        <4>. QED
          BY <1>1, <1>2, <1>3, <2>1, <4>1, <4>2 DEF FlowInv, Intend
      <3>. QED BY <3>1, <3>2, <3>3 DEF HolderInv
    <2>. QED BY <2>2, <2>3, <2>4, <2>5, PartsNext
  <1>4. CASE IntendUnsaved
    <2>1. Approvable
      BY <1>4 DEF IntendUnsaved
    <2>2. CASE op = "run"
      <3>1. Continue("halt") /\ mem' = IntentRow(mem) /\ UNCHANGED disk
        BY <1>4, <2>2 DEF IntendUnsaved
      <3>2. HolderOK'
        BY <1>1, <1>2, <2>1, <3>1 DEF HolderOK, Continue, Steps
      <3>3. Unsaved'
        BY <1>2, <1>4, <2>1, <3>1, EmptyProposal DEF Unsaved, IntendUnsaved, history
      <3>4. CopyInv'
        BY <3>1, <3>3 DEF CopyInv, Continue
      <3>5. FlowInv'
        BY <1>1, <3>1 DEF FlowInv, Continue
      <3>. QED
        BY <1>1, <1>4, <3>2, <3>4, <3>5, KeepsRow DEF HolderInv, IntendUnsaved
    <2>3. CASE op # "run"
      BY <1>1, <1>4, <2>3, Leaves, KeepsRow DEF IntendUnsaved
    <2>. QED BY <2>2, <2>3
  <1>5. CASE Place
    <2>1. Same
      BY <1>1, <1>5 DEF Place, CopyInv
    <2>2. CASE killed
      BY <1>1, <1>5, <2>1, <2>2, MovesToUnresolved DEF Place, Unchanged
    <2>3. CASE ~killed
      <3>1. Continue("claim")
        BY <1>5, <2>3 DEF Place
      <3>2. FlowInv'
        BY <1>1, <1>5, <3>1 DEF FlowInv, Place, Continue, Unchanged, exchange
      <3>. QED
        BY <1>1, <1>5, <2>1, <3>1, <3>2, MovesOn DEF Place, Unchanged, Steps
    <2>. QED BY <2>2, <2>3
  <1>6. CASE Claim
    <2>1. /\ Same /\ ord.id = disk.pending /\ ord.id \in Ids /\ posts[ord.id] = 0
          /\ ord.side \in Sides
      BY <1>1, <1>6 DEF Claim, CopyInv, FlowInv, HolderOK, Proposals
    <2>2. CASE journal[ord.id] # NoRequest
      <3>1. Continue("settle") /\ UNCHANGED journal
        BY <1>6, <2>2 DEF Claim
      <3>2. FlowInv'
        BY <1>1, <1>6, <3>1 DEF FlowInv, Claim, Continue
      <3>. QED
        BY <1>1, <1>6, <2>1, <3>1, <3>2, MovesOn DEF Claim, Steps
    <2>3. CASE journal[ord.id] = NoRequest
      <3>. DEFINE r == [side |-> ord.side, qty |-> ord.qty]
      <3>1. /\ Continue("recheck") /\ journal' = [journal EXCEPT ![ord.id] = r]
            /\ mem' = mem /\ UNCHANGED <<disk, killed, exchange, now, history>>
        BY <1>6, <2>3 DEF Claim
      <3>2. r \in [side : Sides \cup {"NONE"}, qty : Nat] /\ r # NoRequest
        BY <1>1, <2>1 DEF HolderOK, Proposals, NoRequest, Sides
      <3>3. WorldOK'
        BY <1>1, <2>1, <3>1, <3>2 DEF WorldOK, exchange, history
      <3>4. LedgerInv'
        <4>1. journal'[ord.id] # NoRequest
          BY <1>1, <2>1, <3>1, <3>2 DEF WorldOK
        <4>2. \A i \in Ids : i # ord.id => journal'[i] = journal[i]
          BY <1>1, <3>1 DEF WorldOK
        <4>3. (\A i \in Ids : OrderInv(i))'
          BY <1>1, <2>1, <3>1, <4>1, <4>2, NoneAssumption
             DEF LedgerInv, OrderInv, RowInv, BookedIds, exchange, history
        <4>4. RowInv'
          BY <1>1, <2>1, <3>1, <4>2, NoneAssumption
             DEF LedgerInv, RowInv, BookedIds, exchange, history
        <4>5. Books'
          BY <1>1, <3>1 DEF LedgerInv, Books, exchange, history
        <4>. QED BY <4>3, <4>4, <4>5 DEF LedgerInv
      <3>5. HolderInv'
        <4>1. HolderOK'
          BY <1>1, <3>1 DEF HolderOK, Continue, Steps
        <4>2. CopyInv'
          BY <2>1, <3>1 DEF CopyInv, Continue, Same, SameLedger
        <4>3. journal'[ord.id] # NoRequest
          BY <1>1, <2>1, <3>1, <3>2 DEF WorldOK
        <4>4. FlowInv'
          BY <1>1, <1>6, <2>1, <3>1, <4>3 DEF FlowInv, Continue, exchange, Claim
        <4>. QED BY <4>1, <4>2, <4>4 DEF HolderInv
      <3>. QED
        BY <1>1, <3>1, <3>3, <3>4, <3>5, PartsNext
    <2>. QED BY <2>2, <2>3
  <1>7. CASE Recheck
    <2>1. Same
      BY <1>1, <1>7 DEF Recheck, CopyInv
    <2>2. CASE StopSeen
      BY <1>1, <1>7, <2>1, <2>2, MovesToUnresolved DEF Recheck, Unchanged
    <2>3. CASE ~StopSeen
      <3>1. Continue("send")
        BY <1>7, <2>3 DEF Recheck
      <3>2. FlowInv'
        BY <1>1, <1>7, <3>1 DEF FlowInv, Recheck, Continue, Unchanged, exchange
      <3>. QED
        BY <1>1, <1>7, <2>1, <3>1, <3>2, MovesOn DEF Recheck, Unchanged, Steps
    <2>. QED BY <2>2, <2>3
  <1>8. CASE RequestRefused
    <2>1. Same
      BY <1>1, <1>8 DEF RequestRefused, CopyInv
    <2>. QED
      BY <1>1, <1>8, <2>1, MovesToUnresolved DEF RequestRefused, Unchanged
  <1>9. CASE Send
    <2>1. /\ Same /\ ord.id = disk.pending /\ ord.id \in Ids /\ posts[ord.id] = 0
          /\ journal[ord.id] # NoRequest /\ ord.side \in Sides
      BY <1>1, <1>9 DEF Send, CopyInv, FlowInv, HolderOK, Proposals
    <2>2. Same'
      BY <1>9, <2>1 DEF Send, Same, SameLedger
    <2>3. HolderOK'
      BY <1>1, <1>9 DEF HolderOK, Send, Steps
    <2>4. CopyInv'
      BY <1>9, <2>2 DEF CopyInv, Send
    <2>5. CASE grant = ord.id
      <3>1. /\ posts' = [posts EXCEPT ![ord.id] = @ + 1]
            /\ ex' = [ex EXCEPT ![ord.id] = "transit"]
            /\ pc' = "await" /\ UNCHANGED <<op, phase, ord>>
            /\ UNCHANGED <<disk, killed, journal, fill, funds, now, history>>
        BY <1>9, <2>5 DEF Send
      <3>2. /\ posts'[ord.id] = 1 /\ ex'[ord.id] = "transit"
            /\ \A i \in Ids : i # ord.id => posts'[i] = posts[i] /\ ex'[i] = ex[i]
        BY <1>1, <2>1, <3>1 DEF WorldOK
      <3>3. WorldOK'
        BY <1>1, <2>1, <3>1 DEF WorldOK, history
      <3>4. ex[ord.id] = "absent" /\ ord.id \notin BookedIds(disk)
        BY <1>1, <2>1, NoneAssumption DEF LedgerInv, OrderInv, RowInv
      <3>5. (\A i \in Ids : OrderInv(i))'
        BY <1>1, <2>1, <3>1, <3>2, <3>4
           DEF LedgerInv, OrderInv, BookedIds, history
      <3>6. BookedIds(disk) \subseteq Ids
        BY <1>1, BookedAreIds
      <3>7. RowInv'
        BY <1>1, <3>1, <3>2, <3>4, <3>6 DEF LedgerInv, RowInv, BookedIds, history
      <3>8. Books'
        BY <1>1, <3>1 DEF LedgerInv, Books, history
      <3>9. FlowInv'
        BY <1>1, <1>9, <3>1 DEF FlowInv, Send
      <3>. QED
        BY <1>1, <2>3, <2>4, <3>1, <3>3, <3>5, <3>7, <3>8, <3>9, PartsNext
           DEF LedgerInv, HolderInv
    <2>6. CASE grant # ord.id
      <3>1. /\ UNCHANGED <<disk, journal, exchange, now, history, killed, op, phase>>
            /\ pc' = "unresolved"
        BY <1>9, <2>6 DEF Send, exchange
      <3>2. FlowInv'
        BY <1>1, <3>1 DEF FlowInv
      <3>. QED
        BY <1>1, <2>3, <2>4, <3>1, <3>2, KeepsRow DEF HolderInv
    <2>. QED BY <2>5, <2>6
  <1>10. CASE Answered
    <2>1. Same
      BY <1>1, <1>10 DEF Answered, CopyInv
    <2>2. FlowInv'
      BY <1>1, <1>10 DEF FlowInv, Answered, Continue, Unchanged
    <2>. QED
      BY <1>1, <1>10, <2>1, <2>2, MovesOn DEF Answered, Unchanged, Steps
  <1>11. CASE AnsweredError
    <2>1. Same
      BY <1>1, <1>11 DEF AnsweredError, CopyInv
    <2>. QED
      BY <1>1, <1>11, <2>1, MovesToUnresolved DEF AnsweredError, MayTrip
  <1>12. CASE NoAnswer
    <2>1. Same
      BY <1>1, <1>12 DEF NoAnswer, CopyInv
    <2>2. FlowInv'
      BY <1>1, <1>12 DEF FlowInv, NoAnswer, Continue
    <2>. QED
      BY <1>1, <1>12, <2>1, <2>2, MovesOn DEF NoAnswer, MayTrip, Steps
  <1>. QED
    BY <1>3, <1>4, <1>5, <1>6, <1>7, <1>8, <1>9, <1>10, <1>11, <1>12 DEF Submit

----------------------------------------------------------------------------
(* IInv is kept: the answer is looked for and booked *)

\* Replies, reconciliations and the booking keep the invariant.
LEMMA ReconcileStep ==
    ASSUME IInv, Reconcile
    PROVE  IInv'
  <1>1. /\ disk \in Rows /\ mem \in Rows /\ killed \in BOOLEAN /\ HolderInv /\ FlowInv
        /\ CopyInv /\ HolderOK /\ WorldOK /\ LedgerInv
    BY Parts DEF WorldOK, HolderInv, HolderOK
  <1>2. CASE SettleFound
    <2>1. Same /\ ord.id = disk.pending /\ ord.id # None
      BY <1>1, <1>2 DEF SettleFound, CopyInv, FlowInv
    <2>2. FlowInv'
      BY <1>1, <1>2, <2>1 DEF FlowInv, SettleFound, Continue
    <2>. QED
      BY <1>1, <1>2, <2>1, <2>2, MovesOn DEF SettleFound, MayTrip, Steps
  <1>3. CASE SettleUnknown
    <2>1. Same
      BY <1>1, <1>3 DEF SettleUnknown, CopyInv
    <2>. QED
      BY <1>1, <1>3, <2>1, MovesToUnresolved DEF SettleUnknown
  <1>4. CASE QueryFound
    <2>1. Same /\ disk.pending # None /\ mem.pending = disk.pending
      BY <1>1, <1>4 DEF QueryFound, CopyInv, FlowInv, Same, SameLedger
    <2>2. NotNegative(Booked(disk, disk.pending))
      <3>1. disk.pending \in Ids /\ fill \in [Ids -> Fills]
        BY <1>1, <2>1 DEF Rows, WorldOK
      <3>2. /\ Booked(mem, disk.pending).cash = Booked(disk, disk.pending).cash
            /\ Booked(mem, disk.pending).btc = Booked(disk, disk.pending).btc
        BY <1>1, <2>1, <3>1, BookedSame DEF Same, SameLedger
      <3>. QED BY <1>4, <2>1, <3>2 DEF QueryFound, NotNegative
    <2>3. FlowInv'
      <3>1. (NotNegative(Booked(disk, disk.pending)))'
        BY <1>4, <2>2 DEF QueryFound, Unchanged, exchange, NotNegative, Booked
      <3>. QED
        BY <1>1, <1>4, <2>1, <3>1
           DEF FlowInv, QueryFound, Continue, Unchanged, exchange
    <2>. QED
      BY <1>1, <1>4, <2>1, <2>3, MovesOn DEF QueryFound, Unchanged, Steps
  <1>5. CASE VerifyFound
    <2>1. /\ Same /\ disk.pending # None /\ mem.pending = disk.pending
          /\ ex[disk.pending] = "filled"
          /\ NotNegative(Booked(disk, disk.pending))
          /\ disk.proposal.id = None
      BY <1>1, <1>5 DEF VerifyFound, CopyInv, FlowInv, Same, SameLedger, LedgerInv, RowInv
    <2>. DEFINE i == disk.pending
    <2>2. i \in Ids /\ fill \in [Ids -> Fills]
      BY <1>1, <2>1 DEF Rows, WorldOK
    <2>3. mem' = Booked(mem, i) /\ Continue("book") /\ Unchanged
      BY <1>5, <2>1 DEF VerifyFound
    <2>4. SameLedger(mem', Booked(disk, i)) /\ mem'.proposal = mem.proposal
      <3>1. SameLedger(Booked(mem, i), Booked(disk, i))
        BY <1>1, <2>1, <2>2, BookedSame DEF Same
      <3>2. Booked(mem, i).proposal = mem.proposal
        BY <1>1, <2>2, RowBooked
      <3>. QED BY <2>3, <3>1, <3>2
    <2>5. mem' \in Rows
      <3>1. NotNegative(Booked(mem, i))
        <4>1. /\ Booked(mem, i).cash = Booked(disk, i).cash
              /\ Booked(mem, i).btc = Booked(disk, i).btc
          BY <2>3, <2>4 DEF SameLedger
        <4>. QED BY <2>1, <4>1 DEF NotNegative
      <3>. QED BY <1>1, <2>2, <2>3, <3>1, RowBooked
    <2>6. HolderOK'
      BY <1>1, <2>3, <2>5 DEF HolderOK, Continue, Steps
    <2>7. Candidate'
      <3>1. (SameLedger(mem, Booked(disk, disk.pending)))'
        BY <2>3, <2>4 DEF Unchanged, exchange, SameLedger, Booked
      <3>2. mem.proposal.id = None
        BY <2>1, EmptyProposal DEF Same
      <3>. QED
        BY <2>1, <2>3, <2>4, <3>1, <3>2 DEF Candidate, Unchanged, exchange
    <2>8. CopyInv'
      BY <2>3, <2>7 DEF CopyInv, Continue
    <2>9. FlowInv'
      BY <1>1, <2>3 DEF FlowInv, Continue
    <2>. QED
      BY <1>1, <2>3, <2>6, <2>8, <2>9, KeepsRow DEF HolderInv, Unchanged
  <1>6. CASE ReconcileRaises
    <2>1. Same
      BY <1>1, <1>6 DEF ReconcileRaises, CopyInv
    <2>2. mem' = mem => (Same \/ Candidate)'
      BY <1>6, <2>1, StaysSame DEF ReconcileRaises, history
    <2>3. HolderInv'
      BY <1>1, <1>6, <2>2, RaisesInFlight DEF ReconcileRaises
    <2>. QED
      BY <1>1, <1>6, <2>3, KeepsRow DEF ReconcileRaises, MayTrip
  <1>7. CASE Book
    <2>1. Candidate /\ disk' = mem
      BY <1>1, <1>7 DEF Book, CopyInv
    <2>2. HolderInv'
      BY <1>1, <1>7, <2>1, Leaves DEF Book
    <2>. QED
      BY <1>1, <1>7, <2>1, <2>2, SavesCopy DEF Book
  <1>8. CASE BookUnsaved
    <2>1. Candidate
      BY <1>1, <1>8 DEF BookUnsaved, CopyInv
    <2>2. mem' = mem => Candidate'
      BY <1>8, <2>1 DEF BookUnsaved, Candidate, SameLedger, Booked, exchange
    <2>3. HolderInv'
      BY <1>1, <1>8, <2>2, RaisesInFlight DEF BookUnsaved
    <2>. QED
      BY <1>1, <1>8, <2>3, KeepsRow DEF BookUnsaved
  <1>9. CASE Unresolved
    <2>1. Same \/ Candidate
      BY <1>1, <1>9 DEF Unresolved, CopyInv
    <2>2. mem' = mem /\ Continue("unresolvedsave")
          /\ UNCHANGED <<disk, journal, exchange, now, history>> /\ killed' = TRUE
      BY <1>9 DEF Unresolved
    <2>3. (Same \/ Candidate)'
      <3>1. CASE Same
        BY <2>2, <3>1, StaysSame DEF history
      <3>2. CASE Candidate
        BY <2>2, <3>2 DEF Candidate, SameLedger, Booked, exchange
      <3>. QED BY <2>1, <3>1, <3>2
    <2>4. HolderOK'
      BY <1>1, <2>2 DEF HolderOK, Continue, Steps
    <2>5. CopyInv'
      BY <2>2, <2>3 DEF CopyInv, Continue
    <2>6. FlowInv'
      BY <1>1, <2>2 DEF FlowInv, Continue
    <2>. QED
      BY <1>1, <2>2, <2>4, <2>5, <2>6, KeepsRow DEF HolderInv
  <1>10. CASE UnresolvedSave
    <2>1. (Same \/ Candidate) /\ disk' = mem
      BY <1>1, <1>10 DEF UnresolvedSave, UnresolvedRow, CopyInv
    <2>2. mem' = mem => Same'
      BY <2>1 DEF Same, SameLedger
    <2>3. HolderInv'
      BY <1>1, <1>10, <2>1, <2>2, Raises DEF UnresolvedSave
    <2>. QED
      BY <1>1, <1>10, <2>1, <2>3, SavesCopy DEF UnresolvedSave
  <1>. QED
    BY <1>2, <1>3, <1>4, <1>5, <1>6, <1>7, <1>8, <1>9, <1>10 DEF Reconcile

----------------------------------------------------------------------------
(* IInv is kept: what moves beside the lock holder *)

\* An outcome is given to the one order in transit, which is the pending one.
LEMMA OutcomeStep ==
    ASSUME IInv, NEW i \in Ids, ex[i] = "transit",
           NEW f \in Fills, NEW o \in {"filled", "odd", "refused"},
           o = "refused" => f = NoFill,
           ex' = [ex EXCEPT ![i] = o], fill' = [fill EXCEPT ![i] = f],
           funds' = [cash |-> funds.cash + f.cash, btc |-> funds.btc + f.btc],
           UNCHANGED <<disk, killed, journal, process, posts, now, history, lateStop>>
    PROVE  IInv'
  <1>1. /\ disk \in Rows /\ HolderInv /\ FlowInv
        /\ CopyInv /\ HolderOK /\ WorldOK /\ LedgerInv
    BY Parts DEF HolderInv
  <1>2. /\ ex'[i] = o /\ fill'[i] = f
        /\ \A j \in Ids : j # i => ex'[j] = ex[j] /\ fill'[j] = fill[j]
    BY <1>1 DEF WorldOK
  <1>3. i = disk.pending /\ i # None /\ i \notin BookedIds(disk) /\ fill[i] = NoFill
    <2>1. posts[i] # 0 /\ fill[i] = NoFill
      BY <1>1 DEF LedgerInv, OrderInv
    <2>2. posts[i] > 0
      BY <1>1, <2>1 DEF WorldOK
    <2>3. i = disk.pending \/ i \in BookedIds(disk)
      BY <1>1, <2>2 DEF LedgerInv, OrderInv
    <2>4. i \notin BookedIds(disk)
      BY <1>1 DEF LedgerInv, RowInv
    <2>. QED BY <2>1, <2>3, <2>4, NoneAssumption
  <1>4. WorldOK'
    <2>1. f.cash \in Int /\ f.btc \in Int /\ funds.cash \in Int /\ funds.btc \in Int
      BY <1>1 DEF WorldOK, Money, Fills
    <2>. QED BY <1>1, <2>1 DEF WorldOK, Money, history
  <1>5. LedgerInv'
    <2>1. (\A j \in Ids : OrderInv(j))'
      BY <1>1, <1>2, <1>3 DEF LedgerInv, OrderInv, BookedIds, history
    <2>2. RowInv'
      <3>1. BookedIds(disk) \subseteq Ids
        BY <1>1, BookedAreIds
      <3>. QED
        BY <1>1, <1>2, <1>3, <3>1 DEF LedgerInv, RowInv, BookedIds, history
    <2>3. Books'
      <3>1. /\ funds.cash \in Int /\ funds.btc \in Int /\ f.cash \in Int /\ f.btc \in Int
            /\ ext \in Int
        BY <1>1 DEF WorldOK, Money, Fills
      <3>2. /\ disk.cash \in Int /\ disk.btc \in Int
            /\ disk.base.cash \in Int /\ disk.base.btc \in Int
        BY <1>1 DEF Rows, Money
      <3>3. Capital \in Int /\ NoFill.cash = 0 /\ NoFill.btc = 0
        BY LimitAssumption DEF NoFill
      <3>4. disk.bound =>
              /\ funds.cash = disk.base.cash + disk.cash - Capital + ext
              /\ funds.btc = disk.base.btc + disk.btc
        BY <1>1, <1>3, <3>1, <3>2, <3>3 DEF LedgerInv, Books
      <3>. QED
        BY <1>2, <1>3, <3>1, <3>2, <3>3, <3>4 DEF Books, history
    <2>. QED BY <2>1, <2>2, <2>3 DEF LedgerInv
  <1>6. HolderInv'
    <2>1. HolderOK'
      BY <1>1 DEF HolderOK, process
    <2>2. pc # "book" /\ pc # "verify" /\ ~Candidate
      BY <1>1, <1>3 DEF CopyInv, Candidate, FlowInv
    <2>3. CopyInv'
      BY <1>1, <1>3, <2>2 DEF CopyInv, Same, Unsaved, SameLedger, process, history
    <2>4. FlowInv'
      BY <1>1, <2>2 DEF FlowInv, process
    <2>. QED BY <2>1, <2>3, <2>4 DEF HolderInv
  <1>. QED BY <1>1, <1>4, <1>5, <1>6, PartsNext

\* Nothing the holder has established depends on the switch, the clock or the
\* amount on the account.
LEMMA HolderFrame ==
    ASSUME HolderInv, UNCHANGED <<disk, journal, process, ex, fill, posts, minted>>,
           lateStop' \in {"idle", "send", "busy"}
    PROVE  HolderInv'
  <1>1. HolderOK'
    BY DEF HolderInv, HolderOK, process
  <1>2. CopyInv'
    BY DEF HolderInv, CopyInv, Same, Candidate, Unsaved, SameLedger, Booked, process
  <1>3. FlowInv'
    BY DEF HolderInv, FlowInv, NotNegative, Booked, process
  <1>. QED BY <1>1, <1>2, <1>3 DEF HolderInv

\* The stop, a crash, the clock, the owner and the exchange keep the invariant.
LEMMA EnvironmentStep ==
    ASSUME IInv, Environment
    PROVE  IInv'
  <1>1. /\ disk \in Rows /\ killed \in BOOLEAN /\ HolderInv /\ WorldOK /\ LedgerInv
    BY Parts DEF WorldOK
  <1>2. CASE EmergencyStop
    <2>1. HolderInv'
      BY <1>1, <1>2, HolderFrame DEF EmergencyStop, exchange, history
    <2>. QED BY <1>2, <2>1, KeepsRow DEF EmergencyStop
  <1>3. CASE Crash
    BY <1>1, <1>3, Leaves, KeepsRow DEF Crash
  <1>4. CASE Tick
    <2>1. HolderInv'
      <3>1. lateStop' \in {"idle", "send", "busy"}
        BY <1>1, <1>4 DEF Tick, HolderInv, HolderOK
      <3>. QED BY <1>1, <1>4, <3>1, HolderFrame DEF Tick, exchange, history
    <2>2. WorldOK'
      BY <1>1, <1>4 DEF WorldOK, Tick, exchange, history
    <2>. QED
      BY <1>1, <1>4, <2>1, <2>2, MarksRow DEF Tick, history, SameLedger
  <1>5. CASE Deposit
    <2>1. HolderInv'
      <3>1. lateStop' \in {"idle", "send", "busy"}
        BY <1>1, <1>5 DEF Deposit, HolderInv, HolderOK
      <3>. QED BY <1>1, <1>5, <3>1, HolderFrame DEF Deposit
    <2>2. WorldOK'
      <3>1. funds' \in Money
        <4>1. funds \in Money
          BY <1>1 DEF WorldOK
        <4>2. funds' = [funds EXCEPT !.cash = @ + 1]
          BY <1>5 DEF Deposit
        <4>. QED BY <4>1, <4>2 DEF Money
      <3>2. ext' \in Nat
        BY <1>1, <1>5 DEF WorldOK, Deposit
      <3>. QED BY <1>1, <1>5, <3>1, <3>2 DEF WorldOK, Deposit
    <2>3. LedgerInv'
      <3>1. (\A i \in Ids : OrderInv(i))'
        BY <1>1, <1>5 DEF LedgerInv, OrderInv, BookedIds, Deposit
      <3>2. RowInv'
        BY <1>1, <1>5 DEF LedgerInv, RowInv, BookedIds, Deposit
      <3>3. Books'
        <4>1. /\ funds'.cash = funds.cash + 1 /\ funds'.btc = funds.btc
              /\ ext' = ext + 1 /\ disk' = disk /\ fill' = fill
          BY <1>1, <1>5 DEF Deposit, WorldOK, Money
        <4>. DEFINE open == IF disk.pending = None THEN NoFill ELSE fill[disk.pending]
        <4>2. funds.cash \in Int /\ ext \in Int
          BY <1>1 DEF WorldOK, Money
        <4>3. disk.cash \in Int /\ disk.base.cash \in Int
          BY <1>1 DEF Rows, Money
        <4>4. open.cash \in Int
          BY <1>1 DEF Rows, WorldOK, Fills, NoFill
        <4>5. Capital \in Int
          BY LimitAssumption
        <4>6. disk.bound =>
                /\ funds.cash = disk.base.cash + disk.cash - Capital + open.cash + ext
                /\ funds.btc = disk.base.btc + disk.btc + open.btc
          BY <1>1 DEF LedgerInv, Books
        <4>7. disk.bound =>
                funds'.cash = disk.base.cash + disk.cash - Capital + open.cash + ext'
          BY <4>1, <4>2, <4>3, <4>4, <4>5, <4>6
        <4>. QED
          BY <4>1, <4>6, <4>7 DEF Books
      <3>. QED BY <3>1, <3>2, <3>3 DEF LedgerInv
    <2>. QED
      BY <1>1, <1>5, <2>1, <2>2, <2>3, PartsNext DEF Deposit
  <1>6. ASSUME NEW i \in Ids, NEW p \in Prices, NEW qty \in Nat,
               NEW o \in {"filled", "odd"}, Execute(i, qty, p, o)
        PROVE  IInv'
    <2>. DEFINE f == Moved(journal[i].side, qty, p)
    <2>1. f \in Fills
      <3>1. now \in Nat /\ qty * p \in Int /\ -(qty * p) \in Int /\ -qty \in Int
        BY <1>1, DomainAssumption DEF WorldOK
      <3>. QED BY <3>1 DEF Moved, Fills
    <2>. QED BY <1>6, <2>1, OutcomeStep DEF Execute
  <1>7. CASE \E i \in Ids, p \in Prices : ExecuteWhole(i, p) \/ ExecuteOdd(i, p)
    <2>1. PICK i \in Ids, p \in Prices : ExecuteWhole(i, p) \/ ExecuteOdd(i, p)
      BY <1>7
    <2>2. journal[i].qty \in Nat
      BY <1>1 DEF WorldOK
    <2>. QED
      BY <1>6, <2>1, <2>2 DEF ExecuteWhole, ExecuteOdd
  <1>8. CASE \E i \in Ids : Refuse(i)
    <2>1. PICK i \in Ids : Refuse(i)
      BY <1>8
    <2>2. NoFill \in Fills
      BY DEF NoFill, Fills
    <2>3. fill[i] = NoFill
      BY <1>1, <2>1 DEF LedgerInv, OrderInv, Refuse
    <2>4. fill' = [fill EXCEPT ![i] = NoFill]
      BY <1>1, <2>1, <2>3 DEF WorldOK, Refuse
    <2>5. funds' = [cash |-> funds.cash + NoFill.cash, btc |-> funds.btc + NoFill.btc]
      BY <1>1, <2>1 DEF WorldOK, Money, NoFill, Refuse
    <2>. QED BY <2>1, <2>2, <2>4, <2>5, OutcomeStep DEF Refuse
  <1>. QED
    BY <1>2, <1>3, <1>4, <1>5, <1>7, <1>8 DEF Environment

----------------------------------------------------------------------------
(* The results *)

\* The fresh ledger satisfies the invariant.
LEMMA InvInit == Init => IInv
  <1>. SUFFICES ASSUME Init PROVE IInv
    OBVIOUS
  <1>1. /\ {Capital, AccountCash, AccountBtc} \subseteq Nat
        /\ NoProposal \in Proposals /\ NoProposal.id = None
    BY LimitAssumption, EmptyProposal
  <1>2. <<>> \in Seq(Trades) /\ <<>> \in Seq(Int)
    OBVIOUS
  <1>3. FreshRow \in Rows
    BY <1>1, <1>2 DEF FreshRow, Rows, Money
  <1>4. TypeOK
    <2>1. WorldOK
      <3>1. NoFill \in Fills /\ NoRequest \in [side : Sides \cup {"NONE"}, qty : Nat]
        BY DEF NoFill, Fills, NoRequest
      <3>2. funds \in Money
        <4>1. AccountCash \in Int /\ AccountBtc \in Int
          BY <1>1
        <4>. QED BY <4>1 DEF Init, Money
      <3>. QED BY <1>2, <3>1, <3>2 DEF Init, WorldOK
    <2>2. HolderOK
      BY <1>1, <1>3 DEF Init, HolderOK, Steps, Operations, Phases
    <2>. QED BY <1>3, <2>1, <2>2 DEF Init, TypeOK, WorldOK, HolderOK
  <1>5. BookedIds(disk) = {}
    BY DEF Init, FreshRow, BookedIds
  <1>6. /\ disk.pending = None /\ disk.proposal = NoProposal /\ ~disk.bound
        /\ disk.cash = Capital /\ disk.btc = 0 /\ disk.trades = <<>>
    BY DEF Init, FreshRow
  <1>7. \A i \in Ids : OrderInv(i)
    BY DEF Init, OrderInv
  <1>8. RowInv
    BY <1>1, <1>5, <1>6 DEF RowInv
  <1>9. CopyInv
    BY DEF Init, CopyInv, Same, SameLedger
  <1>10. FlowInv
    BY DEF Init, FlowInv, PhasesOf
  <1>11. Books
    BY <1>6 DEF Books
  <1>. QED
    BY <1>4, <1>7, <1>8, <1>9, <1>10, <1>11 DEF IInv

\* Every step keeps the invariant.
LEMMA InvNext == IInv /\ [Next]_vars => IInv'
  <1>. SUFFICES ASSUME IInv, [Next]_vars PROVE IInv'
    OBVIOUS
  <1>1. CASE Next
    BY <1>1, DispatchStep, ChecksStep, ControlStep, CycleStep, SubmitStep,
       ReconcileStep, EnvironmentStep DEF Next
  <1>2. CASE UNCHANGED vars
    <2>1. /\ HolderInv' /\ killed' \in BOOLEAN
      <3>1. HolderInv /\ lateStop \in {"idle", "send", "busy"} /\ killed \in BOOLEAN
        BY Parts DEF HolderInv, HolderOK, WorldOK
      <3>. QED
        BY <1>2, <3>1, HolderFrame DEF vars, exchange, history
    <2>. QED BY <1>2, <2>1, KeepsRow DEF vars
  <1>. QED BY <1>1, <1>2

\* IInv is an invariant of the order path.
THEOREM InvariantHolds == Spec => []IInv
  BY InvInit, InvNext, PTL DEF Spec

\* Types, and a ledger that never goes below zero (apply_fill's
\* NEGATIVE_STRATEGY_BALANCE), whatever orders are executed at.
THEOREM TypeCorrect == Spec => []TypeOK
  <1>1. IInv => TypeOK
    BY DEF IInv
  <1>. QED BY <1>1, InvariantHolds, PTL

\* An id is posted at most once, and whatever was posted is named by the row
\* as pending or as booked: a crash, a lost reply or a failed save between the
\* steps of submit never loses an order and never sends it twice.
THEOREM NoOrderIsLost == Spec => []NoOrphanOrder
  <1>1. IInv => NoOrphanOrder
    <2>. SUFFICES ASSUME IInv, NEW i \in Ids, posts[i] > 0
                  PROVE  /\ posts[i] = 1
                         /\ journal[i] # NoRequest
                         /\ (i = disk.pending) # (i \in BookedIds(disk))
      BY DEF NoOrphanOrder
    <2>1. OrderInv(i) /\ RowInv
      BY DEF IInv
    <2>2. posts[i] = 1 /\ journal[i] # NoRequest
      BY <2>1 DEF OrderInv
    <2>3. i = disk.pending \/ i \in BookedIds(disk)
      BY <2>1, <2>2 DEF OrderInv
    <2>4. ~(i = disk.pending /\ i \in BookedIds(disk))
      BY <2>1, NoneAssumption DEF RowInv
    <2>. QED BY <2>2, <2>3, <2>4
  <1>. QED BY <1>1, InvariantHolds, PTL

\* The account is the bound base, the ledger's change, the owner's deposits and
\* the fill of the one open order, at every moment.
THEOREM BooksBalance == Spec => []Books
  <1>1. IInv => Books
    BY DEF IInv
  <1>. QED BY <1>1, InvariantHolds, PTL

\* A row that names a pending order offers nothing to approve.
THEOREM NothingOfferedWhilePending == Spec => []PendingExcludesProposal
  <1>1. IInv => PendingExcludesProposal
    BY DEF IInv, RowInv, PendingExcludesProposal
  <1>. QED BY <1>1, InvariantHolds, PTL

\* dispatch's "resume" lifts the stop only when every order ever posted is in
\* the ledger: Settled is read under the lock and stays true until the resume.
THEOREM ResumeFindsAllBooked == Spec => ResumeOnlyWhenSettled
  <1>1. IInv /\ [Next]_vars =>
          [killed /\ ~killed' =>
              \A i \in Ids : posts[i] > 0 => i \in BookedIds(disk)]_vars
    <2>. SUFFICES ASSUME IInv, Next, killed, ~killed', NEW i \in Ids, posts[i] > 0
                  PROVE  i \in BookedIds(disk)
      BY DEF vars
    <2>1. Resume
      BY DEF Next, Dispatch, BeginIpCheck, BeginPreflight, BeginPrepare,
             BeginApprove, BeginReconcile, BeginResume, BeginArm, BeginDisarm,
             BeginRun, Start, Unchanged, Checks, IpVerified, IpRefused,
             IpRefusedSave, Released, Refused, Preflight, Control, AcceptIp,
             AddressMoved, Arm, Disarm, SaveAndLeave, Cycle, ClaimSlot,
             SlotTaken, Wait, Act, Offer, GatePassed, GateClosed, Halt, Park,
             ParkSave, Submit, Intend, IntendUnsaved, Place, Claim, Recheck,
             RequestRefused, Send, Answered, AnsweredError, NoAnswer, MayTrip,
             Reconcile, SettleFound, SettleUnknown, QueryFound, VerifyFound,
             ReconcileRaises, Book, BookUnsaved, Unresolved, UnresolvedSave,
             Environment, EmergencyStop, Crash, Tick, ExecuteWhole, ExecuteOdd,
             Execute, Refuse, Deposit
    <2>2. disk.pending = None
      BY <2>1 DEF Resume, IInv, FlowInv
    <2>3. journal[i] # NoRequest
      BY DEF IInv, OrderInv
    <2>. QED BY <2>2, <2>3, NoneAssumption DEF IInv, OrderInv
  <1>. QED BY <1>1, InvariantHolds, PTL DEF Spec, ResumeOnlyWhenSettled

----------------------------------------------------------------------------
(* The stop and the POST *)

\* Past its last look at the switch, the holder finds it set only if the stop
\* landed after that look.
LastLook == pc = "send" /\ killed => lateStop = "send"

\* Every step keeps what is known of the last look at the switch.
LEMMA LastLookNext == IInv /\ LastLook /\ [Next]_vars => LastLook'
  <1>. SUFFICES ASSUME IInv, LastLook, [Next]_vars, pc' = "send", killed'
                PROVE  lateStop' = "send"
    BY DEF LastLook
  <1>0. FlowInv
    BY DEF IInv
  <1>1. Recheck \/ EmergencyStop \/ UNCHANGED <<pc, killed, lateStop>>
    <2>1. CASE UNCHANGED vars
      BY <2>1 DEF vars, process
    <2>2. CASE Dispatch
      BY <2>2 DEF Dispatch, BeginIpCheck, BeginPreflight, BeginPrepare,
                  BeginApprove, BeginReconcile, BeginResume, BeginArm,
                  BeginDisarm, BeginRun, Start, Begin
    <2>3. CASE Checks
      <3>1. CASE \E p \in Prices : Preflight(p)
        <4>1. PICK p \in Prices : Preflight(p)
          BY <3>1
        <4>2. phase \in DOMAIN AfterFlight
          BY <1>0, <4>1 DEF FlowInv, Preflight
        <4>3. AfterFlight[phase] # "send"
          BY <4>2 DEF AfterFlight
        <4>. QED BY <4>1, <4>3 DEF Preflight, Leave
      <3>. QED
        BY <2>3, <3>1 DEF Checks, IpVerified, IpRefused, IpRefusedSave,
           Released, Refused, Raise, Leave, Continue
    <2>4. CASE Control
      BY <2>4 DEF Control, AcceptIp, AddressMoved, Resume, Arm, Disarm,
                  SaveAndLeave, Leave, Continue
    <2>5. CASE Cycle
      BY <2>5 DEF Cycle, ClaimSlot, SlotTaken, Wait, Act, Offer, GatePassed,
                  GateClosed, Halt, Park, ParkSave, Leave, Continue
    <2>6. CASE Submit
      BY <2>6 DEF Submit, Intend, IntendUnsaved, Place, Claim,
                  RequestRefused, Send, Answered, AnsweredError, NoAnswer,
                  Leave, Continue
    <2>7. CASE Reconcile
      BY <2>7 DEF Reconcile, SettleFound, SettleUnknown, QueryFound,
                  VerifyFound, ReconcileRaises, Book, BookUnsaved, Unresolved,
                  UnresolvedSave, RaiseInFlight, Raise, Leave, Continue
    <2>8. CASE Environment
      <3>1. ASSUME NEW i \in Ids, NEW p \in Prices,
                   ExecuteWhole(i, p) \/ ExecuteOdd(i, p)
            PROVE  UNCHANGED <<pc, killed, lateStop>>
        BY <3>1 DEF ExecuteWhole, ExecuteOdd, Execute, process
      <3>2. ASSUME NEW i \in Ids, Refuse(i)
            PROVE  UNCHANGED <<pc, killed, lateStop>>
        BY <3>2 DEF Refuse, process
      <3>3. (Tick \/ Deposit) => UNCHANGED <<pc, killed, lateStop>>
        BY DEF Tick, Deposit, process
      <3>4. ~Crash
        BY DEF Crash, Leave
      <3>. QED BY <2>8, <3>1, <3>2, <3>3, <3>4 DEF Environment
    <2>. QED
      BY <2>1, <2>2, <2>3, <2>4, <2>5, <2>6, <2>7, <2>8 DEF Next
  <1>2. CASE Recheck
    BY <1>2 DEF Recheck, StopSeen, Continue, Unchanged
  <1>3. CASE EmergencyStop
    BY <1>3 DEF EmergencyStop, process
  <1>4. CASE UNCHANGED <<pc, killed, lateStop>>
    BY <1>4 DEF LastLook
  <1>. QED BY <1>1, <1>2, <1>3, <1>4

\* BinanceAdapter._request's second look (binance.py:166): with the stop set no
\* POST leaves, unless the stop landed between that look and the transport.
THEOREM StopIsFinal == Spec => StopHaltsPosting
  <1>1. Init => LastLook
    BY DEF Init, LastLook
  <1>2. Spec => []LastLook
    BY <1>1, InvariantHolds, LastLookNext, PTL DEF Spec
  <1>3. LastLook /\ [Next]_vars => [posts' # posts /\ killed => lateStop = "send"]_vars
    <2>. SUFFICES ASSUME LastLook, Next, posts' # posts, killed
                  PROVE  lateStop = "send"
      BY DEF vars
    <2>1. Send
      BY DEF Next, Dispatch, BeginIpCheck, BeginPreflight, BeginPrepare,
             BeginApprove, BeginReconcile, BeginResume, BeginArm, BeginDisarm,
             BeginRun, Start, Unchanged, Checks, IpVerified, IpRefused,
             IpRefusedSave, Released, Refused, Preflight, Control, AcceptIp,
             AddressMoved, Resume, Arm, Disarm, SaveAndLeave, Cycle, ClaimSlot,
             SlotTaken, Wait, Act, Offer, GatePassed, GateClosed, Halt, Park,
             ParkSave, Submit, Intend, IntendUnsaved, Place, Claim, Recheck,
             RequestRefused, Answered, AnsweredError, NoAnswer,
             Reconcile, SettleFound, SettleUnknown, QueryFound, VerifyFound,
             ReconcileRaises, Book, BookUnsaved, Unresolved, UnresolvedSave,
             Environment, EmergencyStop, Crash, Tick, ExecuteWhole, ExecuteOdd,
             Execute, Refuse, Deposit, exchange
    <2>. QED BY <2>1 DEF Send, LastLook
  <1>. QED BY <1>2, <1>3, PTL DEF Spec, StopHaltsPosting

=============================================================================
