--------------------------- MODULE LiveRulesProofs ---------------------------
(***************************************************************************)
(* The rules of the live order path, proved for every value of its         *)
(* constants: one evaluation of a slot, no purchase after a loss, no       *)
(* proposal in the wrong mode, and the number and the distance of          *)
(* executions.  RulesInv is inductive relative to IInv, which              *)
(* LiveControlProofs establishes.                                          *)
(***************************************************************************)
EXTENDS LiveControlProofs, FiniteSetTheorems

(* What the helpers do to the marks of a row *)

\* No helper but a preflight or a slot claim touches day, latches and slot.
LEMMA MarksKept ==
    ASSUME NEW m \in Rows
    PROVE  /\ SameMarks(WithoutProposal(m), m) /\ WithoutProposal(m).armed = m.armed
           /\ SameMarks(Disarmed(m), m) /\ ~Disarmed(m).armed
           /\ SameMarks(Disarmed(WithoutProposal(m)), m)
           /\ SameMarks(ArmedRow(m), m)
           /\ SameMarks(IntentRow(m), m) /\ IntentRow(m).armed = m.armed
           /\ \A i : SameMarks(Booked(m, i), m) /\ Booked(m, i).armed = m.armed
           /\ \A a : /\ SameMarks([m EXCEPT !.approved = a], m)
                     /\ [m EXCEPT !.approved = a].armed = m.armed
           /\ \A q : /\ SameMarks([m EXCEPT !.proposal = q], m)
                     /\ [m EXCEPT !.proposal = q].armed = m.armed
                     /\ [m EXCEPT !.proposal = q].proposal = q
  BY DEF Rows, SameMarks, WithoutProposal, Disarmed, ArmedRow, IntentRow, Booked

----------------------------------------------------------------------------
(* Which steps touch the marks *)

\* The row and the copy keep day, latches and slot, and the clock goes forward.
Calm ==
    /\ SameMarks(disk', disk) /\ SameMarks(mem', disk')
    /\ evals' = evals /\ lossDays' = lossDays
    /\ now' \in {now, now + 1}

\* Every step but a preflight and a slot claim is calm.
LEMMA CalmSteps ==
    ASSUME IInv, SameMarks(mem, disk), [Next]_vars
    PROVE  Calm \/ ClaimSlot \/ \E p \in Prices : Preflight(p)
  <1>1. disk \in Rows /\ mem \in Rows
    BY DEF IInv, TypeOK
  <1>2. \A m, n : SameMarks(m, n) <=> SameMarks(n, m)
    BY DEF SameMarks
  <1>3. CASE UNCHANGED vars
    BY <1>3 DEF Calm, vars, process, history, SameMarks
  <1>4. CASE Dispatch
    BY <1>4 DEF Calm, Dispatch, BeginIpCheck, BeginPreflight, BeginPrepare,
                BeginApprove, BeginReconcile, BeginResume, BeginArm,
                BeginDisarm, BeginRun, Start, Begin, Unchanged, history, SameMarks
  <1>5. CASE Checks
    BY <1>1, <1>5, MarksKept
       DEF Calm, Checks, IpVerified, IpRefused, IpRefusedSave, Released, Refused,
           Raise, Leave, Continue, Unchanged, history, SameMarks
  <1>6. CASE Control
    <2>1. ASSUME NEW ip \in IPs, AcceptIp(ip) PROVE Calm
      <3>1. SameMarks(mem', mem)
        BY <1>1, <2>1, MarksKept DEF AcceptIp
      <3>. QED BY <2>1, <3>1 DEF Calm, AcceptIp, history, SameMarks
    <2>2. CASE AddressMoved \/ Resume \/ Arm \/ Disarm \/ SaveAndLeave
      BY <1>1, <2>2, MarksKept
         DEF Calm, AddressMoved, Resume, Arm, Disarm, SaveAndLeave, Leave, Continue,
             history, SameMarks
    <2>. QED BY <1>6, <2>1, <2>2 DEF Control
  <1>7. CASE Cycle
    <2>1. ASSUME NEW i \in Ids, NEW side \in Sides, NEW qty \in Quantities,
                 Offer(i, side, qty)
          PROVE  Calm
      <3>1. SameMarks(disk', mem)
        BY <1>1, <2>1, MarksKept DEF Offer
      <3>. QED BY <2>1, <3>1 DEF Calm, Offer, Leave, Continue, SameMarks
    <2>2. CASE \/ SlotTaken \/ Wait \/ Act \/ GatePassed \/ GateClosed
               \/ Halt \/ Park \/ ParkSave
      BY <1>1, <2>2, MarksKept
         DEF Calm, SlotTaken, Wait, Act, GatePassed, GateClosed, Halt, Park,
             ParkSave, Leave, Continue, Unchanged, history, SameMarks
    <2>. QED BY <1>7, <2>1, <2>2 DEF Cycle
  <1>8. CASE Submit
    BY <1>1, <1>8, MarksKept
       DEF Calm, Submit, Intend, SaveIntent, IntendUnsaved, Place, Claim, Recheck,
           RequestRefused, Send, Answered, AnsweredError, NoAnswer,
           Leave, Continue, Unchanged, history, SameMarks
  <1>9. CASE Reconcile
    BY <1>1, <1>9, MarksKept
       DEF Calm, Reconcile, SettleFound, SettleUnknown, QueryFound,
           VerifyFound, ReconcileRaises, Book, BookUnsaved, Unresolved,
           UnresolvedSave, UnresolvedRow, RaiseInFlight, Raise, Leave, Continue,
           Unchanged, history, SameMarks
  <1>10. CASE Environment
    BY <1>10 DEF Calm, Environment, EmergencyStop, Crash, Tick, Deposit,
                 ExecuteWhole, ExecuteOdd, Execute, Refuse, process, history, Leave,
                 SameMarks
  <1>. QED
    BY <1>3, <1>4, <1>5, <1>6, <1>7, <1>8, <1>9, <1>10 DEF Next

\* A preflight keeps the slot, opens the day, and forgets a loss only with it.
LEMMA PreflightMarks ==
    ASSUME IInv, SameMarks(mem, disk), NEW p \in Prices, Preflight(p)
    PROVE  /\ SameMarks(mem', disk') /\ disk'.lastSlot = disk.lastSlot
           /\ evals' = evals /\ now' = now
           /\ disk'.day = Today
           /\ disk.day = Today /\ disk.loss => disk'.loss
           /\ disk.cum => disk'.cum
           /\ lossDays' = lossDays \cup Losses(disk')
  <1>1. mem \in Rows /\ funds \in Money /\ now \in Nat
    BY DEF IInv, TypeOK
  <1>2. Bound(mem) \in Rows /\ SameMarks(Bound(mem), mem)
    BY <1>1, RowObserved DEF Bound, Rows, SameMarks
  <1>3. ASSUME NEW n \in Rows
        PROVE  /\ Observed(n, p).day = Today /\ Observed(n, p).lastSlot = n.lastSlot
               /\ n.day = Today /\ n.loss => Observed(n, p).loss
               /\ n.cum => Observed(n, p).cum
    <2>1. CASE n.day = Today
      BY <1>3, <2>1 DEF Rows, Observed
    <2>2. CASE n.day # Today
      BY <1>3, <2>2 DEF Rows, Observed
    <2>. QED BY <2>1, <2>2
  <1>. QED
    BY <1>1, <1>2, <1>3 DEF Preflight, SameMarks, Leave

\* Days and slots never go back.
LEMMA DivisionRises ==
    ASSUME NEW a \in Nat, NEW b \in Nat, NEW d \in Nat \ {0}, a <= b
    PROVE  a \div d <= b \div d /\ a \div d \in Nat /\ b \div d \in Nat
  OBVIOUS

\* The slots that were evaluated lie below the row's, and the row's is no later
\* than the clock's; so a slot that is claimed is a new one.
LEMMA SlotNext ==
    ASSUME IInv, SameMarks(mem, disk), SlotInv, [Next]_vars
    PROVE  SlotInv'
  <1>1. /\ disk \in Rows /\ mem \in Rows /\ now \in Nat /\ evals \in Seq(Int)
        /\ disk.lastSlot \in Int /\ SlotLen \in Nat \ {0}
    BY LimitAssumption DEF IInv, TypeOK, Rows
  <1>2. Slot \in Nat /\ (now' = now => Slot' = Slot) /\ (now' = now + 1 => Slot <= Slot')
    BY <1>1, DivisionRises DEF Slot
  <1>3. CASE Calm
    BY <1>1, <1>2, <1>3 DEF Calm, SlotInv, OneEvaluationPerSlot, SameMarks, Slot
  <1>4. CASE \E p \in Prices : Preflight(p)
    BY <1>1, <1>2, <1>4, PreflightMarks DEF SlotInv, OneEvaluationPerSlot
  <1>5. CASE ClaimSlot
    <2>1. /\ disk'.lastSlot = Slot /\ evals' = Append(evals, Slot) /\ now' = now
          /\ disk.lastSlot # Slot
      BY <1>1, <1>5 DEF ClaimSlot, Rows, SameMarks
    <2>2. /\ DOMAIN evals' = 1 .. Len(evals) + 1 /\ DOMAIN evals = 1 .. Len(evals)
          /\ Len(evals) \in Nat
          /\ \A k \in DOMAIN evals : evals'[k] = evals[k] /\ evals[k] \in Int
          /\ evals'[Len(evals) + 1] = Slot
      BY <1>1, <1>2, <2>1
    <2>3. \A k \in DOMAIN evals : evals[k] < Slot
      BY <1>1, <1>2, <2>1, <2>2 DEF SlotInv
    <2>. QED
      BY <1>2, <2>1, <2>2, <2>3 DEF SlotInv, OneEvaluationPerSlot
  <1>. QED BY <1>3, <1>4, <1>5, CalmSteps

\* A loss that was seen stays in the row for its day, and the total for good.
LEMMA LossNext ==
    ASSUME IInv, SameMarks(mem, disk), LossInv, [Next]_vars
    PROVE  LossInv'
  <1>1. /\ disk \in Rows /\ mem \in Rows /\ now \in Nat /\ lossDays \subseteq Int
        /\ disk' \in Rows
        /\ disk.day \in Int /\ DayLen \in Nat \ {0}
    BY InvNext, LimitAssumption DEF IInv, TypeOK, Rows
  <1>2. /\ Today \in Nat /\ (now' = now => Today' = Today)
        /\ now' \in {now, now + 1} => Today' \in Nat /\ Today <= Today'
    BY <1>1, DivisionRises DEF Today, DayOf
  <1>3. CASE Calm
    <2>1. /\ disk'.day = disk.day /\ disk'.loss = disk.loss /\ disk'.cum = disk.cum
          /\ lossDays' = lossDays /\ Today <= Today' /\ Today' \in Nat
      BY <1>2, <1>3 DEF Calm, SameMarks
    <2>. QED BY <1>1, <1>2, <2>1 DEF LossInv
  <1>4. CASE \E p \in Prices : Preflight(p)
    <2>1. PICK p \in Prices : Preflight(p)
      BY <1>4
    <2>2. /\ disk'.day = Today /\ now' = now
          /\ disk.day = Today /\ disk.loss => disk'.loss
          /\ disk.cum => disk'.cum
          /\ lossDays' = lossDays \cup Losses(disk')
      BY <2>1, PreflightMarks
    <2>3. /\ Losses(disk') \subseteq {-1, Today}
          /\ -1 \in Losses(disk') => disk'.cum
          /\ Today \in Losses(disk') => disk'.loss
      BY <1>2, <2>2 DEF Losses
    <2>4. \A d \in lossDays' : d <= Today
      BY <1>1, <1>2, <2>2, <2>3 DEF LossInv
    <2>5. Today \in lossDays => disk.day = Today /\ disk.loss
      BY <1>1, <1>2 DEF LossInv
    <2>. QED
      BY <1>1, <1>2, <2>2, <2>3, <2>4, <2>5 DEF LossInv
  <1>5. CASE ClaimSlot
    <2>1. /\ disk'.day = mem.day /\ disk'.loss = mem.loss /\ disk'.cum = mem.cum
          /\ lossDays' = lossDays /\ now' = now
      BY <1>1, <1>5 DEF ClaimSlot, Rows
    <2>. QED BY <1>1, <1>2, <2>1 DEF LossInv, SameMarks, Today, DayOf
  <1>. QED BY <1>3, <1>4, <1>5, CalmSteps

\* Copy and row agree on day, latches and slot at every step of the holder.
LEMMA MarksNext ==
    ASSUME IInv, SameMarks(mem, disk), [Next]_vars
    PROVE  SameMarks(mem, disk)'
  <1>1. CASE Calm
    BY <1>1 DEF Calm, SameMarks
  <1>2. CASE \E p \in Prices : Preflight(p)
    BY <1>2, PreflightMarks
  <1>3. CASE ClaimSlot
    BY <1>3 DEF ClaimSlot, SameMarks
  <1>. QED BY <1>1, <1>2, <1>3, CalmSteps

----------------------------------------------------------------------------
(* The two modes *)

\* A row keeps to its mode where it keeps its authorisation and at most drops
\* the proposal.
LEMMA ModeKept ==
    ASSUME ModeInv, disk'.armed = disk.armed,
           disk'.proposal.id = None \/ disk'.proposal = disk.proposal
    PROVE  ProposalMatchesMode'
  BY DEF ModeInv, ProposalMatchesMode

\* What any copy of the lock holder offers.
LEMMA CopyOffers ==
    ASSUME IInv
    PROVE  mem.proposal.id = None \/ mem.proposal = disk.proposal
  BY EmptyProposal DEF IInv, CopyInv, Same, Candidate, Unsaved

\* An observed row keeps its authorisation.
LEMMA ObservedArmed ==
    ASSUME NEW m \in Rows, NEW p \in Prices, funds \in Money, now \in Nat
    PROVE  Observed(Bound(m), p).armed = m.armed
  <1>1. Bound(m) \in Rows /\ Bound(m).armed = m.armed
    BY RowObserved DEF Bound, Rows
  <1>2. \A n \in Rows : Observed(n, p).armed = n.armed
    BY DEF Observed, Rows
  <1>. QED BY <1>1, <1>2

\* No step leaves a proposal where the other mode could submit it.
LEMMA ModeNext ==
    ASSUME IInv, ModeInv, [Next]_vars
    PROVE  ModeInv'
  <1>1. /\ disk \in Rows /\ mem \in Rows /\ funds \in Money /\ now \in Nat
        /\ FlowInv /\ CopyInv
        /\ mem.proposal.id = None \/ mem.proposal = disk.proposal
    BY CopyOffers DEF IInv, TypeOK
  <1>2. CASE UNCHANGED vars
    BY <1>2 DEF ModeInv, ProposalMatchesMode, vars, process
  <1>3. CASE Dispatch
    BY <1>3 DEF ModeInv, ProposalMatchesMode, Dispatch, BeginIpCheck,
                BeginPreflight, BeginPrepare, BeginApprove, BeginReconcile,
                BeginResume, BeginArm, BeginDisarm, BeginRun, Start, Begin, Unchanged
  <1>4. CASE Checks
    <2>1. CASE IpVerified \/ IpRefused \/ IpRefusedSave \/ Released \/ Refused
      <3>1. ProposalMatchesMode'
        BY <1>1, <2>1, ModeKept
           DEF ModeInv, IpVerified, IpRefused, IpRefusedSave, Released, Refused,
               Unchanged
      <3>. QED
        BY <1>1, <2>1, <3>1, MarksKept
           DEF ModeInv, IpVerified, IpRefused, IpRefusedSave, Released, Refused,
               Raise, Leave, Continue, Unchanged
    <2>2. ASSUME NEW p \in Prices, Preflight(p)
          PROVE  ModeInv'
      <3>1. disk'.armed = disk.armed /\ disk'.proposal = mem.proposal
        BY <1>1, <2>2, RowObserved, ObservedArmed DEF Preflight, ModeInv
      <3>2. ProposalMatchesMode'
        BY <1>1, <3>1, ModeKept
      <3>3. /\ phase \in {"cycle", "prepare", "submit", "arm", "resume", "preflight"}
            /\ phase = "prepare" => op \in {"prepare", "run"}
        BY <1>1, <2>2 DEF FlowInv, PhasesOf, AfterFlight, Preflight, IInv, TypeOK,
                          Operations
      <3>4. /\ AfterFlight[phase] \notin {"save", "park", "parksave", "gate", "ip", "release", "flight"}
            /\ AfterFlight[phase] = "offer" => phase = "prepare"
        BY <3>3 DEF AfterFlight
      <3>5. CASE op = "preflight"
        BY <2>2, <3>2, <3>5 DEF Preflight, Leave, ModeInv
      <3>6. CASE op # "preflight"
        <4>1. pc' = AfterFlight[phase] /\ mem' = disk' /\ op' = op
          BY <2>2, <3>6 DEF Preflight
        <4>2. op = "run" => disk.armed
          BY <2>2 DEF ModeInv, Preflight
        <4>. QED BY <3>1, <3>2, <3>3, <3>4, <4>1, <4>2 DEF ModeInv
      <3>. QED BY <3>5, <3>6
    <2>. QED BY <1>4, <2>1, <2>2 DEF Checks
  <1>5. CASE Control
    <2>1. ASSUME NEW ip \in IPs, AcceptIp(ip) PROVE ModeInv'
      <3>1. mem'.armed = mem.armed /\ mem'.proposal = mem.proposal /\ disk' = mem'
        BY <1>1, <2>1 DEF AcceptIp, Rows
      <3>2. mem.armed = disk.armed
        BY <2>1 DEF AcceptIp, ModeInv
      <3>. QED
        BY <1>1, <2>1, <3>1, <3>2, ModeKept DEF AcceptIp, ModeInv, Continue
    <2>2. CASE AddressMoved \/ Resume \/ Disarm
      <3>1. WithoutProposal(mem).proposal.id = None
            /\ Disarmed(WithoutProposal(mem)).proposal.id = None
        BY <1>1, RowMarks, EmptyProposal
      <3>. QED
        BY <1>1, <2>2, <3>1, MarksKept
           DEF AddressMoved, Resume, Disarm, ModeInv, ProposalMatchesMode, Continue,
               Leave
    <2>3. CASE Arm
      <3>1. disk'.proposal.id = None
        BY <1>1, <2>3, RowMarks DEF Arm, MayArm
      <3>. QED
        BY <2>3, <3>1 DEF Arm, Leave, ModeInv, ProposalMatchesMode
    <2>4. CASE SaveAndLeave
      BY <2>4 DEF SaveAndLeave, Leave, ModeInv, ProposalMatchesMode
    <2>. QED BY <1>5, <2>1, <2>2, <2>3, <2>4 DEF Control
  <1>6. CASE Cycle
    <2>1. CASE ClaimSlot
      <3>1. mem'.armed = mem.armed /\ mem'.proposal = mem.proposal /\ disk' = mem'
        BY <1>1, <2>1 DEF ClaimSlot, Rows
      <3>2. mem.armed = disk.armed
        BY <2>1 DEF ClaimSlot, ModeInv
      <3>. QED
        BY <1>1, <2>1, <3>1, <3>2, ModeKept DEF ClaimSlot, ModeInv, Continue
    <2>2. CASE SlotTaken \/ Wait \/ Act \/ GatePassed
      <3>1. pc = "decide" => op = "run" /\ disk.armed
        BY <1>1 DEF FlowInv, ModeInv
      <3>2. pc = "gate" => op = "run" /\ disk.armed
        BY <1>1 DEF FlowInv, ModeInv
      <3>3. CASE SlotTaken \/ Wait
        BY <3>3 DEF SlotTaken, Wait, ModeInv, ProposalMatchesMode, Leave
      <3>4. CASE Act \/ GatePassed
        BY <3>1, <3>2, <3>4
           DEF Act, GatePassed, ModeInv, ProposalMatchesMode, Unchanged
      <3>. QED BY <2>2, <3>3, <3>4
    <2>3. ASSUME NEW i \in Ids, NEW side \in Sides, NEW qty \in Quantities,
                 Offer(i, side, qty)
          PROVE  ModeInv'
      <3>1. /\ disk'.armed = mem.armed
            /\ disk'.proposal.auto = (op = "run")
        BY <1>1, <2>3, MarksKept DEF Offer
      <3>2. /\ mem.armed = disk.armed /\ op \in {"prepare", "run"}
            /\ op = "prepare" => ~disk.armed
            /\ op = "run" => disk.armed
        BY <2>3 DEF Offer, ModeInv
      <3>3. disk.armed \in BOOLEAN
        BY <1>1 DEF Rows
      <3>. QED
        BY <2>3, <3>1, <3>2, <3>3 DEF Offer, ModeInv, ProposalMatchesMode, Leave,
                                      Continue
    <2>4. CASE GateClosed \/ Halt \/ Park
      <3>1. /\ WithoutProposal(mem).proposal.id = None
            /\ Disarmed(WithoutProposal(mem)).proposal.id = None
        BY <1>1, RowMarks, EmptyProposal
      <3>. QED
        BY <1>1, <2>4, <3>1, MarksKept
           DEF GateClosed, Halt, Park, ModeInv, ProposalMatchesMode, Continue, Leave
    <2>5. CASE ParkSave
      <3>1. mem.proposal.id = None
        BY <1>1, <2>5, EmptyProposal DEF ParkSave, FlowInv, IInv, RowInv
      <3>. QED
        BY <2>5, <3>1 DEF ParkSave, ModeInv, ProposalMatchesMode, Continue
    <2>. QED BY <1>6, <2>1, <2>2, <2>3, <2>4, <2>5 DEF Cycle
  <1>7. CASE Submit
    <2>1. CASE Intend
      <3>1. disk'.proposal.id = None /\ disk'.armed = mem.armed /\ mem' = disk'
        BY <1>1, <2>1, RowIntent, MarksKept, EmptyProposal DEF Intend, SaveIntent
      <3>2. op' = op /\ mem.armed = disk.armed /\ pc' = "place"
        BY <2>1 DEF Intend, Approvable, ModeInv
      <3>. QED BY <3>1, <3>2 DEF ModeInv, ProposalMatchesMode
    <2>2. CASE IntendUnsaved
      BY <1>1, <2>2, MarksKept
         DEF IntendUnsaved, Approvable, ModeInv, ProposalMatchesMode, Leave, Continue
    <2>3. CASE \/ Place \/ Claim \/ Recheck \/ RequestRefused
               \/ Send \/ Answered \/ AnsweredError \/ NoAnswer
      BY <2>3
         DEF Place, Claim, Recheck, RequestRefused, Send, Answered, AnsweredError,
             NoAnswer, ModeInv, ProposalMatchesMode, Continue, Unchanged
    <2>. QED BY <1>7, <2>1, <2>2, <2>3 DEF Submit
  <1>8. CASE Reconcile
    <2>1. CASE \/ SettleFound \/ SettleUnknown \/ QueryFound \/ VerifyFound
               \/ ReconcileRaises \/ BookUnsaved \/ Unresolved
      BY <1>1, <2>1, MarksKept
         DEF SettleFound, SettleUnknown, QueryFound, VerifyFound, ReconcileRaises,
             BookUnsaved, Unresolved, RaiseInFlight, Raise, Leave, Continue,
             Unchanged, ModeInv, ProposalMatchesMode
    <2>2. CASE Book \/ UnresolvedSave
      <3>1. disk' = mem /\ mem.armed = disk.armed
        BY <2>2 DEF Book, UnresolvedSave, UnresolvedRow, ModeInv
      <3>2. ProposalMatchesMode'
        BY <1>1, <3>1, ModeKept
      <3>. QED
        BY <2>2, <3>1, <3>2
           DEF Book, UnresolvedSave, UnresolvedRow, Raise, Leave, Continue, ModeInv
    <2>. QED BY <1>8, <2>1, <2>2 DEF Reconcile
  <1>9. CASE Environment
    BY <1>9 DEF Environment, EmergencyStop, Crash, Tick, Deposit, ExecuteWhole,
                ExecuteOdd, Execute, Refuse, process, Leave, ModeInv,
                ProposalMatchesMode
  <1>. QED
    BY <1>2, <1>3, <1>4, <1>5, <1>6, <1>7, <1>8, <1>9 DEF Next

----------------------------------------------------------------------------
(* The executions *)

\* The executions of a day can be counted.
LEMMA DayCounted ==
    ASSUME disk \in Rows, NEW d
    PROVE  /\ DOMAIN disk.trades = 1 .. Len(disk.trades) /\ Len(disk.trades) \in Nat
           /\ \A k \in DOMAIN disk.trades : disk.trades[k].at \in Nat
           /\ IsFiniteSet(OnDay(disk.trades, d))
           /\ Cardinality(OnDay(disk.trades, d)) \in Nat
  <1>1. disk.trades \in Seq(Trades)
    BY DEF Rows
  <1>2. DOMAIN disk.trades = 1 .. Len(disk.trades) /\ Len(disk.trades) \in Nat
    BY <1>1
  <1>3. \A k \in 1 .. Len(disk.trades) : disk.trades[k] \in Trades
    BY <1>1
  <1>4. IsFiniteSet(DOMAIN disk.trades)
    BY <1>2, FS_Interval
  <1>5. OnDay(disk.trades, d) \subseteq DOMAIN disk.trades
    BY DEF OnDay
  <1>. QED BY <1>2, <1>3, <1>4, <1>5, FS_Subset, FS_CardinalityType DEF Trades

\* The row's executions stay, nobody names another order, and no order is due
\* at another time.
Untraded ==
    /\ disk'.trades = disk.trades
    /\ {disk'.pending, mem'.pending} \subseteq {disk.pending, mem.pending, None}
    /\ now' = now /\ \A i \in Ids : Due(i)' = Due(i)

\* The order the row names enters it.
Traded ==
    /\ disk.pending # None /\ ex[disk.pending] = "filled"
    /\ disk'.trades = Booked(disk, disk.pending).trades
    /\ disk'.pending = None /\ mem'.pending = None /\ now' = now

\* Within its limits a new order is named, by the row or by the copy alone.
Named ==
    /\ UnderDailyLimit(disk) /\ CooledDown(disk)
    /\ disk'.trades = disk.trades /\ now' = now
    /\ \E i \in Ids : /\ {disk'.pending, mem'.pending} \subseteq {i, None}
                      /\ Due(i)' = now

\* A step that trades nothing leaves as much room as it found.
LEMMA UntradedStep ==
    ASSUME IInv, TradeInv, Untraded
    PROVE  TradeInv'
  <1>1. {disk.pending, mem.pending} \subseteq Ids \cup {None}
    BY DEF IInv, TypeOK, Rows
  <1>2. Spaced'
    BY DEF Untraded, TradeInv, Spaced
  <1>3. ASSUME NEW i \in {disk'.pending, mem'.pending} \ {None}
        PROVE  (Due(i) <= now /\ RoomAt(Due(i)))'
    <2>1. i \in Ids /\ i \in {disk.pending, mem.pending} \ {None}
      BY <1>1 DEF Untraded
    <2>2. Due(i) <= now /\ RoomAt(Due(i))
      BY <2>1 DEF TradeInv
    <2>3. Due(i)' = Due(i) /\ now' = now
      BY <2>1 DEF Untraded
    <2>. QED BY <2>2, <2>3 DEF RoomAt, Untraded
  <1>. QED BY <1>2, <1>3 DEF TradeInv, Untraded

\* What is booked is one execution more, on its day and after the last.
LEMMA TradedStep ==
    ASSUME IInv, TradeInv, Traded
    PROVE  TradeInv'
  <1>. DEFINE i == disk.pending
              n == Len(disk.trades)
              t == fill[i].at
  <1>1. /\ disk \in Rows /\ i \in Ids /\ i # None /\ fill \in [Ids -> Fills] /\ now \in Nat
        /\ MaxTrades \in Nat /\ DayLen \in Nat \ {0}
    BY LimitAssumption DEF IInv, TypeOK, Rows, Traded
  <1>2. t \in Nat
    BY <1>1 DEF Fills
  <1>3. /\ disk'.trades = Append(disk.trades, [id |-> i, at |-> t])
        /\ disk.trades \in Seq(Trades)
    BY <1>1, RowBooked DEF Traded, Rows
  <1>4. /\ DOMAIN disk.trades = 1 .. n /\ n \in Nat
        /\ \A k \in 1 .. n : disk.trades[k].at \in Nat
    BY <1>1, DayCounted
  <1>5. /\ DOMAIN disk'.trades = 1 .. n + 1 /\ Len(disk'.trades) = n + 1
        /\ \A k \in 1 .. n : disk'.trades[k] = disk.trades[k]
        /\ disk'.trades[n + 1].at = t
    BY <1>3, <1>4
  <1>6. t <= now /\ RoomAt(t)
    <2>1. Due(i) = t
      BY DEF Due, Traded
    <2>. QED BY <1>1, <2>1 DEF TradeInv
  <1>7. Spaced'
    <2>. SUFFICES ASSUME NEW k \in 2 .. n + 1
                  PROVE  disk'.trades[k].at - disk'.trades[k - 1].at >= Cooldown
      BY <1>5 DEF Spaced
    <2>1. CASE k \in 2 .. n
      <3>1. k - 1 \in 1 .. n /\ k \in 1 .. n
        BY <1>4, <2>1
      <3>. QED BY <1>5, <2>1, <3>1 DEF TradeInv, Spaced
    <2>2. CASE k = n + 1
      <3>1. n \in 1 .. n /\ disk.trades # <<>> /\ k - 1 = n
        BY <1>3, <1>4, <2>2
      <3>. QED BY <1>5, <1>6, <2>2, <3>1 DEF RoomAt
    <2>. QED BY <1>4, <2>1, <2>2
  <1>8. ASSUME NEW k \in 1 .. n + 1
        PROVE  /\ disk'.trades[k].at <= now
               /\ Cardinality(OnDay(disk'.trades, DayOf(disk'.trades[k].at))) <= MaxTrades
    <2>1. CASE DayOf(disk'.trades[k].at) = DayOf(t)
      <3>. DEFINE D == OnDay(disk.trades, DayOf(t))
      <3>1. n + 1 \notin D
        BY <1>4 DEF OnDay
      <3>2. IsFiniteSet(D) /\ Cardinality(D) \in Nat /\ Cardinality(D) < MaxTrades
        BY <1>1, <1>6, DayCounted DEF RoomAt
      <3>3. Cardinality(D \cup {n + 1}) = Cardinality(D) + 1
        BY <3>1, <3>2, FS_AddElement
      <3>4. OnDay(disk'.trades, DayOf(t)) = D \cup {n + 1}
        BY <1>4, <1>5 DEF OnDay
      <3>5. Cardinality(D) + 1 <= MaxTrades
        BY <1>1, <3>2
      <3>6. disk'.trades[k].at <= now
        <4>1. CASE k = n + 1
          BY <1>5, <1>6, <4>1
        <4>2. CASE k # n + 1
          <5>1. k \in 1 .. n /\ disk'.trades[k] = disk.trades[k]
            BY <1>4, <1>5, <4>2
          <5>. QED BY <1>4, <5>1 DEF TradeInv
        <4>. QED BY <4>1, <4>2
      <3>. QED BY <2>1, <3>3, <3>4, <3>5, <3>6
    <2>2. CASE DayOf(disk'.trades[k].at) # DayOf(t)
      <3>1. k \in 1 .. n /\ disk'.trades[k] = disk.trades[k]
        BY <1>4, <1>5, <2>2
      <3>2. OnDay(disk'.trades, DayOf(disk'.trades[k].at))
                = OnDay(disk.trades, DayOf(disk.trades[k].at))
        <4>. DEFINE d == DayOf(disk'.trades[k].at)
        <4>1. n + 1 \notin OnDay(disk'.trades, d)
          BY <1>5, <2>2 DEF OnDay
        <4>2. \A j \in 1 .. n : j \in OnDay(disk'.trades, d)
                                 <=> j \in OnDay(disk.trades, d)
          BY <1>4, <1>5 DEF OnDay
        <4>3. /\ OnDay(disk.trades, d) \subseteq 1 .. n
              /\ OnDay(disk'.trades, d) \subseteq 1 .. n + 1
          BY <1>4, <1>5 DEF OnDay
        <4>4. \A j \in 1 .. n + 1 : j \in 1 .. n \/ j = n + 1
          BY <1>4
        <4>. HIDE DEF d
        <4>5. OnDay(disk'.trades, d) = OnDay(disk.trades, d)
          BY <4>1, <4>2, <4>3, <4>4
        <4>. QED BY <3>1, <4>5 DEF d
      <3>3. /\ disk.trades[k].at <= now
            /\ Cardinality(OnDay(disk.trades, DayOf(disk.trades[k].at))) <= MaxTrades
        BY <1>1, <1>4, <3>1 DEF TradeInv
      <3>. QED BY <3>1, <3>2, <3>3
    <2>. QED BY <2>1, <2>2
  <1>9. {disk'.pending, mem'.pending} \ {None} = {} /\ now' = now
    BY DEF Traded
  <1>. QED BY <1>5, <1>7, <1>8, <1>9 DEF TradeInv

\* A named order has room where the limits held.
LEMMA NamedStep ==
    ASSUME IInv, TradeInv, Named
    PROVE  TradeInv'
  <1>1. disk \in Rows /\ now \in Nat
    BY DEF IInv, TypeOK
  <1>2. RoomAt(now)
    BY DEF Named, UnderDailyLimit, CooledDown, RoomAt, OnDay, Today
  <1>3. Spaced'
    BY DEF Named, TradeInv, Spaced
  <1>4. PICK i \in Ids : {disk'.pending, mem'.pending} \subseteq {i, None} /\ Due(i)' = now
    BY DEF Named
  <1>5. (Due(i) <= now /\ RoomAt(Due(i)))'
    BY <1>1, <1>2, <1>4 DEF Named, RoomAt
  <1>6. \A j \in {disk'.pending, mem'.pending} \ {None} : j = i
    BY <1>4
  <1>7. \A j \in {disk'.pending, mem'.pending} \ {None} : (Due(j) <= now /\ RoomAt(Due(j)))'
    BY <1>5, <1>6
  <1>. QED BY <1>3, <1>7 DEF TradeInv, Named

\* Time only makes room: a later day has no executions yet.
LEMMA TickStep ==
    ASSUME IInv, TradeInv, Tick
    PROVE  TradeInv'
  <1>1. /\ disk \in Rows /\ now \in Nat /\ now' = now + 1 /\ Cooldown \in Nat
        /\ DayLen \in Nat \ {0} /\ MaxTrades \in Nat
        /\ disk' = disk /\ mem' = mem /\ fill' = fill /\ ex' = ex
        /\ {disk.pending, mem.pending} \subseteq Ids \cup {None}
        /\ fill \in [Ids -> Fills]
    BY LimitAssumption DEF IInv, TypeOK, Rows, Tick, process, exchange
  <1>2. /\ DOMAIN disk.trades = 1 .. Len(disk.trades) /\ Len(disk.trades) \in Nat
        /\ \A k \in DOMAIN disk.trades : disk.trades[k].at \in Nat
    BY <1>1, DayCounted
  <1>3. ASSUME RoomAt(now) PROVE RoomAt(now + 1)
    <2>1. Cardinality(OnDay(disk.trades, DayOf(now + 1))) < MaxTrades
      <3>1. CASE DayOf(now + 1) = DayOf(now)
        BY <1>3, <3>1 DEF RoomAt
      <3>2. CASE DayOf(now + 1) # DayOf(now)
        <4>1. DayOf(now) \in Nat /\ DayOf(now + 1) \in Nat /\ DayOf(now) < DayOf(now + 1)
          BY <1>1, <3>2, DivisionRises DEF DayOf
        <4>2. \A k \in DOMAIN disk.trades : DayOf(disk.trades[k].at) # DayOf(now + 1)
          <5>1. SUFFICES ASSUME NEW k \in DOMAIN disk.trades
                         PROVE  DayOf(disk.trades[k].at) # DayOf(now + 1)
            OBVIOUS
          <5>2. disk.trades[k].at \in Nat /\ disk.trades[k].at <= now
            BY <1>2 DEF TradeInv
          <5>3. DayOf(disk.trades[k].at) <= DayOf(now) /\ DayOf(disk.trades[k].at) \in Nat
            BY <1>1, <5>2, DivisionRises DEF DayOf
          <5>. QED BY <4>1, <5>3
        <4>3. OnDay(disk.trades, DayOf(now + 1)) = {}
          BY <4>2 DEF OnDay
        <4>4. /\ Cardinality(OnDay(disk.trades, DayOf(now))) \in Nat
              /\ Cardinality(OnDay(disk.trades, DayOf(now))) < MaxTrades
          BY <1>1, <1>3, DayCounted DEF RoomAt
        <4>5. Cardinality(OnDay(disk.trades, DayOf(now + 1))) = 0
          BY <4>3, FS_EmptySet
        <4>. QED BY <1>1, <4>4, <4>5
      <3>. QED BY <3>1, <3>2
    <2>2. disk.trades # <<>> => Len(disk.trades) \in DOMAIN disk.trades
      <3>1. disk.trades \in Seq(Trades)
        BY <1>1 DEF Rows
      <3>. QED BY <1>2, <3>1
    <2>. QED BY <1>1, <1>2, <1>3, <2>1, <2>2 DEF RoomAt
  <1>4. Spaced'
    BY <1>1 DEF TradeInv, Spaced
  <1>5. (\A k \in DOMAIN disk.trades :
            /\ disk.trades[k].at <= now
            /\ Cardinality(OnDay(disk.trades, DayOf(disk.trades[k].at))) <= MaxTrades)'
    BY <1>1, <1>2 DEF TradeInv
  <1>6. ASSUME NEW i \in {disk'.pending, mem'.pending} \ {None}
        PROVE  (Due(i) <= now /\ RoomAt(Due(i)))'
    <2>1. i \in Ids /\ Due(i) <= now /\ RoomAt(Due(i))
      BY <1>1 DEF TradeInv
    <2>2. CASE ex[i] \in {"filled", "odd"}
      <3>1. Due(i)' = Due(i) /\ Due(i) \in Nat
        BY <1>1, <2>1, <2>2 DEF Due, Fills
      <3>. QED BY <1>1, <2>1, <3>1 DEF RoomAt
    <2>3. CASE ex[i] \notin {"filled", "odd"}
      <3>1. Due(i) = now /\ Due(i)' = now + 1
        BY <1>1, <2>3 DEF Due
      <3>2. RoomAt(now + 1)
        BY <1>3, <2>1, <3>1
      <3>. QED BY <1>1, <3>1, <3>2 DEF RoomAt
    <2>. QED BY <2>2, <2>3
  <1>. QED BY <1>4, <1>5, <1>6 DEF TradeInv

----------------------------------------------------------------------------
(* Every step is one of the four *)

\* A step that leaves the row's ledger alone trades nothing ...
LEMMA KeepsTrades ==
    ASSUME disk'.trades = disk.trades, disk'.pending = disk.pending,
           mem'.pending \in {disk.pending, mem.pending, None},
           UNCHANGED <<ex, fill, now>>
    PROVE  Untraded
  BY DEF Untraded, Due

\* ... and a step that saves the copy trades the pending order at most.
LEMMA SavesTrades ==
    ASSUME IInv, disk'.trades = mem.trades, disk'.pending = mem.pending,
           mem'.pending = disk'.pending, UNCHANGED <<ex, fill, now>>
    PROVE  Untraded \/ Traded
  <1>1. disk \in Rows /\ mem \in Rows /\ fill \in [Ids -> Fills]
    BY DEF IInv, TypeOK
  <1>2. CASE Same
    BY <1>2 DEF Same, SameLedger, Untraded, Due
  <1>3. CASE Candidate
    <2>1. disk.pending \in Ids
      BY <1>1, <1>3 DEF Candidate, Rows
    <2>2. Booked(disk, disk.pending).pending = None
      BY <1>1, <2>1, RowBooked
    <2>. QED BY <1>3, <2>2 DEF Candidate, SameLedger, Traded
  <1>4. CASE Unsaved
    <2>1. mem.trades = disk.trades
      BY <1>1, <1>4 DEF Unsaved, SameLedger, Rows
    <2>. QED BY <2>1 DEF Untraded, Due
  <1>. QED BY <1>2, <1>3, <1>4 DEF IInv, CopyInv

\* An order that may be named has left no trace, and the limits were read from
\* the row's executions.
LEMMA NewOrder ==
    ASSUME IInv, Approvable
    PROVE  /\ mem.proposal.id \in Ids /\ ex[mem.proposal.id] = "absent"
           /\ UnderDailyLimit(disk) /\ CooledDown(disk)
           /\ disk.pending = None /\ mem.trades = disk.trades
           /\ IntentRow(mem).pending = mem.proposal.id
           /\ IntentRow(mem).trades = disk.trades
  <1>1. /\ mem \in Rows /\ Same /\ mem.proposal.id # None /\ disk.pending = None
        /\ Limits(mem, mem.proposal.side, mem.proposal.qty, quote)
    BY DEF IInv, TypeOK, CopyInv, FlowInv, Approvable
  <1>2. mem.trades = disk.trades /\ mem.proposal = disk.proposal
    BY <1>1, EmptyProposal DEF Same, SameLedger
  <1>3. mem.proposal.id \in Ids /\ journal[mem.proposal.id] = NoRequest
    BY <1>1, <1>2 DEF IInv, RowInv, Rows, Proposals
  <1>4. ex[mem.proposal.id] = "absent"
    <2>1. OrderInv(mem.proposal.id) /\ posts \in [Ids -> Nat]
      BY <1>3 DEF IInv, TypeOK
    <2>. QED BY <1>3, <2>1 DEF OrderInv
  <1>5. UnderDailyLimit(disk) /\ CooledDown(disk)
    BY <1>1, <1>2 DEF Limits, UnderDailyLimit, CooledDown
  <1>6. /\ IntentRow(mem).pending = mem.proposal.id
        /\ IntentRow(mem).trades = mem.trades
    BY <1>1 DEF IntentRow, Rows
  <1>. QED BY <1>1, <1>2, <1>3, <1>4, <1>5, <1>6

\* Every step trades nothing, books the pending order, names one, or is a tick.
LEMMA TradeSteps ==
    ASSUME IInv, [Next]_vars
    PROVE  Untraded \/ Traded \/ Named \/ Tick
  <1>1. disk \in Rows /\ mem \in Rows /\ funds \in Money /\ now \in Nat
    BY DEF IInv, TypeOK
  <1>2. CASE UNCHANGED vars
    BY <1>2, KeepsTrades DEF vars, process, exchange
  <1>3. CASE Dispatch
    BY <1>3, KeepsTrades
       DEF Dispatch, BeginIpCheck, BeginPreflight, BeginPrepare, BeginApprove,
           BeginReconcile, BeginResume, BeginArm, BeginDisarm, BeginRun, Start,
           Begin, Unchanged, exchange
  <1>4. CASE Checks
    <2>1. CASE IpRefused \/ Released \/ Refused
      BY <1>1, <2>1, RowMarks, KeepsTrades
         DEF IpRefused, Released, Refused, Raise, Leave, Continue, Unchanged,
             exchange, SameLedger
    <2>2. CASE IpVerified \/ IpRefusedSave
      BY <2>2, SavesTrades
         DEF IpVerified, IpRefusedSave, Raise, Leave, Continue, exchange
    <2>3. ASSUME NEW p \in Prices, Preflight(p)
          PROVE  Untraded \/ Traded
      <3>1. /\ disk'.trades = mem.trades /\ disk'.pending = mem.pending
            /\ mem' = disk'
        BY <1>1, <2>3, RowObserved DEF Preflight, Leave
      <3>. QED BY <2>3, <3>1, SavesTrades DEF Preflight, exchange
    <2>. QED BY <1>4, <2>1, <2>2, <2>3 DEF Checks
  <1>5. CASE Control
    <2>1. CASE AddressMoved \/ Resume \/ Disarm
      BY <1>1, <2>1, RowMarks, KeepsTrades
         DEF AddressMoved, Resume, Disarm, Leave, Continue, exchange, SameLedger
    <2>2. CASE Arm \/ SaveAndLeave
      BY <1>1, <2>2, RowMarks, SavesTrades
         DEF Arm, SaveAndLeave, Leave, exchange, SameLedger
    <2>3. ASSUME NEW ip \in IPs, AcceptIp(ip)
          PROVE  Untraded \/ Traded
      <3>1. disk'.trades = mem.trades /\ disk'.pending = mem.pending /\ mem' = disk'
        BY <1>1, <2>3 DEF AcceptIp, Rows
      <3>. QED BY <2>3, <3>1, SavesTrades DEF AcceptIp, exchange
    <2>. QED BY <1>5, <2>1, <2>2, <2>3 DEF Control
  <1>6. CASE Cycle
    <2>1. CASE SlotTaken \/ Wait \/ Act \/ GatePassed \/ Halt \/ Park
      <3>1. /\ Disarmed(WithoutProposal(mem)).pending = mem.pending
            /\ Disarmed(mem).pending = mem.pending
        BY <1>1, RowMarks DEF SameLedger
      <3>. QED
        BY <2>1, <3>1, KeepsTrades
           DEF SlotTaken, Wait, Act, GatePassed, Halt, Park, Leave, Continue,
               Unchanged, exchange
    <2>2. CASE ClaimSlot
      <3>1. disk'.trades = mem.trades /\ disk'.pending = mem.pending /\ mem' = disk'
        BY <1>1, <2>2 DEF ClaimSlot, Rows
      <3>. QED BY <2>2, <3>1, SavesTrades DEF ClaimSlot, exchange
    <2>3. ASSUME NEW i \in Ids, NEW side \in Sides, NEW qty \in Quantities,
                 Offer(i, side, qty)
          PROVE  Untraded \/ Traded
      <3>1. disk'.trades = mem.trades /\ disk'.pending = mem.pending
        BY <1>1, <2>3 DEF Offer, Rows
      <3>2. mem'.pending = disk'.pending
        BY <2>3 DEF Offer, Leave
      <3>. QED BY <2>3, <3>1, <3>2, SavesTrades DEF Offer, exchange
    <2>4. CASE GateClosed \/ ParkSave
      BY <1>1, <2>4, RowMarks, SavesTrades
         DEF GateClosed, ParkSave, Leave, Continue, exchange, SameLedger
    <2>. QED BY <1>6, <2>1, <2>2, <2>3, <2>4 DEF Cycle
  <1>7. CASE Submit
    <2>1. CASE Intend
      <3>1. /\ disk' = IntentRow(mem) /\ mem' = IntentRow(mem) /\ Approvable
            /\ UNCHANGED <<ex, now>>
        BY <2>1 DEF Intend, SaveIntent, exchange
      <3>. QED BY <3>1, NewOrder DEF Named, Due
    <2>2. CASE IntendUnsaved
      <3>1. disk' = disk /\ Approvable /\ UNCHANGED <<ex, fill, now>>
        BY <2>2 DEF IntendUnsaved, exchange
      <3>2. CASE op = "run"
        <4>1. mem' = IntentRow(mem)
          BY <2>2, <3>2 DEF IntendUnsaved
        <4>. QED BY <3>1, <4>1, NewOrder DEF Named, Due
      <3>3. CASE op # "run"
        <4>1. mem' = disk'
          BY <2>2, <3>3 DEF IntendUnsaved, Leave
        <4>. QED BY <3>1, <4>1, KeepsTrades
      <3>. QED BY <3>2, <3>3
    <2>3. CASE \/ Place \/ Claim \/ Recheck \/ RequestRefused
               \/ Answered \/ AnsweredError \/ NoAnswer
      BY <2>3, KeepsTrades
         DEF Place, Claim, Recheck, RequestRefused, Answered, AnsweredError,
             NoAnswer, Continue, Unchanged, exchange
    <2>4. CASE Send
      <3>1. /\ ord.id \in Ids /\ ex[ord.id] = "absent"
            /\ ex \in [Ids -> {"absent", "transit", "filled", "odd", "refused"}]
        <4>1. ord.id \in Ids /\ posts[ord.id] = 0
          BY <2>4 DEF Send, IInv, FlowInv, TypeOK, Rows
        <4>2. OrderInv(ord.id)
          BY <4>1 DEF IInv
        <4>. QED BY <4>1, <4>2 DEF OrderInv, IInv, TypeOK
      <3>2. \A i \in Ids : Due(i)' = Due(i)
        BY <2>4, <3>1 DEF Send, Due
      <3>. QED BY <2>4, <3>2 DEF Send, Untraded
    <2>. QED BY <1>7, <2>1, <2>2, <2>3, <2>4 DEF Submit
  <1>8. CASE Reconcile
    <2>1. CASE \/ SettleFound \/ SettleUnknown \/ QueryFound
               \/ ReconcileRaises \/ BookUnsaved \/ Unresolved
      BY <2>1, KeepsTrades
         DEF SettleFound, SettleUnknown, QueryFound, ReconcileRaises, BookUnsaved,
             Unresolved, RaiseInFlight, Raise, Leave, Continue, Unchanged, exchange
    <2>2. CASE VerifyFound
      <3>1. Booked(mem, mem.pending).pending = None
        BY <1>1 DEF Booked, Rows
      <3>. QED
        BY <2>2, <3>1, KeepsTrades DEF VerifyFound, Continue, Unchanged, exchange
    <2>3. CASE Book \/ UnresolvedSave
      BY <2>3, SavesTrades
         DEF Book, UnresolvedSave, UnresolvedRow, Raise, Leave, Continue, exchange
    <2>. QED BY <1>8, <2>1, <2>2, <2>3 DEF Reconcile
  <1>9. CASE Environment
    <2>1. CASE EmergencyStop \/ Crash \/ Deposit
      BY <2>1, KeepsTrades DEF EmergencyStop, Crash, Deposit, Leave, process, exchange
    <2>2. ASSUME NEW i \in Ids, NEW qty, NEW p, NEW outcome \in {"filled", "odd"},
                 Execute(i, qty, p, outcome)
          PROVE  Untraded
      <3>1. /\ ex[i] = "transit" /\ now' = now
            /\ ex' = [ex EXCEPT ![i] = outcome]
            /\ fill' = [fill EXCEPT ![i] = Moved(journal[i].side, qty, p)]
            /\ disk' = disk /\ mem' = mem
        BY <2>2 DEF Execute, process
      <3>2. /\ ex \in [Ids -> {"absent", "transit", "filled", "odd", "refused"}]
            /\ fill \in [Ids -> Fills]
        BY DEF IInv, TypeOK
      <3>3. Moved(journal[i].side, qty, p).at = now
        BY DEF Moved
      <3>4. \A j \in Ids : Due(j)' = Due(j)
        BY <3>1, <3>2, <3>3 DEF Due
      <3>. QED BY <3>1, <3>4 DEF Untraded
    <2>3. ASSUME NEW i \in Ids, Refuse(i)
          PROVE  Untraded
      <3>1. ex \in [Ids -> {"absent", "transit", "filled", "odd", "refused"}]
        BY DEF IInv, TypeOK
      <3>2. \A j \in Ids : Due(j)' = Due(j)
        BY <2>3, <3>1 DEF Refuse, Due
      <3>. QED BY <2>3, <3>2 DEF Refuse, Untraded, process
    <2>. QED
      BY <1>9, <2>1, <2>2, <2>3 DEF Environment, ExecuteWhole, ExecuteOdd
  <1>. QED
    BY <1>2, <1>3, <1>4, <1>5, <1>6, <1>7, <1>8, <1>9 DEF Next

----------------------------------------------------------------------------
(* The rules hold of every behaviour *)

\* The rules hold where nothing was traded, evaluated or seen.
LEMMA RulesInit == Init => RulesInv
  <1>. SUFFICES ASSUME Init PROVE RulesInv
    OBVIOUS
  <1>1. /\ mem = disk /\ disk.lastSlot = -1 /\ disk.day = -1 /\ disk.trades = <<>>
        /\ disk.pending = None /\ disk.proposal.id = None
        /\ ~disk.armed /\ ~disk.loss /\ ~disk.cum
    BY DEF Init, FreshRow, NoProposal
  <1>2. Slot \in Nat /\ Today \in Nat
    BY LimitAssumption, DivisionRises DEF Init, Slot, Today, DayOf
  <1>3. SlotInv
    BY <1>1, <1>2 DEF Init, SlotInv, OneEvaluationPerSlot
  <1>4. LossInv
    BY <1>1, <1>2 DEF Init, LossInv
  <1>5. ModeInv
    BY <1>1 DEF Init, ModeInv, ProposalMatchesMode
  <1>6. TradeInv
    BY <1>1 DEF TradeInv, Spaced
  <1>. QED BY <1>1, <1>3, <1>4, <1>5, <1>6 DEF RulesInv, SameMarks

\* Every step keeps the rules.
LEMMA RulesNext ==
    ASSUME IInv, RulesInv, [Next]_vars
    PROVE  RulesInv'
  <1>1. TradeInv'
    BY TradeSteps, UntradedStep, TradedStep, NamedStep, TickStep DEF RulesInv
  <1>. QED BY <1>1, MarksNext, SlotNext, LossNext, ModeNext DEF RulesInv

\* The ledger's invariant and the runner's rules together are inductive.
THEOREM InductiveHolds == Spec => []Inductive
  <1>1. Init => Inductive
    BY InvInit, RulesInit DEF Inductive
  <1>2. Inductive /\ [Next]_vars => Inductive'
    BY InvNext, RulesNext DEF Inductive
  <1>. QED BY <1>1, <1>2, PTL DEF Spec

\* LiveAutomation.cycle: a slot is claimed durably before it is evaluated, so no
\* restart, disarm or new authorisation evaluates it again.
THEOREM SlotsAreEvaluatedOnce == Spec => []OneEvaluationPerSlot
  <1>1. Inductive => OneEvaluationPerSlot
    BY DEF Inductive, RulesInv, SlotInv
  <1>. QED BY <1>1, InductiveHolds, PTL

\* A proposal of the runner is never in a row a person could approve, nor a
\* person's in one the runner is authorised for.
THEOREM ModesStayApart == Spec => []ProposalMatchesMode
  <1>1. Inductive => ProposalMatchesMode
    BY DEF Inductive, RulesInv, ModeInv
  <1>. QED BY <1>1, InductiveHolds, PTL

\* Executions are the cooldown apart although the cooldown is measured when the
\* order is approved and the order is executed later, or found later.
THEOREM ExecutionsAreSpaced == Spec => []Spaced
  <1>1. Inductive => Spaced
    BY DEF Inductive, RulesInv, TradeInv
  <1>. QED BY <1>1, InductiveHolds, PTL

\* No day holds more executions than MaxTrades although the limit is read on the
\* day of the approval and the execution may fall on the next.
THEOREM DaysStayWithinLimit == Spec => []DailyTradeLimit
  <1>1. Inductive => DailyTradeLimit
    <2>. SUFFICES ASSUME Inductive, NEW d
                  PROVE  Cardinality(OnDay(disk.trades, d)) <= MaxTrades
      BY DEF DailyTradeLimit, OnDay
    <2>1. CASE OnDay(disk.trades, d) = {}
      BY <2>1, FS_EmptySet, LimitAssumption
    <2>2. CASE OnDay(disk.trades, d) # {}
      <3>1. PICK k \in DOMAIN disk.trades : DayOf(disk.trades[k].at) = d
        BY <2>2 DEF OnDay
      <3>. QED BY <3>1 DEF Inductive, RulesInv, TradeInv
    <2>. QED BY <2>1, <2>2
  <1>. QED BY <1>1, InductiveHolds, PTL

\* A buy gets its grant only on a day without a loss and before the total loss:
\* the latches the grant is refused by outlive restarts, resumes and arming.
THEOREM LossesStopBuying == Spec => NoBuyAfterLoss
  <1>1. Inductive /\ [Next]_vars =>
          [grant' \notin {None, grant} /\ ord'.side = "BUY" =>
              lossDays \cap {disk.day, -1} = {}]_vars
    <2>. SUFFICES ASSUME Inductive, Next, grant' \notin {None, grant},
                         ord'.side = "BUY"
                  PROVE  lossDays \cap {disk.day, -1} = {}
      BY DEF vars
    <2>1. Intend
      <3>1. CASE Dispatch
        BY <3>1 DEF Dispatch, BeginIpCheck, BeginPreflight, BeginPrepare, BeginApprove,
                    BeginReconcile, BeginResume, BeginArm, BeginDisarm, BeginRun,
                    Start, Begin
      <3>2. CASE Checks
        BY <3>2 DEF Checks, IpVerified, IpRefused, IpRefusedSave, Released, Refused,
                    Preflight, Raise, Leave, Continue
      <3>3. CASE Control
        BY <3>3 DEF Control, AcceptIp, AddressMoved, Resume, Arm, Disarm, SaveAndLeave,
                    Raise, Leave, Continue
      <3>4. CASE Cycle
        BY <3>4 DEF Cycle, ClaimSlot, SlotTaken, Wait, Act, Offer, GatePassed,
                    GateClosed, Halt, Park, ParkSave, Raise, Leave, Continue
      <3>5. CASE Submit
        BY <3>5 DEF Submit, IntendUnsaved, Place, Claim, Recheck, RequestRefused, Send,
                    Answered, AnsweredError, NoAnswer, RaiseInFlight, Raise, Leave,
                    Continue
      <3>6. CASE Reconcile
        BY <3>6 DEF Reconcile, SettleFound, SettleUnknown, QueryFound, VerifyFound,
                    ReconcileRaises, Book, BookUnsaved, Unresolved, UnresolvedSave,
                    RaiseInFlight, Raise, Leave, Continue
      <3>7. CASE Environment
        BY <3>7 DEF Environment, EmergencyStop, Crash, Tick, ExecuteWhole, ExecuteOdd,
                    Execute, Refuse, Deposit, process, Leave
      <3>. QED BY <3>1, <3>2, <3>3, <3>4, <3>5, <3>6, <3>7 DEF Next
    <2>2. ~mem.loss /\ ~mem.cum
      BY <2>1 DEF Intend, Approvable, Limits
    <2>3. ~disk.loss /\ ~disk.cum
      BY <2>2 DEF Inductive, RulesInv, SameMarks
    <2>. QED BY <2>3 DEF Inductive, RulesInv, LossInv
  <1>. QED BY <1>1, InductiveHolds, PTL DEF Spec, NoBuyAfterLoss

=============================================================================
