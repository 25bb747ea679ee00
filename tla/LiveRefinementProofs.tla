----------------------- MODULE LiveRefinementProofs -----------------------
(***************************************************************************)
(* LiveControl implements OrderOnce, for every value of the constants.     *)
(* Most steps are hidden; the rest are shown to intend, send, execute or   *)
(* book an order.                                                          *)
(***************************************************************************)
EXTENDS LiveRefinement, LiveControlProofs

\* A step that keeps the ledger of the row and moves nothing on the exchange.
LEMMA HiddenStep ==
    ASSUME disk'.cash = disk.cash, disk'.btc = disk.btc,
           disk'.trades = disk.trades, disk'.pending = disk.pending,
           UNCHANGED <<ex, fill, posts>>, AccountMoved' = AccountMoved
    PROVE  UNCHANGED Once!vars
  <1>1. BookedIds(disk') = BookedIds(disk)
    BY DEF BookedIds
  <1>2. \A i \in Ids : StageOf(i)' = StageOf(i)
    BY <1>1 DEF StageOf, BookedIds
  <1>. QED BY <1>2 DEF Once!vars, Amount

\* A step that changes neither ledger nor exchange stutters above.
LEMMA LedgerHidden ==
    ASSUME SameLedger(disk', disk), UNCHANGED <<exchange, ext>>
    PROVE  UNCHANGED Once!vars
  <1>1. AccountMoved' = AccountMoved
    BY DEF SameLedger, AccountMoved, exchange
  <1>. QED BY <1>1, HiddenStep DEF SameLedger, exchange

\* The durable intent is the abstract Intend.
LEMMA IntendMaps ==
    ASSUME IInv, NEW i \in Ids, disk' \in Rows,
           disk.pending = None, journal[i] = NoRequest,
           SameLedger(disk', [disk EXCEPT !.pending = i]),
           UNCHANGED <<exchange, ext>>
    PROVE  Once!Intend(i)
  <1>1. disk \in Rows /\ i # None
    BY NoneAssumption DEF IInv, TypeOK
  <1>2. /\ disk'.cash = disk.cash /\ disk'.btc = disk.btc
        /\ disk'.trades = disk.trades /\ disk'.pending = i
        /\ disk'.bound = disk.bound /\ disk'.base = disk.base
    BY <1>1 DEF SameLedger, Rows
  <1>3. BookedIds(disk') = BookedIds(disk) /\ AccountMoved' = AccountMoved
    BY <1>2 DEF BookedIds, AccountMoved, exchange
  <1>4. /\ posts[i] = 0 /\ ex[i] = "absent" /\ i \notin BookedIds(disk)
    BY DEF IInv, OrderInv, RowInv
  <1>5. StageOf(i) = "new" /\ StageOf(i)' = "intended"
    BY <1>1, <1>2, <1>3, <1>4 DEF StageOf, exchange, BookedIds
  <1>6. \A j \in Ids : j # i => StageOf(j)' = StageOf(j)
    BY <1>2, <1>3, NoneAssumption DEF StageOf, exchange, BookedIds
  <1>. QED
    BY <1>2, <1>3, <1>5, <1>6 DEF Once!Intend, Amount, exchange

\* The durable fill is the abstract Book.
LEMMA BookMaps ==
    ASSUME IInv, NEW i \in Ids, i = disk.pending,
           disk' = mem, Candidate, UNCHANGED <<exchange, ext>>
    PROVE  Once!Book(i)
  <1>1. disk \in Rows /\ i # None /\ fill \in [Ids -> Fills]
    BY NoneAssumption DEF IInv, TypeOK, Candidate, Rows
  <1>2. /\ disk'.cash = disk.cash + fill[i].cash
        /\ disk'.btc = disk.btc + fill[i].btc
        /\ disk'.pending = None
        /\ disk'.trades = Booked(disk, i).trades
        /\ disk'.bound = disk.bound /\ disk'.base = disk.base
        /\ BookedIds(Booked(disk, i)) = BookedIds(disk) \cup {i}
    BY <1>1, RowBooked DEF Candidate, SameLedger
  <1>3. BookedIds(disk') = BookedIds(disk) \cup {i} /\ AccountMoved' = AccountMoved
    BY <1>2 DEF BookedIds, AccountMoved, exchange
  <1>4. ex[i] = "filled" /\ i \notin BookedIds(disk)
    BY <1>1 DEF IInv, RowInv, Candidate
  <1>5. StageOf(i) = "executed" /\ StageOf(i)' = "booked"
    BY <1>1, <1>3, <1>4 DEF StageOf, exchange, BookedIds
  <1>6. \A j \in Ids : j # i => StageOf(j)' = StageOf(j)
    BY <1>2, <1>3, NoneAssumption DEF StageOf, exchange, BookedIds
  <1>7. [cash |-> disk'.cash - Capital, btc |-> disk'.btc]
          = Once!Plus([cash |-> disk.cash - Capital, btc |-> disk.btc], Amount(fill[i]))
    <2>1. /\ disk.cash \in Int /\ disk.btc \in Int
          /\ fill[i].cash \in Int /\ fill[i].btc \in Int
      BY <1>1 DEF Rows, Fills
    <2>2. Capital \in Int
      BY LimitAssumption
    <2>. QED BY <1>2, <2>1, <2>2 DEF Once!Plus, Amount
  <1>. QED
    BY <1>1, <1>2, <1>3, <1>5, <1>6, <1>7 DEF Once!Book, Amount, exchange

\* Whatever copy is saved, the save intends, books, or is hidden.
LEMMA SaveMaps ==
    ASSUME IInv, disk' = mem, Same \/ Candidate \/ Unsaved,
           UNCHANGED <<exchange, ext>>
    PROVE  [Once!Next]_Once!vars
  <1>1. CASE Same
    BY <1>1, LedgerHidden DEF Same
  <1>2. CASE Candidate
    <2>1. disk.pending \in Ids
      BY <1>2 DEF Candidate, IInv, TypeOK, Rows
    <2>. QED BY <1>2, <2>1, BookMaps DEF Once!Next
  <1>3. CASE Unsaved
    <2>1. mem.pending \in Ids /\ disk' \in Rows
      BY <1>3 DEF Unsaved, IInv, TypeOK
    <2>. QED BY <1>3, <2>1, IntendMaps DEF Unsaved, Once!Next
  <1>. QED BY <1>1, <1>2, <1>3

\* The POST is the abstract Send.
LEMMA SendMaps ==
    ASSUME IInv, NEW i \in Ids, i = ord.id, Send, grant = ord.id
    PROVE  Once!Send(i)
  <1>1. /\ i \in Ids /\ i = disk.pending /\ posts[i] = 0
        /\ posts \in [Ids -> Nat] /\ ex[i] = "absent"
        /\ ex \in [Ids -> {"absent", "transit", "filled", "odd", "refused"}]
        /\ i \notin BookedIds(disk)
    BY NoneAssumption DEF Send, IInv, FlowInv, TypeOK, Proposals, OrderInv, RowInv
  <1>2. /\ posts' = [posts EXCEPT ![i] = @ + 1]
        /\ ex' = [ex EXCEPT ![i] = "transit"]
        /\ disk' = disk /\ fill' = fill /\ AccountMoved' = AccountMoved
    BY DEF Send, history, AccountMoved
  <1>3. StageOf(i) = "intended" /\ StageOf(i)' = "sent"
    BY <1>1, <1>2 DEF StageOf, BookedIds
  <1>4. \A j \in Ids : j # i => StageOf(j)' = StageOf(j)
    BY <1>1, <1>2 DEF StageOf, BookedIds
  <1>. QED
    BY <1>1, <1>2, <1>3, <1>4 DEF Once!Send, Amount

\* An execution is the abstract one.
LEMMA ExecuteMaps ==
    ASSUME IInv, NEW i \in Ids, NEW p \in Prices, NEW qty \in Nat,
           NEW o \in {"filled", "odd"}, Execute(i, qty, p, o)
    PROVE  Once!Execute(i)
  <1>. DEFINE f == Moved(journal[i].side, qty, p)
  <1>1. /\ ex[i] = "transit" /\ ex' = [ex EXCEPT ![i] = o]
        /\ fill' = [fill EXCEPT ![i] = f]
        /\ funds' = [cash |-> funds.cash + f.cash, btc |-> funds.btc + f.btc]
        /\ disk' = disk /\ posts' = posts /\ ext' = ext
    BY DEF Execute, history
  <1>2. /\ fill \in [Ids -> Fills] /\ disk \in Rows /\ funds \in Money /\ ext \in Int
        /\ ex \in [Ids -> {"absent", "transit", "filled", "odd", "refused"}]
        /\ posts \in [Ids -> Nat] /\ now \in Nat
    BY DEF IInv, TypeOK
  <1>3. f.cash \in Int /\ f.btc \in Int
    <2>1. qty * p \in Int /\ -(qty * p) \in Int /\ -qty \in Int
      BY DomainAssumption
    <2>. QED BY <2>1 DEF Moved
  <1>4. posts[i] > 0 /\ i \notin BookedIds(disk)
    BY <1>1, <1>2 DEF IInv, OrderInv, RowInv
  <1>5. i = disk.pending /\ i # None
    BY <1>4, NoneAssumption DEF IInv, OrderInv
  <1>6. disk.bound
    BY <1>5 DEF IInv, RowInv
  <1>7. StageOf(i) = "sent" /\ StageOf(i)' = "executed"
    BY <1>1, <1>2, <1>4 DEF StageOf, BookedIds
  <1>8. \A j \in Ids : j # i => StageOf(j)' = StageOf(j)
    BY <1>1, <1>2 DEF StageOf, BookedIds
  <1>9. AccountMoved' = Once!Plus(AccountMoved, Amount(f))
    <2>1. /\ funds.cash \in Int /\ funds.btc \in Int
          /\ disk.base.cash \in Int /\ disk.base.btc \in Int
      BY <1>2 DEF Rows, Money
    <2>. QED
      BY <1>1, <1>2, <1>3, <1>6, <2>1 DEF AccountMoved, Once!Plus, Amount
  <1>10. fill'[i] = f /\ \A j \in Ids : j # i => fill'[j] = fill[j]
    BY <1>1, <1>2
  <1>11. Amount(f) \in Once!Amounts
    BY <1>3 DEF Amount, Once!Amounts
  <1>. QED
    BY <1>1, <1>7, <1>8, <1>9, <1>10, <1>11 DEF Once!Execute, Amount

----------------------------------------------------------------------------
(* Every step of LiveControl *)

\* Taking the lock stutters above.
LEMMA DispatchMaps ==
    ASSUME Dispatch
    PROVE  UNCHANGED Once!vars
  <1>1. UNCHANGED <<disk, exchange, ext>>
    BY DEF Dispatch, BeginIpCheck, BeginPreflight, BeginPrepare,
           BeginApprove, BeginReconcile, BeginResume, BeginArm, BeginDisarm,
           BeginRun, Start, Unchanged, history
  <1>. QED BY <1>1, LedgerHidden DEF SameLedger

\* Binding the ledger stutters above.
LEMMA PreflightMaps ==
    ASSUME IInv, NEW p \in Prices, Preflight(p)
    PROVE  UNCHANGED Once!vars
  <1>1. /\ Same /\ mem \in Rows /\ funds \in Money /\ now \in Nat
    BY DEF Preflight, IInv, CopyInv, TypeOK
  <1>2. /\ disk'.bound
        /\ disk'.base = IF mem.bound THEN mem.base ELSE funds
        /\ disk'.cash = mem.cash /\ disk'.btc = mem.btc
        /\ disk'.trades = mem.trades /\ disk'.pending = mem.pending
    BY <1>1, RowObserved DEF Preflight
  <1>3. UNCHANGED exchange /\ ext' = IF mem.bound THEN ext ELSE 0
    BY DEF Preflight
  <1>4. AccountMoved' = AccountMoved
    <2>1. CASE disk.bound
      BY <1>1, <1>2, <1>3, <2>1 DEF AccountMoved, exchange, Same, SameLedger
    <2>2. CASE ~disk.bound
      <3>1. /\ disk'.base.cash = funds.cash /\ disk'.base.btc = funds.btc
            /\ disk'.bound /\ ext' = 0 /\ funds' = funds
        BY <1>1, <1>2, <1>3, <2>2 DEF exchange, Same, SameLedger
      <3>2. funds.cash \in Int /\ funds.btc \in Int
        BY <1>1 DEF Money
      <3>. QED BY <2>2, <3>1, <3>2 DEF AccountMoved
    <2>. QED BY <2>1, <2>2
  <1>. QED
    BY <1>1, <1>2, <1>3, <1>4, HiddenStep DEF Same, SameLedger, exchange

\* The checks stutter above.
LEMMA ChecksMaps ==
    ASSUME IInv, Checks
    PROVE  [Once!Next]_Once!vars
  <1>1. CopyInv
    BY DEF IInv
  <1>2. CASE IpVerified
    BY <1>1, <1>2, SaveMaps DEF IpVerified, CopyInv, history
  <1>3. CASE IpRefusedSave
    BY <1>1, <1>3, SaveMaps DEF IpRefusedSave, CopyInv, history
  <1>4. CASE IpRefused \/ Released \/ Refused
    BY <1>4, LedgerHidden DEF IpRefused, Released, Refused, Unchanged, SameLedger, history
  <1>5. CASE \E p \in Prices : Preflight(p)
    BY <1>5, PreflightMaps
  <1>. QED
    BY <1>2, <1>3, <1>4, <1>5 DEF Checks

\* resume, arm and disarm stutter above, or save what a cycle could not.
LEMMA ControlMaps ==
    ASSUME IInv, Control
    PROVE  [Once!Next]_Once!vars
  <1>1. CopyInv /\ mem \in Rows
    BY DEF IInv, TypeOK
  <1>2. CASE \E ip \in IPs : AcceptIp(ip)
    <2>1. PICK ip \in IPs : AcceptIp(ip)
      BY <1>2
    <2>2. SameLedger(disk', mem) /\ Same /\ UNCHANGED <<exchange, ext>>
      BY <1>1, <2>1, RowApproved, DomainAssumption DEF AcceptIp, CopyInv, history
    <2>. QED BY <2>2, LedgerHidden DEF Same, SameLedger
  <1>3. CASE AddressMoved \/ Resume \/ Disarm
    BY <1>3, LedgerHidden DEF AddressMoved, Resume, Disarm, SameLedger, history
  <1>4. CASE Arm
    <2>1. SameLedger(disk', mem) /\ Same /\ UNCHANGED <<exchange, ext>>
      BY <1>1, <1>4, RowMarks DEF Arm, CopyInv, history
    <2>. QED BY <2>1, LedgerHidden DEF Same, SameLedger
  <1>5. CASE SaveAndLeave
    BY <1>1, <1>5, SaveMaps DEF SaveAndLeave, CopyInv, history
  <1>. QED
    BY <1>2, <1>3, <1>4, <1>5 DEF Control

\* The automatic cycle stutters above.
LEMMA CycleMaps ==
    ASSUME IInv, Cycle
    PROVE  [Once!Next]_Once!vars
  <1>1. CopyInv /\ mem \in Rows /\ now \in Nat
    BY DEF IInv, TypeOK
  <1>2. CASE ClaimSlot
    <2>1. Slot \in Int
      BY <1>1, LimitAssumption DEF Slot
    <2>2. SameLedger(disk', mem) /\ Same /\ UNCHANGED <<exchange, ext>>
      BY <1>1, <1>2, <2>1, RowClaimed DEF ClaimSlot, CopyInv
    <2>. QED BY <2>2, LedgerHidden DEF Same, SameLedger
  <1>3. CASE SlotTaken \/ Wait \/ Act \/ GatePassed \/ Halt \/ Park
    BY <1>3, LedgerHidden DEF SlotTaken, Wait, Act, GatePassed, Halt, Park,
       Unchanged, SameLedger, history
  <1>4. CASE \E i \in Ids, side \in Sides, qty \in Quantities : Offer(i, side, qty)
    <2>1. PICK i \in Ids, side \in Sides, qty \in Quantities : Offer(i, side, qty)
      BY <1>4
    <2>2. SameLedger(disk', mem) /\ Same /\ UNCHANGED <<exchange, ext>>
      BY <1>1, <2>1 DEF Offer, CopyInv, Rows, SameLedger
    <2>. QED BY <2>2, LedgerHidden DEF Same, SameLedger
  <1>5. CASE GateClosed
    <2>1. SameLedger(disk', mem) /\ Same /\ UNCHANGED <<exchange, ext>>
      BY <1>1, <1>5, RowMarks DEF GateClosed, CopyInv, history
    <2>. QED BY <2>1, LedgerHidden DEF Same, SameLedger
  <1>6. CASE ParkSave
    BY <1>1, <1>6, SaveMaps DEF ParkSave, CopyInv, history
  <1>. QED
    BY <1>2, <1>3, <1>4, <1>5, <1>6 DEF Cycle

\* submit maps to the intent, the POST, or a stutter.
LEMMA SubmitMaps ==
    ASSUME IInv, Submit
    PROVE  [Once!Next]_Once!vars
  <1>1. CASE Intend
    <2>. DEFINE i == mem.proposal.id
    <2>1. /\ Same /\ disk.pending = None /\ disk.bound /\ i # None
          /\ mem \in Rows /\ disk \in Rows
      BY <1>1 DEF Intend, Approvable, IInv, CopyInv, FlowInv, TypeOK
    <2>2. i \in Ids /\ journal[i] = NoRequest
      BY <2>1, EmptyProposal DEF Same, IInv, RowInv, Rows, Proposals
    <2>3. disk' = IntentRow(mem) /\ UNCHANGED <<exchange, ext>>
      BY <1>1 DEF Intend, SaveIntent, history
    <2>4. disk' \in Rows /\ SameLedger(disk', [mem EXCEPT !.pending = i])
      BY <2>1, <2>3, RowIntent
    <2>5. SameLedger(disk', [disk EXCEPT !.pending = i])
      BY <2>1, <2>4 DEF Same, SameLedger, Rows
    <2>. QED BY <2>1, <2>2, <2>3, <2>4, <2>5, IntendMaps DEF Once!Next
  <1>2. CASE Send
    <2>1. ord.id \in Ids
      BY <1>2 DEF Send, IInv, FlowInv, TypeOK, Proposals
    <2>2. CASE grant = ord.id
      BY <1>2, <2>1, <2>2, SendMaps DEF Once!Next
    <2>3. CASE grant # ord.id
      BY <1>2, <2>3, LedgerHidden DEF Send, exchange, SameLedger, history
    <2>. QED BY <2>2, <2>3
  <1>3. CASE IntendUnsaved \/ Place \/ Claim \/ Recheck \/ RequestRefused
             \/ Answered \/ AnsweredError \/ NoAnswer
    BY <1>3, LedgerHidden DEF IntendUnsaved, Place, Claim, Recheck,
       RequestRefused, Answered, AnsweredError, NoAnswer, Unchanged, SameLedger,
       history
  <1>. QED
    BY <1>1, <1>2, <1>3 DEF Submit

\* The reconciliations map to the booking or a stutter.
LEMMA ReconcileMaps ==
    ASSUME IInv, Reconcile
    PROVE  [Once!Next]_Once!vars
  <1>1. CopyInv
    BY DEF IInv
  <1>2. CASE Book
    BY <1>1, <1>2, SaveMaps DEF Book, CopyInv, history
  <1>3. CASE UnresolvedSave
    BY <1>1, <1>3, SaveMaps DEF UnresolvedSave, UnresolvedRow, CopyInv, history
  <1>4. CASE SettleFound \/ SettleUnknown \/ QueryFound \/ VerifyFound
             \/ ReconcileRaises \/ BookUnsaved \/ Unresolved
    BY <1>4, LedgerHidden DEF SettleFound, SettleUnknown, QueryFound, VerifyFound,
       ReconcileRaises, BookUnsaved, Unresolved, Unchanged, SameLedger, history
  <1>. QED
    BY <1>2, <1>3, <1>4 DEF Reconcile

\* A rejection stutters above: the order stays unknown there.
LEMMA RefuseMaps ==
    ASSUME IInv, NEW i \in Ids, Refuse(i)
    PROVE  UNCHANGED Once!vars
  <1>1. /\ ex[i] = "transit" /\ ex' = [ex EXCEPT ![i] = "refused"]
        /\ UNCHANGED <<disk, posts, fill>> /\ AccountMoved' = AccountMoved
    BY DEF Refuse, AccountMoved, history
  <1>2. ex \in [Ids -> {"absent", "transit", "filled", "odd", "refused"}]
    BY DEF IInv, TypeOK
  <1>3. \A j \in Ids : StageOf(j)' = StageOf(j)
    BY <1>1, <1>2 DEF StageOf, BookedIds
  <1>. QED BY <1>1, <1>3 DEF Once!vars, Amount

\* The owner's deposit stutters above.
LEMMA DepositMaps ==
    ASSUME IInv, Deposit
    PROVE  UNCHANGED Once!vars
  <1>1. /\ funds \in Money /\ disk \in Rows /\ ext \in Int
    BY DEF IInv, TypeOK
  <1>2. /\ funds'.cash = funds.cash + 1 /\ funds'.btc = funds.btc
        /\ ext' = ext + 1 /\ disk' = disk /\ UNCHANGED <<ex, fill, posts>>
    BY <1>1 DEF Deposit, Money
  <1>3. funds.cash \in Int /\ disk.base.cash \in Int
    BY <1>1 DEF Money, Rows
  <1>4. AccountMoved' = AccountMoved
    BY <1>1, <1>2, <1>3 DEF AccountMoved
  <1>. QED BY <1>2, <1>4, HiddenStep

\* What moves beside the holder maps to an execution or a stutter.
LEMMA EnvironmentMaps ==
    ASSUME IInv, Environment
    PROVE  [Once!Next]_Once!vars
  <1>1. CASE EmergencyStop \/ Crash \/ Tick
    BY <1>1, LedgerHidden DEF EmergencyStop, Crash, Tick, SameLedger, history
  <1>2. CASE Deposit
    BY <1>2, DepositMaps
  <1>3. CASE \E i \in Ids, p \in Prices : ExecuteWhole(i, p) \/ ExecuteOdd(i, p)
    <2>1. PICK i \in Ids, p \in Prices : ExecuteWhole(i, p) \/ ExecuteOdd(i, p)
      BY <1>3
    <2>2. journal[i].qty \in Nat
      BY DEF IInv, TypeOK
    <2>. QED
      BY <2>1, <2>2, ExecuteMaps DEF ExecuteWhole, ExecuteOdd, Once!Next
  <1>4. CASE \E i \in Ids : Refuse(i)
    BY <1>4, RefuseMaps
  <1>. QED
    BY <1>1, <1>2, <1>3, <1>4 DEF Environment

\* The fresh ledger is an initial state of the abstract order path.
LEMMA RefinesInit == Init => Once!Init
  <1>. SUFFICES ASSUME Init PROVE Once!Init
    OBVIOUS
  <1>1. Capital \in Int
    BY LimitAssumption
  <1>2. BookedIds(disk) = {} /\ disk.pending = None
    BY DEF Init, FreshRow, BookedIds
  <1>3. \A i \in Ids : StageOf(i) = "new" /\ Amount(fill[i]) = Once!Nothing
    BY <1>2, NoneAssumption DEF Init, StageOf, Amount, NoFill, Once!Nothing
  <1>4. AccountMoved = Once!Nothing
    BY DEF Init, FreshRow, AccountMoved, Once!Nothing
  <1>5. [cash |-> disk.cash - Capital, btc |-> disk.btc] = Once!Nothing
    BY <1>1 DEF Init, FreshRow, Once!Nothing
  <1>. QED
    BY <1>2, <1>3, <1>4, <1>5 DEF Init, Once!Init

\* Every step maps to an abstract step or a stutter.
LEMMA RefinesNext == IInv /\ [Next]_vars => [Once!Next]_Once!vars
  <1>. SUFFICES ASSUME IInv, [Next]_vars PROVE [Once!Next]_Once!vars
    OBVIOUS
  <1>1. CASE Next
    BY <1>1, DispatchMaps, ChecksMaps, ControlMaps, CycleMaps, SubmitMaps,
       ReconcileMaps, EnvironmentMaps DEF Next
  <1>2. CASE UNCHANGED vars
    BY <1>2, LedgerHidden DEF vars, SameLedger, history
  <1>. QED BY <1>1, <1>2

\* The order path, with its crashes, lost replies and failed saves, implements
\* the promise: intended one at a time, sent at most once, booked exactly as
\* executed before the next is intended.
THEOREM OrderPathIsOnce == Spec => RefinesOrderOnce
  BY RefinesInit, RefinesNext, InvariantHolds, PTL
     DEF Spec, RefinesOrderOnce, Once!Spec

=============================================================================
