---------------------------- MODULE LiveControl ----------------------------
(***************************************************************************)
(* The production order path of the trader: LiveControl (live_control.py), *)
(* the automatic runner (live_auto.py), the adapter's place_order and      *)
(* reconcile (exchange/binance.py), the one-use transport grant            *)
(* (exchange/production.py), the submission journal and the persistent     *)
(* stop.                                                                   *)
(*                                                                         *)
(* Every operation takes control.lock without waiting, builds a            *)
(* LiveControl from the live_state row, works on that copy (mem) and       *)
(* writes the whole row back at each save (disk).  The lock holder is one  *)
(* process, so it has one program counter; what moves beside it is the     *)
(* emergency stop, which takes no lock, the clock, the account's owner and *)
(* the exchange, which may execute a request long after the reply to it    *)
(* was lost.  The holder may die before any of its steps.                  *)
(*                                                                         *)
(* Prices, addresses and clocks are read from small sets.  A refusal whose *)
(* reason the model does not carry (permissions, stale ticker, spread, a   *)
(* failed query, an environment switch that is off) is a step that may     *)
(* always be taken at the point where the code raises.                     *)
(***************************************************************************)
EXTENDS Integers, Sequences, FiniteSets

CONSTANTS
    Ids,             \* client order ids; uuid4 never gives one twice
    None,            \* no id, no address
    IPs,             \* public egress addresses the host may appear under
    Allowed,         \* LIVE_APPROVED_EGRESS_IPS, {} when it is not set
    Prices,          \* quotes and execution prices
    Quantities,      \* what market_quantity may round an amount to
    Capital, OrderLimit, ExposureLimit, DailyLoss, CumulativeLoss,
    MaxTrades,       \* orders per UTC day
    Cooldown,        \* clock units between two orders
    Ttl,             \* clock units a proposal lives
    SlotLen,         \* clock units of one evaluation slot
    DayLen,          \* clock units of one UTC day
    AccountCash, AccountBtc,   \* the account before the ledger is bound
    MaxTime,         \* bound of the model: the clock stops there
    MaxExternal      \* bound of the model: deposits made behind the ledger

ASSUME NoneAssumption == None \notin Ids /\ None \notin IPs

ASSUME DomainAssumption ==
    /\ Allowed \subseteq IPs
    /\ Prices \subseteq Nat \ {0}
    /\ Quantities \subseteq Nat \ {0}

ASSUME LimitAssumption ==
    /\ {Capital, OrderLimit, ExposureLimit, DailyLoss, CumulativeLoss,
        MaxTrades, Cooldown, Ttl, AccountCash, AccountBtc,
        MaxTime, MaxExternal} \subseteq Nat
    /\ SlotLen \in Nat \ {0}
    /\ DayLen \in Nat \ {0}

VARIABLES
    \* durable: live.db
    disk,       \* the live_state row
    killed,     \* system_state.killed
    journal,    \* exchange_submissions, by client order id
    \* the process that holds control.lock
    pc,         \* its next step; "idle" when nobody holds the lock
    op,         \* the operation it runs
    phase,      \* which check_release / preflight round the step belongs to
    mem,        \* LiveControl.state
    ord,        \* the proposal being submitted
    quote,      \* the ask of the last preflight
    before,     \* the address resume saw before its checks
    grant,      \* the id ProductionTransport may post once
    \* the exchange and the account
    ex,         \* what the exchange knows of each id
    fill,       \* what the execution moved
    funds,      \* balances of the account
    posts,      \* POSTs sent, by id
    now,        \* the clock
    \* history, read by properties only
    minted,     \* ids already given to a proposal
    lateStop,   \* where the last emergency stop of this operation landed
    evals,      \* slots the automatic runner evaluated, in order
    lossDays,   \* days on which a preflight saw the daily loss; -1: the total
    ext         \* cash moved behind the ledger since it was bound

process  == <<pc, op, phase, mem, ord, quote, before, grant>>
exchange == <<ex, fill, funds, posts>>
history  == <<minted, evals, lossDays, ext>>
vars == <<disk, killed, journal, process, exchange, now, history, lateStop>>

----------------------------------------------------------------------------
(* Data *)

Sides == {"BUY", "SELL"}

NoProposal == [id |-> None, side |-> "BUY", qty |-> 0, ask |-> 0,
               expires |-> 0, auto |-> FALSE]
NoRequest == [side |-> "NONE", qty |-> 0]
NoFill == [cash |-> 0, btc |-> 0, at |-> 0]

\* The row of a ledger nobody has used.  `status` is a label no guard reads,
\* `orders` always equals Len(trades): both are left out.  A trade carries its
\* id beside the timestamp the code stores, so that a fill booked twice shows.
FreshRow ==
    [cash |-> Capital, btc |-> 0, trades |-> <<>>, pending |-> None,
     proposal |-> NoProposal, loss |-> FALSE, cum |-> FALSE, day |-> -1,
     opening |-> 0, bound |-> FALSE, base |-> [cash |-> 0, btc |-> 0],
     approved |-> {}, armed |-> FALSE, lastSlot |-> -1]

Slot == now \div SlotLen
DayOf(t) == t \div DayLen
Today == DayOf(now)

Init ==
    /\ disk = FreshRow
    /\ killed = FALSE
    /\ journal = [i \in Ids |-> NoRequest]
    /\ pc = "idle" /\ op = "none" /\ phase = "none"
    /\ mem = FreshRow
    /\ ord = NoProposal /\ quote = 0 /\ before = None /\ grant = None
    /\ ex = [i \in Ids |-> "absent"]
    /\ fill = [i \in Ids |-> NoFill]
    /\ funds = [cash |-> AccountCash, btc |-> AccountBtc]
    /\ posts = [i \in Ids |-> 0]
    /\ now = 0
    /\ minted = {} /\ lateStop = "idle" /\ evals = <<>> /\ lossDays = {}
    /\ ext = 0

----------------------------------------------------------------------------
(* Control flow of the lock holder *)

\* The holder takes the lock and reads the row.
Begin(o, ph, first) ==
    /\ pc = "idle"
    /\ pc' = first /\ op' = o /\ phase' = ph
    /\ mem' = disk
    /\ UNCHANGED <<ord, quote, grant, lateStop>>

Continue(next) ==
    /\ pc' = next
    /\ UNCHANGED <<op, phase, ord, quote, before, grant, lateStop>>

\* The operation returns or raises to its caller: the copy is dropped.
Leave ==
    /\ pc' = "idle" /\ op' = "none" /\ phase' = "none"
    /\ mem' = disk'
    /\ ord' = NoProposal /\ quote' = 0 /\ before' = None /\ grant' = None
    /\ lateStop' = "idle"

\* An exception outside submit's own handler: only step's "run" catches it.
Raise ==
    IF op = "run" THEN Continue("halt") /\ mem' = mem ELSE Leave

\* An exception while submit is between its save and its return.
RaiseInFlight ==
    IF phase = "submit" THEN Continue("unresolved") /\ mem' = mem ELSE Raise

----------------------------------------------------------------------------
(* Money and limits *)

Equity(m, p) == m.cash + m.btc * p

\* preflight's account comparison.
Matches(m) ==
    /\ funds.btc = m.base.btc + m.btc
    /\ funds.cash = m.base.cash + m.cash - Capital

\* The first preflight binds the ledger to the account it finds.
Bound(m) == IF m.bound THEN m ELSE [m EXCEPT !.bound = TRUE, !.base = funds]

SlipObservedForgets(m, p) ==
    [m EXCEPT !.day = Today,
              !.opening = IF m.day = Today THEN @ ELSE Equity(m, p),
              !.loss = Equity(m, p) <= m.opening - DailyLoss,
              !.cum  = @ \/ Equity(m, p) <= Capital - CumulativeLoss]

\* A preflight at bid p: a new UTC day opens at the present equity and drops
\* the daily latch, and either loss sets its latch.
Observed(m, p) ==
    LET opened == IF m.day = Today THEN m
                  ELSE [m EXCEPT !.day = Today, !.opening = Equity(m, p),
                                 !.loss = FALSE]
    IN  [opened EXCEPT
            !.loss = @ \/ Equity(m, p) <= opened.opening - DailyLoss,
            !.cum  = @ \/ Equity(m, p) <= Capital - CumulativeLoss]

Losses(m) == (IF m.loss THEN {m.day} ELSE {}) \cup (IF m.cum THEN {-1} ELSE {})

SlipUnderDailyLimit(m) == TRUE

UnderDailyLimit(m) ==
    Cardinality({k \in DOMAIN m.trades : DayOf(m.trades[k].at) = Today})
        < MaxTrades

SlipCooledDown(m) == TRUE

CooledDown(m) ==
    m.trades # <<>> => now - m.trades[Len(m.trades)].at >= Cooldown

Limits(m, side, qty, ask) ==
    /\ qty * ask <= OrderLimit
    /\ side = "BUY" =>
        /\ ~m.loss /\ ~m.cum
        /\ 1003 * qty * ask <= 1000 * m.cash
        /\ (m.btc + qty) * ask <= ExposureLimit
    /\ side = "SELL" => qty <= m.btc
    /\ UnderDailyLimit(m)
    /\ CooledDown(m)

\* submit's drift bound: at most 0.3 % from the quote the proposal was made at.
PriceStable(was, is) ==
    /\ 1000 * (is - was) <= 3 * was
    /\ 1000 * (was - is) <= 3 * was

WithoutProposal(m) == [m EXCEPT !.proposal = NoProposal]

Disarmed(m) == [m EXCEPT !.armed = FALSE]

SlipIntentRow(m) == [m EXCEPT !.pending = m.proposal.id]

IntentRow(m) == [m EXCEPT !.pending = m.proposal.id, !.proposal = NoProposal]

\* apply_fill: fees are part of the amounts moved.
Booked(m, i) ==
    [m EXCEPT !.cash = @ + fill[i].cash, !.btc = @ + fill[i].btc,
              !.pending = None,
              !.trades = Append(@, [id |-> i, at |-> fill[i].at])]

SlipNotNegative(m) == TRUE

NotNegative(m) == m.cash >= 0 /\ m.btc >= 0

----------------------------------------------------------------------------
(* Taking the lock: one action per operation of dispatch and step.  A      *)
(* request refused before it changes anything is not a step.               *)

Unchanged == UNCHANGED <<disk, killed, journal, exchange, now, history>>

Start(o, ph, first) == Begin(o, ph, first) /\ before' = before /\ Unchanged

BeginIpCheck == Start("ip-check", "check", "ip")

BeginPreflight == Start("preflight", "preflight", "flight")

BeginPrepare ==
    /\ ~disk.armed
    /\ Start("prepare", "prepare", "ip")

BeginApprove ==
    /\ disk.proposal.id # None
    /\ ~disk.armed
    /\ Start("approve", "submit", "ip")

SlipBeginReconcile ==
    /\ disk.pending # None
    /\ pc = "idle" /\ pc' = "recheck" /\ op' = "approve" /\ phase' = "submit"
    /\ mem' = disk
    /\ ord' = [NoProposal EXCEPT !.id = disk.pending, !.qty = 1]
    /\ grant' = disk.pending
    /\ UNCHANGED <<quote, lateStop, before>> /\ Unchanged

BeginReconcile ==
    /\ disk.pending # None
    /\ Start("reconcile", "reconcile", "query")

SlipSettled == TRUE

\* resume refuses while an order is unresolved.
Settled == disk.pending = None

BeginResume ==
    /\ Settled
    /\ Begin("resume", "resume", "flight")
    /\ before' \in IPs
    /\ Unchanged

BeginArm == Start("arm", "arm", "ip")

BeginDisarm == Start("disarm", "disarm", "disarm")

\* cycle: not armed raises, a pending order is only ever queried.
BeginRun ==
    /\ Start("run", "cycle", IF ~disk.armed THEN "halt"
                             ELSE IF disk.pending # None THEN "park" ELSE "ip")

----------------------------------------------------------------------------
(* check_ip, check_release, preflight *)

\* The address is approved and the operator's list is the approved one.
IpVerified ==
    /\ pc = "ip"
    /\ mem.approved # {}
    /\ Allowed \in {{}, mem.approved}
    /\ disk' = mem
    /\ IF op = "ip-check" THEN Leave ELSE Continue("release") /\ mem' = mem
    /\ UNCHANGED <<killed, journal, exchange, now, history>>

\* The service is unavailable or the address is not approved: stop first.
IpRefused ==
    /\ pc \in {"ip", "accept"}
    /\ killed' = TRUE
    /\ mem' = WithoutProposal(mem)
    /\ Continue("ipsave")
    /\ UNCHANGED <<disk, journal, exchange, now, history>>

IpRefusedSave ==
    /\ pc = "ipsave"
    /\ disk' = mem
    /\ Raise
    /\ UNCHANGED <<killed, journal, exchange, now, history>>

\* submit reads the proposal's expiry here; nobody else has one at hand.
Released ==
    /\ pc = "release"
    /\ ~killed
    /\ mem.pending = None
    /\ phase = "submit" => now <= mem.proposal.expires
    /\ Continue("flight") /\ mem' = mem
    /\ Unchanged

AfterFlight ==
    [cycle |-> "slot", prepare |-> "offer", submit |-> "intend",
     arm |-> "arm", resume |-> "accept", preflight |-> "idle"]

Preflight(p) ==
    /\ pc = "flight"
    /\ mem.bound \/ funds.cash >= Capital
    /\ Matches(Bound(mem))
    /\ disk' = Observed(Bound(mem), p)
    /\ lossDays' = lossDays \cup Losses(disk')
    /\ ext' = IF mem.bound THEN ext ELSE 0
    /\ IF op = "preflight" THEN Leave
       ELSE /\ pc' = AfterFlight[phase] /\ quote' = p /\ mem' = disk'
            /\ UNCHANGED <<op, phase, ord, before, grant, lateStop>>
    /\ UNCHANGED <<killed, journal, exchange, now, minted, evals>>

\* Everything these steps may raise before they save anything.
Refused ==
    /\ pc \in {"release", "flight", "decide", "offer", "gate", "intend", "arm"}
    /\ Unchanged
    /\ Raise

----------------------------------------------------------------------------
(* resume, arm, disarm *)

\* check_ip(accept=True) records what it sees and saves it at once.
AcceptIp(ip) ==
    /\ pc = "accept"
    /\ Allowed = {} \/ ip \in Allowed
    /\ mem' = [mem EXCEPT !.approved = IF Allowed = {} THEN {ip} ELSE Allowed]
    /\ disk' = mem'
    /\ Continue("compare")
    /\ UNCHANGED <<killed, journal, exchange, now, history>>

AddressMoved ==
    /\ pc = "compare"
    /\ before \notin mem.approved
    /\ killed' = TRUE
    /\ UNCHANGED disk
    /\ Leave
    /\ UNCHANGED <<journal, exchange, now, history>>

\* switch.resume() is committed before the row that drops the proposal.
Resume ==
    /\ pc = "compare"
    /\ before \in mem.approved
    /\ killed' = FALSE
    /\ mem' = WithoutProposal(mem)
    /\ Continue("save")
    /\ UNCHANGED <<disk, journal, exchange, now, history>>

SlipMayArm(m) == TRUE

MayArm(m) == m.proposal.id = None

SlipArmedRow(m) == [m EXCEPT !.armed = TRUE, !.lastSlot = -1]

\* A new authorisation keeps the slot the previous one had reached.
ArmedRow(m) == [m EXCEPT !.armed = TRUE]

Arm ==
    /\ pc = "arm"
    /\ MayArm(mem)
    /\ disk' = ArmedRow(mem)
    /\ Leave
    /\ UNCHANGED <<killed, journal, exchange, now, history>>

Disarm ==
    /\ pc = "disarm"
    /\ killed' = TRUE
    /\ mem' = Disarmed(WithoutProposal(mem))
    /\ Continue("save")
    /\ UNCHANGED <<disk, journal, exchange, now, history>>

\* The last save of resume, disarm and the runner's handler.
SaveAndLeave ==
    /\ pc = "save"
    /\ disk' = mem
    /\ Leave
    /\ UNCHANGED <<killed, journal, exchange, now, history>>

----------------------------------------------------------------------------
(* The automatic cycle and its handler *)

\* A slot is claimed, durably, before it is evaluated.
ClaimSlot ==
    /\ pc = "slot"
    /\ mem.lastSlot # Slot
    /\ mem' = [mem EXCEPT !.lastSlot = Slot]
    /\ disk' = mem'
    /\ evals' = Append(evals, Slot)
    /\ Continue("decide")
    /\ UNCHANGED <<killed, journal, exchange, now, minted, lossDays, ext>>

SlotTaken ==
    /\ pc = "slot"
    /\ mem.lastSlot = Slot
    /\ UNCHANGED disk
    /\ Leave
    /\ UNCHANGED <<killed, journal, exchange, now, history>>

\* HOLD, the cost gate and a latched loss end the cycle without an order; so
\* do the four limits the runner takes for ordinary when it prepares one.
Wait ==
    /\ \/ pc = "decide"
       \/ pc = "offer" /\ op = "run"
    /\ UNCHANGED disk
    /\ Leave
    /\ UNCHANGED <<killed, journal, exchange, now, history>>

Act ==
    /\ pc = "decide"
    /\ pc' = "ip" /\ phase' = "prepare" /\ mem' = mem
    /\ UNCHANGED <<op, ord, quote, before, grant, lateStop>>
    /\ Unchanged

SlipFreshIds == Ids

\* uuid4
FreshIds == Ids \ minted

\* prepare: a proposal within the limits, good for Ttl.
Offer(i, side, qty) ==
    /\ pc = "offer"
    /\ i \in FreshIds
    /\ Limits(mem, side, qty, quote)
    /\ disk' = [mem EXCEPT !.proposal =
                   [id |-> i, side |-> side, qty |-> qty, ask |-> quote,
                    expires |-> now + Ttl, auto |-> op = "run"]]
    /\ minted' = minted \cup {i}
    /\ IF op = "run" THEN Continue("gate") /\ mem' = disk' ELSE Leave
    /\ UNCHANGED <<killed, journal, exchange, now, evals, lossDays, ext>>

\* The quote still supports the decision: submit starts its own checks.
GatePassed ==
    /\ pc = "gate"
    /\ pc' = "ip" /\ phase' = "submit" /\ mem' = mem
    /\ UNCHANGED <<op, ord, quote, before, grant, lateStop>>
    /\ Unchanged

GateClosed ==
    /\ pc = "gate"
    /\ mem.proposal.side = "BUY"
    /\ disk' = WithoutProposal(mem)
    /\ Leave
    /\ UNCHANGED <<killed, journal, exchange, now, history>>

\* step's handler for any exception of a cycle.
Halt ==
    /\ pc = "halt"
    /\ killed' = TRUE
    /\ mem' = Disarmed(WithoutProposal(mem))
    /\ Continue("save")
    /\ UNCHANGED <<disk, journal, exchange, now, history>>

\* A cycle that finds a pending order stops, disarms and only queries it.
Park ==
    /\ pc = "park"
    /\ killed' = TRUE
    /\ mem' = Disarmed(mem)
    /\ Continue("parksave")
    /\ UNCHANGED <<disk, journal, exchange, now, history>>

ParkSave ==
    /\ pc = "parksave"
    /\ disk' = mem
    /\ Continue("query") /\ mem' = mem
    /\ UNCHANGED <<killed, journal, exchange, now, history>>

----------------------------------------------------------------------------
(* submit and place_order *)

\* The last checks of submit.
Approvable ==
    /\ pc = "intend"
    /\ ~killed
    /\ now <= mem.proposal.expires
    /\ PriceStable(mem.proposal.ask, quote)
    /\ Limits(mem, mem.proposal.side, mem.proposal.qty, quote)

SlipSaveIntent == disk' = disk

SaveIntent == disk' = mem'

\* The intent is durable before the grant exists.
Intend ==
    /\ Approvable
    /\ mem' = IntentRow(mem)
    /\ SaveIntent
    /\ ord' = mem.proposal
    /\ grant' = mem.proposal.id
    /\ pc' = "place"
    /\ UNCHANGED <<op, phase, quote, before, lateStop>>
    /\ UNCHANGED <<killed, journal, exchange, now, history>>

\* The save raises outside submit's try: the runner's handler, and only it,
\* will still write the copy that names the order.
IntendUnsaved ==
    /\ Approvable
    /\ UNCHANGED disk
    /\ IF op = "run" THEN Continue("halt") /\ mem' = IntentRow(mem) ELSE Leave
    /\ UNCHANGED <<killed, journal, exchange, now, history>>

Place ==
    /\ pc = "place"
    /\ Continue(IF killed THEN "unresolved" ELSE "claim")
    /\ mem' = mem
    /\ Unchanged

\* journal.claim: an id already there is queried, never sent.
Claim ==
    /\ pc = "claim"
    /\ journal' = IF journal[ord.id] # NoRequest THEN journal
                  ELSE [journal EXCEPT ![ord.id] = [side |-> ord.side, qty |-> ord.qty]]
    /\ Continue(IF journal[ord.id] # NoRequest THEN "settle" ELSE "recheck")
    /\ mem' = mem
    /\ UNCHANGED <<disk, killed, exchange, now, history>>

SlipStopSeen == FALSE

\* _request's own look at the switch, after the clock was synchronised.
StopSeen == killed

Recheck ==
    /\ pc = "recheck"
    /\ Continue(IF StopSeen THEN "unresolved" ELSE "send")
    /\ mem' = mem
    /\ Unchanged

\* Rate limit still in force, or the clock could not be synchronised.
RequestRefused ==
    /\ pc = "recheck"
    /\ Continue("unresolved")
    /\ mem' = mem
    /\ Unchanged

\* The transport takes the grant and the POST leaves the process.
Send ==
    /\ pc = "send"
    /\ IF grant = ord.id
       THEN /\ posts' = [posts EXCEPT ![ord.id] = @ + 1]
            /\ ex' = [ex EXCEPT ![ord.id] = "transit"]
            /\ pc' = "await"
       ELSE /\ UNCHANGED <<posts, ex>>
            /\ pc' = "unresolved"
    /\ grant' = None
    /\ mem' = mem
    /\ UNCHANGED <<op, phase, ord, quote, before, lateStop>>
    /\ UNCHANGED <<disk, killed, journal, fill, funds, now, history>>

----------------------------------------------------------------------------
(* The answer and the two reconciliations *)

MayTrip == killed' \in {killed, TRUE}

\* An order comes back.
Answered ==
    /\ pc = "await"
    /\ ex[ord.id] \in {"filled", "odd"}
    /\ Continue("settle") /\ mem' = mem
    /\ Unchanged

\* Rejection, rate limit or authentication failure (which trips the switch).
AnsweredError ==
    /\ pc = "await"
    /\ ex[ord.id] = "refused"
    /\ MayTrip
    /\ Continue("unresolved") /\ mem' = mem
    /\ UNCHANGED <<disk, journal, exchange, now, history>>

\* Timeout, 5xx, or a body nobody can read (which trips): execution unknown.
NoAnswer ==
    /\ pc = "await"
    /\ MayTrip
    /\ Continue("settle") /\ mem' = mem
    /\ UNCHANGED <<disk, journal, exchange, now, history>>

\* place_order's query finds the order; fills still missing trip the switch.
SettleFound ==
    /\ pc = "settle"
    /\ ex[ord.id] \in {"filled", "odd"}
    /\ MayTrip
    /\ Continue("query") /\ mem' = mem
    /\ UNCHANGED <<disk, journal, exchange, now, history>>

\* It fails, or the exchange does not know the order (yet).
SettleUnknown ==
    /\ pc = "settle"
    /\ killed' = TRUE
    /\ Continue("unresolved") /\ mem' = mem
    /\ UNCHANGED <<disk, journal, exchange, now, history>>

\* reconcile: only a complete, supported, affordable fill goes on.
QueryFound ==
    /\ pc = "query"
    /\ journal[mem.pending] # NoRequest
    /\ ex[mem.pending] = "filled"
    /\ NotNegative(Booked(mem, mem.pending))
    /\ Continue("verify") /\ mem' = mem
    /\ Unchanged

\* The candidate must explain the account.
VerifyFound ==
    /\ pc = "verify"
    /\ Matches(Booked(mem, mem.pending))
    /\ mem' = Booked(mem, mem.pending)
    /\ Continue("book")
    /\ Unchanged

\* Unknown, incomplete or unsupported, a mismatch, or a query that failed.
ReconcileRaises ==
    /\ pc \in {"query", "verify"}
    /\ MayTrip
    /\ UNCHANGED disk
    /\ RaiseInFlight
    /\ UNCHANGED <<journal, exchange, now, history>>

Book ==
    /\ pc = "book"
    /\ disk' = mem
    /\ Leave
    /\ UNCHANGED <<killed, journal, exchange, now, history>>

\* The save of FILL raises with the candidate already in self.state.
BookUnsaved ==
    /\ pc = "book"
    /\ UNCHANGED disk
    /\ RaiseInFlight
    /\ UNCHANGED <<killed, journal, exchange, now, history>>

\* submit's handler.
Unresolved ==
    /\ pc = "unresolved"
    /\ killed' = TRUE
    /\ Continue("unresolvedsave") /\ mem' = mem
    /\ UNCHANGED <<disk, journal, exchange, now, history>>

SlipUnresolvedRow == [mem EXCEPT !.pending = None]

\* Only the label of the row changes: the order stays pending.
UnresolvedRow == mem

UnresolvedSave ==
    /\ pc = "unresolvedsave"
    /\ disk' = UnresolvedRow
    /\ Raise
    /\ UNCHANGED <<killed, journal, exchange, now, history>>

----------------------------------------------------------------------------
(* What moves beside the lock holder *)

\* operate's "stop" takes no lock and touches nothing but the switch.
EmergencyStop ==
    /\ killed' = TRUE
    /\ lateStop' = IF pc \in {"idle", "send"} THEN pc ELSE "busy"
    /\ UNCHANGED <<disk, journal, process, exchange, now, history>>

Crash ==
    /\ pc # "idle"
    /\ UNCHANGED disk
    /\ Leave
    /\ UNCHANGED <<killed, journal, exchange, now, history>>

Tick ==
    /\ now < MaxTime
    /\ now' = now + 1
    /\ UNCHANGED <<disk, killed, journal, process, exchange, history, lateStop>>

Moved(side, qty, p) ==
    IF side = "BUY" THEN [cash |-> -(qty * p), btc |-> qty, at |-> now]
    ELSE [cash |-> qty * p, btc |-> -qty, at |-> now]

\* The exchange executes qty of a request in transit.
Execute(i, qty, p, outcome) ==
    LET f == Moved(journal[i].side, qty, p)
    IN  /\ ex[i] = "transit"
        /\ funds.cash + f.cash >= 0 /\ funds.btc + f.btc >= 0
        /\ ex' = [ex EXCEPT ![i] = outcome]
        /\ fill' = [fill EXCEPT ![i] = f]
        /\ funds' = [cash |-> funds.cash + f.cash, btc |-> funds.btc + f.btc]
        /\ UNCHANGED <<disk, killed, journal, process, posts, now, history,
                       lateStop>>

ExecuteWhole(i, p) == Execute(i, journal[i].qty, p, "filled")

\* Part of it only, or a fee in an asset the ledger does not keep.
ExecuteOdd(i, p) ==
    \E qty \in 0 .. journal[i].qty : Execute(i, qty, p, "odd")

\* It is rejected, or never gets there.
Refuse(i) ==
    /\ ex[i] = "transit"
    /\ ex' = [ex EXCEPT ![i] = "refused"]
    /\ UNCHANGED <<disk, killed, journal, process, fill, funds, posts, now,
                   history, lateStop>>

\* The owner deposits behind the ledger.
Deposit ==
    /\ ext < MaxExternal
    /\ ext' = ext + 1
    /\ funds' = [funds EXCEPT !.cash = @ + 1]
    /\ UNCHANGED <<disk, killed, journal, process, ex, fill, posts, now, minted,
                   evals, lossDays, lateStop>>

Dispatch ==
    \/ BeginIpCheck \/ BeginPreflight \/ BeginPrepare \/ BeginApprove
    \/ BeginReconcile \/ BeginResume \/ BeginArm \/ BeginDisarm \/ BeginRun

Checks ==
    \/ IpVerified \/ IpRefused \/ IpRefusedSave \/ Released \/ Refused
    \/ \E p \in Prices : Preflight(p)

Control ==
    \/ \E ip \in IPs : AcceptIp(ip)
    \/ AddressMoved \/ Resume \/ Arm \/ Disarm \/ SaveAndLeave

Cycle ==
    \/ ClaimSlot \/ SlotTaken \/ Wait \/ Act
    \/ \E i \in Ids, side \in Sides, qty \in Quantities : Offer(i, side, qty)
    \/ GatePassed \/ GateClosed \/ Halt \/ Park \/ ParkSave

Submit ==
    \/ Intend \/ IntendUnsaved \/ Place \/ Claim \/ Recheck \/ RequestRefused
    \/ Send \/ Answered \/ AnsweredError \/ NoAnswer

Reconcile ==
    \/ SettleFound \/ SettleUnknown \/ QueryFound \/ VerifyFound
    \/ ReconcileRaises \/ Book \/ BookUnsaved \/ Unresolved \/ UnresolvedSave

Environment ==
    \/ EmergencyStop \/ Crash \/ Tick \/ Deposit
    \/ \E i \in Ids, p \in Prices : ExecuteWhole(i, p) \/ ExecuteOdd(i, p)
    \/ \E i \in Ids : Refuse(i)

Next == Dispatch \/ Checks \/ Control \/ Cycle \/ Submit \/ Reconcile \/ Environment

Spec == Init /\ [][Next]_vars

----------------------------------------------------------------------------
(* Properties *)

Proposals == [id : Ids \cup {None}, side : Sides, qty : Nat, ask : Nat,
              expires : Nat, auto : BOOLEAN]
Money == [cash : Int, btc : Int]
Fills == [cash : Int, btc : Int, at : Nat]
Trades == [id : Ids, at : Nat]
Rows == [cash : Nat, btc : Nat, trades : Seq(Trades), pending : Ids \cup {None},
         proposal : Proposals, loss : BOOLEAN, cum : BOOLEAN, day : Int,
         opening : Int, bound : BOOLEAN, base : Money, approved : SUBSET IPs,
         armed : BOOLEAN, lastSlot : Int]

Operations == {"none", "ip-check", "preflight", "prepare", "approve",
               "reconcile", "resume", "arm", "disarm", "run"}
Phases == {"none", "check", "preflight", "prepare", "submit", "reconcile",
           "resume", "arm", "disarm", "cycle"}
Steps == {"idle", "ip", "ipsave", "release", "flight", "accept", "compare",
          "arm", "disarm", "save", "slot", "decide", "offer", "gate", "halt",
          "park", "parksave", "intend", "place", "claim", "recheck", "send",
          "await", "settle", "query", "verify", "book", "unresolved",
          "unresolvedsave"}

\* Types; cash and BTC of the ledger never go below zero, whatever the price an
\* order was executed at (apply_fill refuses NEGATIVE_STRATEGY_BALANCE).
TypeOK ==
    /\ disk \in Rows /\ mem \in Rows
    /\ killed \in BOOLEAN
    /\ journal \in [Ids -> [side : Sides \cup {"NONE"}, qty : Nat]]
    /\ pc \in Steps /\ op \in Operations /\ phase \in Phases
    /\ ord \in Proposals /\ quote \in Nat
    /\ before \in IPs \cup {None} /\ grant \in Ids \cup {None}
    /\ ex \in [Ids -> {"absent", "transit", "filled", "odd", "refused"}]
    /\ fill \in [Ids -> Fills]
    /\ funds \in Money
    /\ posts \in [Ids -> Nat]
    /\ now \in Nat
    /\ minted \subseteq Ids /\ lateStop \in {"idle", "send", "busy"}
    /\ evals \in Seq(Int) /\ lossDays \subseteq Int /\ ext \in Nat

BookedIds(m) == {m.trades[k].id : k \in DOMAIN m.trades}

\* An id is posted at most once, and what was posted is written down: the
\* durable row names it as pending until its fill is booked, and never both,
\* across crashes, lost replies, failed saves and reconciliations.
NoOrphanOrder ==
    \A i \in Ids : posts[i] > 0 =>
        /\ posts[i] = 1
        /\ journal[i] # NoRequest
        /\ (i = disk.pending) # (i \in BookedIds(disk))

\* The account is the ledger: at every moment the balances are the bound base
\* plus the ledger's change, the owner's deposits, and the fill of the one
\* order still pending.
Books ==
    LET open == IF disk.pending = None THEN NoFill ELSE fill[disk.pending]
    IN  disk.bound =>
        /\ funds.cash = disk.base.cash + disk.cash - Capital + open.cash + ext
        /\ funds.btc = disk.base.btc + disk.btc + open.btc

\* A row with a pending order offers no proposal, so nothing can be approved
\* while an order is unresolved.
PendingExcludesProposal == disk.pending # None => disk.proposal.id = None

\* A proposal of the automatic runner is never left where a person could
\* approve it, nor a person's where the runner is armed.
ProposalMatchesMode ==
    disk.proposal.id # None => disk.proposal.auto = disk.armed

\* Once the stop is set no POST leaves, but for the one that was already past
\* its last look at the switch when the stop landed.
StopHaltsPosting == [][posts' # posts /\ killed => lateStop = "send"]_vars

\* A five-minute slot is evaluated once, whatever is restarted, disarmed or
\* armed again within it.
OneEvaluationPerSlot ==
    \A j, k \in DOMAIN evals : evals[j] = evals[k] => j = k

\* No UTC day holds more executions than the limit, although the limit is
\* checked at approval and the day may turn before the execution.
DailyTradeLimit ==
    \A d \in 0 .. DayOf(MaxTime) :
        Cardinality({k \in DOMAIN disk.trades : DayOf(disk.trades[k].at) = d})
            <= MaxTrades

\* Executions are a cooldown apart, across days, restarts and both modes.
Spaced ==
    \A k \in 2 .. Len(disk.trades) :
        disk.trades[k].at - disk.trades[k-1].at >= Cooldown

\* No buy is released on a day whose loss was ever seen, nor after the total
\* loss was; restarts, resumes and re-arming change nothing about it.
NoBuyAfterLoss ==
    [][grant' \notin {None, grant} /\ ord'.side = "BUY" =>
          lossDays \cap {disk.day, -1} = {}]_vars

\* The stop is lifted only when every order ever sent is booked.
ResumeOnlyWhenSettled ==
    [][killed /\ ~killed' => \A i \in Ids : posts[i] > 0 => i \in BookedIds(disk)]_vars

\* docs/live-control.md:27: the stop button sets a persistent stop without
\* waiting for the request in progress, so a stop that lands while a resume is
\* under way should survive that resume.
LateStopSurvivesResume == [][killed /\ ~killed' => lateStop = "idle"]_vars

\* docs/live-control.md:47-49: an address is recorded as approved only when the
\* address seen before the account checks and the one after agree.
ApprovedOnlyIfUnmoved ==
    [][disk'.approved # disk.approved => before \in disk'.approved]_vars

----------------------------------------------------------------------------
(* The inductive strengthening of NoOrphanOrder, Books and                 *)
(* PendingExcludesProposal                                                 *)

\* What the journal, the exchange and the row say of one id.
OrderInv(i) ==
    /\ posts[i] \in {0, 1}
    /\ posts[i] = 0 <=> ex[i] = "absent"
    /\ posts[i] > 0 => journal[i] # NoRequest
    /\ ex[i] \notin {"filled", "odd"} => fill[i] = NoFill
    /\ journal[i] # NoRequest => i = disk.pending \/ i \in BookedIds(disk)
    /\ journal[i] # NoRequest => i \in minted

RowInv ==
    /\ disk.pending # None =>
        /\ disk.pending \in minted
        /\ disk.pending \notin BookedIds(disk)
        /\ disk.proposal.id = None
        /\ disk.bound
    /\ \A i \in BookedIds(disk) : ex[i] = "filled"
    /\ disk.proposal.id # None =>
        /\ disk.bound
        /\ disk.proposal.id \in minted
        /\ journal[disk.proposal.id] = NoRequest
    /\ ~disk.bound => disk.cash = Capital /\ disk.btc = 0 /\ disk.trades = <<>>

SameLedger(m, n) ==
    /\ m.cash = n.cash /\ m.btc = n.btc
    /\ m.trades = n.trades /\ m.pending = n.pending
    /\ m.bound = n.bound /\ m.base = n.base

\* The copy holds the row's ledger ...
Same == SameLedger(mem, disk) /\ mem.proposal \in {disk.proposal, NoProposal}

\* ... or that ledger with the pending fill booked ...
Candidate ==
    /\ disk.pending # None
    /\ ex[disk.pending] = "filled"
    /\ SameLedger(mem, Booked(disk, disk.pending))
    /\ mem.proposal.id = None

\* ... or an order that could not be saved.
Unsaved ==
    /\ disk.pending = None /\ disk.bound
    /\ mem.pending \in minted
    /\ journal[mem.pending] = NoRequest
    /\ SameLedger(mem, [disk EXCEPT !.pending = mem.pending])
    /\ mem.proposal.id = None

CopyInv ==
    /\ pc \notin {"book", "unresolved", "unresolvedsave", "halt", "save"} => Same
    /\ pc = "book" => Candidate
    /\ pc \in {"unresolved", "unresolvedsave"} => Same \/ Candidate
    /\ pc \in {"halt", "save"} => Same \/ Candidate \/ Unsaved

PhasesOf ==
    [none |-> {"none"}, prepare |-> {"prepare"}, approve |-> {"submit"},
     preflight |-> {"preflight"}, reconcile |-> {"reconcile"},
     resume |-> {"resume"}, arm |-> {"arm"}, disarm |-> {"disarm"},
     run |-> {"cycle", "prepare", "submit"}]

\* Where the holder may be, and what it has established by then.
FlowInv ==
    /\ IF op = "ip-check" THEN phase = "check" ELSE phase \in PhasesOf[op]
    /\ pc = "ip" => phase \in {"check", "prepare", "submit", "arm", "cycle"}
    /\ pc = "release" => phase \in {"prepare", "submit", "arm", "cycle"}
    /\ pc = "flight" => phase \in DOMAIN AfterFlight
    /\ pc \in {"slot", "decide", "gate"} => op = "run"
    /\ pc \in {"ip", "release", "flight"} /\ phase = "submit" => mem.proposal.id # None
    /\ pc \in {"gate", "intend"} => mem.proposal.id # None
    /\ pc = "flight" /\ phase # "preflight" => disk.pending = None
    /\ pc \in {"offer", "gate", "slot", "decide", "intend", "arm", "accept",
               "compare"} => disk.pending = None
    /\ pc \in {"slot", "decide", "offer", "gate", "intend"} => disk.bound
    /\ pc \in {"place", "claim", "recheck", "send", "await", "settle"} =>
        ord.id # None /\ ord.id = disk.pending /\ ord.side \in Sides
    /\ pc \in {"recheck", "send"} =>
        posts[ord.id] = 0 /\ journal[ord.id] # NoRequest
    /\ pc \in {"place", "claim"} => posts[ord.id] = 0
    /\ pc \in {"query", "verify", "parksave", "park"} => disk.pending # None
    /\ pc = "verify" =>
        /\ ex[disk.pending] = "filled"
        /\ NotNegative(Booked(disk, disk.pending))

IInv ==
    /\ TypeOK
    /\ \A i \in Ids : OrderInv(i)
    /\ RowInv
    /\ CopyInv
    /\ FlowInv
    /\ Books

----------------------------------------------------------------------------
(* The inductive strengthening of the limits and of the runner's rules     *)

SameMarks(m, n) ==
    m.loss = n.loss /\ m.cum = n.cum /\ m.day = n.day /\ m.lastSlot = n.lastSlot

\* Slots are claimed in the row, in rising order, and never ahead of the clock.
SlotInv ==
    /\ OneEvaluationPerSlot
    /\ \A k \in DOMAIN evals : evals[k] <= disk.lastSlot
    /\ disk.lastSlot <= Slot

\* The row still latches every loss that was seen on its day, or ever.
LossInv ==
    /\ disk.day <= Today
    /\ \A d \in lossDays : d <= disk.day
    /\ -1 \in lossDays => disk.cum
    /\ disk.day \in lossDays \ {-1} => disk.loss

\* The operator's proposals are made on a disarmed row, the runner's on an armed
\* one, and no copy carries a proposal into the other mode.
ModeInv ==
    /\ ProposalMatchesMode
    /\ pc \notin {"save", "parksave"} => mem.armed = disk.armed
    /\ pc = "save" => mem.proposal.id = None
    /\ pc = "offer" => op \in {"prepare", "run"}
    /\ pc \in {"park", "parksave"} => op = "run"
    /\ op = "prepare" => ~disk.armed
    /\ op = "run" /\ pc \in {"ip", "release", "flight", "slot", "decide", "offer",
                             "gate"} => disk.armed

OnDay(trades, d) == {k \in DOMAIN trades : DayOf(trades[k].at) = d}

\* An execution at t would respect the number and the distance of executions.
RoomAt(t) ==
    /\ Cardinality(OnDay(disk.trades, DayOf(t))) < MaxTrades
    /\ disk.trades # <<>> => t - disk.trades[Len(disk.trades)].at >= Cooldown

\* When an order was executed, or could be at the earliest.
Due(i) == IF ex[i] \in {"filled", "odd"} THEN fill[i].at ELSE now

\* There is room for the order the row or the copy names, whenever it executes.
TradeInv ==
    /\ Spaced
    /\ \A k \in DOMAIN disk.trades :
        /\ disk.trades[k].at <= now
        /\ Cardinality(OnDay(disk.trades, DayOf(disk.trades[k].at))) <= MaxTrades
    /\ \A i \in {disk.pending, mem.pending} \ {None} : Due(i) <= now /\ RoomAt(Due(i))

RulesInv == SameMarks(mem, disk) /\ SlotInv /\ LossInv /\ ModeInv /\ TradeInv

Inductive == IInv /\ RulesInv

=============================================================================
