----------------------------- MODULE Acceptance -----------------------------
(***************************************************************************)
(* The testnet acceptance command (testnet_acceptance.py): one purchase    *)
(* and one sale, each sent at most once however often the command is       *)
(* repeated, and the account compared before and after; with its stop and  *)
(* with the resumption after an authentication failure.                    *)
(*                                                                         *)
(* Execution and resumption hold worker.lock, so one of them runs at a     *)
(* time; the stop takes no lock.  Everything either of them learns comes   *)
(* through Adapter, request by request.  Each start is a new process with  *)
(* a new adapter, and may die between any two steps.                       *)
(*                                                                         *)
(* A client id is a hash of the run id and the side: here, the pair.       *)
(***************************************************************************)
EXTENDS Adapter, FiniteSets

CONSTANTS
    Runs, None,
    Prices,       \* of a lot, in quotes and executions
    Spend,        \* what a purchase is meant to cost, in USDT
    Reserve,      \* USDT without which nothing is bought
    Step,         \* lots an order is a multiple of
    Fees,         \* what a purchase may cost in BTC, a sale in USDT
    AccountUsdt, AccountBtc,
    MaxExternal   \* bound of the model: movements by others

ASSUME AcceptanceAssumption ==
    /\ None \notin Runs
    /\ Prices \subseteq Nat \ {0} /\ Step \in Nat \ {0} /\ Fees \subseteq Nat
    /\ {Spend, Reserve, AccountUsdt, AccountBtc, MaxExternal} \subseteq Nat

VARIABLES
    saved,      \* acceptance_runs: a row for each run
    journal,    \* exchange_submissions: the quantity claimed, 0 for none
    pc, run, leg,
    state,      \* the process's copy of the row
    price, qty, \* the quote, and the size decided
    todo,       \* submissions a resumption has yet to look up
    ex, fill, funds, posts,   \* the exchange and the account
    external    \* movements by others so far

durable == <<saved, journal>>
locals == <<run, leg, state, price, qty, todo>>
exchange == <<ex, fill, funds, posts>>
vars == <<frames, at, timers, armed, stop, durable, pc, locals, exchange, external>>

Sides == {"BUY", "SELL"}
Ids == Runs \X Sides
Id == <<run, leg>>

KindOf == [open |-> "open", before |-> "account", quote |-> "market",
           free |-> "account", post |-> "post",
           order1 |-> "order", fills1 |-> "fills",
           order2 |-> "order", fills2 |-> "fills", after |-> "account",
           raccount |-> "account", rorder |-> "order", rfills |-> "fills"]

Calls == DOMAIN KindOf
Reads == {"open", "before", "quote", "free", "after"}
Queries == {"order1", "fills1", "order2", "fills2"}

NoRow == [status |-> "NONE", before |-> None, after |-> None]
NoFill == [qty |-> 0, quote |-> 0, fee |-> 0]
Executed == {"filled", "partial"}

Init ==
    /\ frames = <<>> /\ at = "idle" /\ armed = FALSE
    /\ age = TooOld /\ quiet = 0 /\ nap = 0
    /\ killed = FALSE /\ reason = "none" /\ origin = "none"
    /\ saved = [r \in Runs |-> NoRow]
    /\ journal = [i \in Ids |-> 0]
    /\ pc = "idle" /\ run = None /\ leg = "BUY" /\ state = NoRow
    /\ price = 0 /\ qty = 0 /\ todo = {}
    /\ ex = [i \in Ids |-> "absent"] /\ fill = [i \in Ids |-> NoFill]
    /\ funds = [usdt |-> AccountUsdt, btc |-> AccountBtc]
    /\ posts = [i \in Ids |-> 0]
    /\ external = 0

----------------------------------------------------------------------------
(* Amounts *)

\* market_quantity rounds down to the step.
Rounded(n) == (n \div Step) * Step

\* What an execution moves on the account.
Effect(i) ==
    LET f == fill[i]
    IN  IF i[2] = "BUY" THEN [btc |-> f.qty - f.fee, usdt |-> -f.quote]
        ELSE [btc |-> -f.qty, usdt |-> f.quote - f.fee]

SlipSize(available) ==
    Rounded(IF leg = "BUY" THEN Spend \div price ELSE available.btc)

\* A sale sells what the purchase of the same run has left, and is owned.
Size(available) ==
    Rounded(IF leg = "BUY" THEN Spend \div price
            ELSE Min({Effect(<<run, "BUY">>).btc, available.btc}))

\* The fills of both orders explain the account.
Explained(before, after) ==
    LET b == Effect(<<run, "BUY">>)
        s == Effect(<<run, "SELL">>)
    IN  after = [btc |-> before.btc + b.btc + s.btc,
                 usdt |-> before.usdt + b.usdt + s.usdt]

----------------------------------------------------------------------------
(* Control flow of the process *)

Goto(p) == pc' = p /\ Call(KindOf[p])

\* The process ends.
Leave ==
    /\ pc' = "idle" /\ NoCall /\ Fresh /\ armed' = FALSE
    /\ run' = None /\ leg' = "BUY" /\ state' = NoRow
    /\ price' = 0 /\ qty' = 0 /\ todo' = {}

\* main's handler: the run is blocked, whatever it was.
Block ==
    /\ saved' = [saved EXCEPT ![run] = [state EXCEPT !.status = "BLOCKED"]]
    /\ UNCHANGED journal
    /\ Leave

\* Size once: an order in the journal is only looked up.
BeginLeg(r, side) ==
    /\ leg' = side
    /\ Goto(IF journal[<<r, side>>] = 0 THEN "quote" ELSE "order2")

----------------------------------------------------------------------------
(* --execute-testnet *)

SlipMayBegin(r) == TRUE

\* A new run waits until every other run has passed.
MayBegin(r) ==
    saved[r] = NoRow =>
        \A q \in Runs : saved[q] # NoRow => saved[q].status = "PASS"

Begin(r) ==
    /\ pc = "idle"
    /\ MayBegin(r) /\ saved[r].status # "PASS"
    /\ ~killed
    /\ run' = r /\ armed' = TRUE
    /\ state' = (IF saved[r] = NoRow THEN [NoRow EXCEPT !.status = "STARTED"]
                 ELSE saved[r])
    /\ IF saved[r].before = None THEN Goto("open") /\ UNCHANGED leg
       ELSE BeginLeg(r, "BUY")
    /\ UNCHANGED <<timers, stop, durable, price, qty, todo, exchange, external>>

BeginStopped(r) ==
    /\ pc = "idle"
    /\ MayBegin(r) /\ saved[r].status # "PASS"
    /\ killed
    /\ saved' = [saved EXCEPT ![r].status = "BLOCKED"]
    /\ UNCHANGED <<request, timers, fixed, journal, pc, locals, exchange, external>>

\* A step of the process that leaves exchange and operators alone.
Quietly == UNCHANGED <<exchange, external>>

NoneOpen ==
    /\ pc = "open" /\ Answered("open")
    /\ Goto("before")
    /\ UNCHANGED <<timers, fixed, durable, locals>> /\ Quietly

\* Balances are read and saved once, before anything is ordered.
Before ==
    /\ pc = "before" /\ Answered("account")
    /\ state' = [state EXCEPT !.before = funds]
    /\ saved' = [saved EXCEPT ![run] = state']
    /\ BeginLeg(run, "BUY")
    /\ UNCHANGED <<timers, fixed, journal, run, price, qty, todo>> /\ Quietly

Quoted ==
    /\ pc = "quote" /\ Answered("market")
    /\ price' \in Prices
    /\ Goto("free")
    /\ UNCHANGED <<timers, fixed, durable, run, leg, state, qty, todo>> /\ Quietly

Sized ==
    /\ pc = "free" /\ Answered("account")
    /\ leg = "BUY" => funds.usdt >= Reserve
    /\ Size(funds) > 0
    /\ qty' = Size(funds)
    /\ pc' = "claim" /\ NoCall
    /\ UNCHANGED <<timers, fixed, durable, run, leg, state, price, todo>> /\ Quietly

\* place_order looks at the stop, then claims the id.
Claim ==
    /\ pc = "claim" /\ ~killed
    /\ IF journal[Id] = 0
       THEN journal' = [journal EXCEPT ![Id] = qty] /\ Goto("post")
       ELSE Goto("order1") /\ UNCHANGED journal
    /\ UNCHANGED <<timers, fixed, saved, locals>> /\ Quietly

\* The POST leaves; what becomes of it is up to the exchange.  An order it has
\* accepted and not executed yet may be found or not.
Post ==
    /\ pc = "post" /\ Send /\ IsPost
    /\ posts' = [posts EXCEPT ![Id] = @ + 1]
    /\ ex' = [ex EXCEPT ![Id] = "sent"]
    /\ UNCHANGED <<pc, durable, locals, fill, funds, external>>

Posted ==
    /\ pc = "post" /\ Answered("post") /\ ex[Id] \in Executed
    /\ Goto("order1")
    /\ UNCHANGED <<timers, fixed, durable, locals>> /\ Quietly

SlipUnfinished(complete) == ~complete

\* What a run does not go on with.
Unfinished(complete) == ~complete \/ ex[Id] # "filled"

\* reconcile has returned: inside place_order the run goes on to its own
\* reconciliation, behind that one to the next order.
Reconciled(complete) ==
    /\ Trips(IF complete THEN "none" ELSE "fault")
    /\ IF pc \in {"order1", "fills1"}
       THEN Goto("order2") /\ UNCHANGED leg
       ELSE /\ ~Unfinished(complete)
            /\ IF leg = "BUY" THEN BeginLeg(run, "SELL")
               ELSE Goto("after") /\ UNCHANGED leg
    /\ UNCHANGED <<timers, armed, durable, run, state, price, qty, todo>>
    /\ Quietly

\* An order that executed nothing has no fills to ask for.
Found ==
    /\ pc \in {"order1", "order2"} /\ Answered("order")
    /\ ex[Id] \in Executed /\ fill[Id].qty > 0
    /\ Goto(IF pc = "order1" THEN "fills1" ELSE "fills2")
    /\ UNCHANGED <<timers, fixed, durable, locals>> /\ Quietly

\* The order is known; its fills are, if there are any.
Queried ==
    \/ pc \in {"order1", "order2"} /\ Answered("order")
       /\ ex[Id] # "absent" /\ fill[Id].qty = 0
    \/ pc \in {"fills1", "fills2"} /\ Answered("fills")

FillsRead ==
    /\ Queried
    /\ \E complete \in BOOLEAN : Reconciled(complete)

\* ORDER_NOT_FULLY_RECONCILED
NotReconciled ==
    /\ Queried /\ pc \in {"order2", "fills2"}
    /\ \E complete \in BOOLEAN :
        /\ Unfinished(complete)
        /\ Trips(IF complete THEN "none" ELSE "fault")
    /\ Block
    /\ UNCHANGED <<exchange, external>>

Compare ==
    /\ pc = "after" /\ Answered("account")
    /\ saved' = [saved EXCEPT ![run] =
            [state EXCEPT !.after = funds,
                          !.status = IF Explained(state.before, funds)
                                     THEN "PASS" ELSE "FAIL"]]
    /\ Leave
    /\ UNCHANGED <<stop, journal>> /\ Quietly

\* A ValueError: open orders, too little money, no valid size, a stop.
Refused ==
    /\ \/ pc \in {"open", "quote", "free"} /\ Answered(KindOf[pc])
       \/ pc = "claim"
    /\ UNCHANGED stop
    /\ Block
    /\ UNCHANGED <<exchange, external>>

\* A request of the run raises.  reconcile makes every error a stop of its own
\* and an unknown outcome.
ReadRaises ==
    /\ pc \in Reads \cup Queries
    /\ \E e \in Errors, code \in StopCodes \cup {"none"}, limit \in Limits :
        /\ Raises(e, code, limit)
        /\ e = "NotFound" => ex[Id] \notin Executed
        /\ TripsFor(IF pc \in Queries THEN "fault" ELSE code, code)
        /\ Block
    /\ UNCHANGED <<exchange, external>>

\* place_order: without an answer it asks for the order, a refusal it reports.
PostRaises ==
    /\ pc = "post"
    /\ \E e \in Errors, code \in StopCodes \cup {"none"}, limit \in Limits :
        /\ Raises(e, code, limit)
        /\ Trips(code)
        /\ IF e \in {"Ambiguous", "Malformed"}
           THEN /\ Goto("order1")
                /\ quiet' = limit
                /\ UNCHANGED <<age, nap, armed, durable, locals, ex>>
           ELSE /\ ex[Id] \in {"absent", "sent"}
                /\ ex' = [ex EXCEPT ![Id] = "absent"]
                /\ Block
    /\ UNCHANGED <<fill, funds, posts, external>>

----------------------------------------------------------------------------
(* --resume-testnet: check_and_resume, with an adapter that can only read *)

Submitted == {i \in Ids : journal[i] # 0}

BeginResume ==
    /\ pc = "idle"
    /\ killed => reason = "auth"
    /\ todo' = Submitted
    /\ Goto("raccount")
    /\ UNCHANGED <<timers, fixed, durable, run, leg, state, price, qty>> /\ Quietly

\* The next submission to look up, or none left.
Examine(ids) ==
    IF ids = {} THEN pc' = "lift" /\ NoCall /\ UNCHANGED <<run, leg, todo>>
    ELSE \E i \in ids :
            /\ run' = i[1] /\ leg' = i[2]
            /\ todo' = ids \ {i}
            /\ Goto("rorder")

\* An order found is taken for a settled one.
SlipResolved ==
    \/ pc = "raccount" /\ Answered("account")
    \/ pc = "rorder" /\ Answered("order") /\ ex[Id] # "absent" /\ fill[Id].qty = 0
    \/ pc = "rfills" /\ Answered("fills")

\* What went before is settled: the account may trade, the order is final and
\* its fills are complete.
Resolved ==
    \/ pc = "raccount" /\ Answered("account")
    \/ pc = "rorder" /\ Answered("order") /\ ex[Id] \in Executed /\ fill[Id].qty = 0
    \/ pc = "rfills" /\ Answered("fills")

ResumeFound ==
    /\ pc = "rorder" /\ Answered("order")
    /\ ex[Id] \in Executed /\ fill[Id].qty > 0
    /\ Goto("rfills")
    /\ UNCHANGED <<timers, fixed, durable, locals>> /\ Quietly

NextResolved ==
    /\ Resolved
    /\ Examine(todo)
    /\ UNCHANGED <<timers, fixed, durable, state, price, qty>> /\ Quietly

\* The account cannot trade, the order is not final, the fills are incomplete.
ResumeRefused ==
    /\ \/ pc \in {"raccount", "rfills"} /\ Answered(KindOf[pc])
       \/ pc = "rorder" /\ Answered("order") /\ ex[Id] = "sent"
    /\ Leave
    /\ UNCHANGED <<stop, durable>> /\ Quietly

ResumeRaises ==
    /\ pc \in {"raccount", "rorder", "rfills"}
    /\ \E e \in Errors, code \in StopCodes \cup {"none"}, limit \in Limits :
        /\ Raises(e, code, limit)
        /\ e = "NotFound" => ex[Id] \notin Executed
    /\ Leave
    /\ UNCHANGED <<stop, durable>> /\ Quietly

\* The stop is read again, and lifted whoever gave it.
Lift ==
    /\ pc = "lift"
    /\ IF killed THEN killed' = FALSE /\ reason' = "none" /\ origin' = "none" ELSE UNCHANGED stop
    /\ Leave
    /\ UNCHANGED <<durable, exchange, external>>

----------------------------------------------------------------------------
(* Around the process *)

\* --stop
Stop ==
    /\ reason # "manual"
    /\ killed' = TRUE /\ reason' = "manual" /\ origin' = "none"
    /\ UNCHANGED <<request, timers, armed, durable, pc, locals, exchange, external>>

Crash ==
    /\ pc # "idle"
    /\ Leave
    /\ UNCHANGED <<stop, durable, exchange, external>>

\* A market order executes as a whole, in part, or expires; it may do so long
\* after its sender has given up, or never.  Its fee is a part of what it brings.
Execute(i) ==
    /\ ex[i] = "sent"
    /\ \E n \in 0 .. journal[i], p \in Prices, fee \in Fees :
        /\ n = Rounded(n)
        /\ n # 0 => fee <= (IF i[2] = "BUY" THEN n ELSE n * p)
        /\ fill' = [fill EXCEPT ![i] = IF n = 0 THEN NoFill
                                        ELSE [qty |-> n, quote |-> n * p, fee |-> fee]]
        /\ ex' = [ex EXCEPT ![i] = IF n = journal[i] THEN "filled" ELSE "partial"]
        /\ LET m == Effect(i)'
           IN  funds' = [usdt |-> funds.usdt + m.usdt, btc |-> funds.btc + m.btc]
        /\ funds'.usdt >= 0 /\ funds'.btc >= 0
    /\ UNCHANGED <<request, timers, fixed, durable, pc, locals, posts, external>>

\* Somebody else uses the account.
External ==
    /\ external < MaxExternal
    /\ external' = external + 1
    /\ funds' = [funds EXCEPT !.usdt = @ + 1]
    /\ UNCHANGED <<request, timers, fixed, durable, pc, locals, ex, fill, posts>>

Inner == Proceed /\ UNCHANGED <<durable, pc, locals, exchange, external>>

\* Reads are sent without further ado.
SendRead ==
    /\ Send /\ ~IsPost
    /\ UNCHANGED <<durable, pc, locals, exchange, external>>

Execution ==
    \/ NoneOpen \/ Before \/ Quoted \/ Sized \/ Claim \/ Post \/ Posted
    \/ Found \/ FillsRead \/ NotReconciled \/ Compare
    \/ Refused \/ ReadRaises \/ PostRaises

Resumption ==
    \/ ResumeFound \/ NextResolved \/ ResumeRefused \/ ResumeRaises \/ Lift

Process == Inner \/ SendRead \/ Execution \/ Resumption

Clock == Tick /\ UNCHANGED <<durable, pc, locals, exchange, external>>

Next ==
    \/ \E r \in Runs : Begin(r) \/ BeginStopped(r)
    \/ BeginResume
    \/ Process
    \/ Clock
    \/ Stop \/ Crash \/ External
    \/ \E i \in Ids : Execute(i)

Spec == Init /\ [][Next]_vars

\* The process is scheduled and time passes; a request has a timeout.
FairSpec == Spec /\ WF_vars(Process) /\ WF_vars(Clock)

----------------------------------------------------------------------------
(* Properties *)

Money == [usdt : Nat, btc : Nat]
Rows == [status : {"NONE", "STARTED", "BLOCKED", "PASS", "FAIL"},
         before : Money \cup {None}, after : Money \cup {None}]

\* Every variable has its type, and requests are under way only at the points
\* of the program that make them.
TypeOK ==
    /\ AdapterTypeOK
    /\ reason \in StopCodes \cup {"none", "manual"}
    /\ killed <=> reason # "none"
    /\ origin \in StopCodes \cup {"none"}
    /\ saved \in [Runs -> Rows] /\ state \in Rows
    /\ journal \in [Ids -> Nat] /\ posts \in [Ids -> Nat]
    /\ pc \in Calls \cup {"idle", "claim", "lift"}
    /\ at # "idle" <=> pc \in Calls
    /\ frames # <<>> => frames[1].kind = KindOf[pc]
    /\ run \in Runs \cup {None} /\ leg \in Sides
    /\ price \in Prices \cup {0} /\ qty \in Nat /\ todo \subseteq Ids
    /\ ex \in [Ids -> {"absent", "sent"} \cup Executed]
    /\ fill \in [Ids -> [qty : Nat, quote : Nat, fee : Nat]]
    /\ funds \in Money
    /\ external \in 0 .. MaxExternal

\* No order is sent a second time, whatever the retries of the adapter and the
\* repetitions of the command; and none is sent for a run while another run has
\* orders and has not passed.
OneRoundTrip ==
    /\ \A i \in Ids : posts[i] <= 1
    /\ \A q, r \in Runs :
        /\ \E s \in Sides : journal[<<q, s>>] # 0
        /\ \E s \in Sides : journal[<<r, s>>] # 0
        => q = r \/ saved[q].status = "PASS" \/ saved[r].status = "PASS"

\* A run that has passed bought and sold once, completely, and nothing but
\* these two executions happened to the account between its two readings.
PassIsRoundTrip ==
    \A r \in Runs : saved[r].status = "PASS" =>
        LET b == Effect(<<r, "BUY">>)
            s == Effect(<<r, "SELL">>)
        IN  /\ \A side \in Sides :
                ex[<<r, side>>] = "filled" /\ posts[<<r, side>>] = 1
            /\ saved[r].after.usdt = saved[r].before.usdt + b.usdt + s.usdt
            /\ saved[r].after.btc = saved[r].before.btc + b.btc + s.btc

\* The orders of this command never sell BTC that was on the account before it,
\* although both sizes come from quotes and balances that others may move.
HoldingsKept ==
    funds.btc >= AccountBtc

\* The stop is lifted only when every order that was ever submitted has its
\* final execution on the exchange: none can still execute afterwards.
ResumeOnlyWhenSettled ==
    [][killed /\ ~killed' => \A i \in Submitted : ex[i] \in Executed]_vars

\* While the exchange has asked for quiet, no request leaves.
QuietWhileLimited == [][at # "wire" /\ at' = "wire" => quiet = 0]_vars

\* A command comes to its end, through all retries, waits and synchronisations.
CommandEnds == []<>(pc = "idle")

\* What a document says: an execution that met an authentication failure is
\* stopped as such, so that --resume-testnet can lift the stop afterwards.
AuthStopIsNamed ==
    killed /\ origin = "auth" => reason = "auth"
----------------------------------------------------------------------------
(* The inductive strengthening                                              *)

Ordering == {"quote", "free", "claim", "post"} \cup Queries
Executing == {"open", "before", "after"} \cup Ordering
Resuming == {"raccount", "rorder", "rfills", "lift"}

\* A request inside another is the one for the server's time, and a process
\* that sleeps sleeps at least as long as the exchange wants quiet.
RequestInv ==
    /\ Len(frames) = 2 => frames[1].kind \in Signed /\ frames[2].kind = "time"
    /\ at \in {"send", "wire"} => quiet = 0
    /\ at = "nap" => quiet <= nap

\* Only a claimed order is sent, at most once, and executes at most as a whole.
OrderInv(i) ==
    /\ posts[i] <= 1
    /\ posts[i] = 0 => ex[i] = "absent"
    /\ posts[i] = 1 => journal[i] # 0
    /\ ex[i] \notin Executed => fill[i] = NoFill
    /\ ex[i] = "filled" => fill[i].qty = journal[i]
    /\ fill[i].qty <= journal[i]
    /\ i[2] = "BUY" => fill[i].fee <= fill[i].qty

\* A run sells no more than it has bought, when it has bought all.
SaleInv(r) ==
    journal[<<r, "SELL">>] # 0 =>
        /\ ex[<<r, "BUY">>] = "filled"
        /\ journal[<<r, "SELL">>] <= Effect(<<r, "BUY">>).btc

\* One run at a time is begun and has not passed, and only a run that is begun
\* claims orders.
RowInv ==
    /\ \A r \in Runs : saved[r].status = "NONE" => saved[r] = NoRow
    /\ \A i \in Submitted : saved[i[1]] # NoRow
    /\ \A q, r \in Runs :
        saved[q] # NoRow /\ saved[r] # NoRow
            => q = r \/ saved[q].status = "PASS" \/ saved[r].status = "PASS"

\* An execution works on the one run that may be begun, on a copy of its row.
RunInv ==
    /\ pc \in Executing =>
        /\ run \in Runs /\ MayBegin(run)
        /\ saved[run].status # "PASS" /\ state.status \notin {"NONE", "PASS"}
    /\ pc \in Ordering \cup {"after"} => state = saved[run]

\* It sells when it has bought all, and compares when it has sold all.
LegInv ==
    /\ pc = "after" \/ (pc \in Ordering /\ leg = "SELL") => ex[<<run, "BUY">>] = "filled"
    /\ pc = "after" => ex[<<run, "SELL">>] = "filled"

\* It sizes an order once, and sends it once.
SizeInv ==
    /\ pc \in {"quote", "free", "claim"} => journal[Id] = 0
    /\ pc = "free" => price \in Prices
    /\ pc = "claim" => qty > 0
    /\ pc = "claim" /\ leg = "SELL" => qty <= Effect(<<run, "BUY">>).btc
    /\ pc = "post" => journal[Id] # 0
    /\ pc = "post" => posts[Id] = IF at = "wire" /\ Len(frames) = 1 THEN 1 ELSE 0

\* What a resumption has looked up is final.
ResumeInv ==
    /\ pc \in Resuming => \A i \in Submitted \ todo :
        ex[i] \in Executed \/ (pc = "rorder" /\ i = Id)
    /\ pc \in {"rorder", "rfills"} => run \in Runs
    /\ pc = "lift" => todo = {}

\* What the run that has not passed has bought is there on top of what was.
HoldingsInv ==
    /\ HoldingsKept
    /\ \A r \in Runs : saved[r].status # "PASS" =>
        funds.btc >= AccountBtc + Effect(<<r, "BUY">>).btc + Effect(<<r, "SELL">>).btc

Inductive ==
    /\ TypeOK
    /\ RequestInv
    /\ \A i \in Ids : OrderInv(i)
    /\ \A r \in Runs : SaleInv(r)
    /\ RowInv
    /\ PassIsRoundTrip
    /\ RunInv
    /\ LegInv
    /\ SizeInv
    /\ ResumeInv
    /\ HoldingsInv

=============================================================================
