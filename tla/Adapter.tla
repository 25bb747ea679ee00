------------------------------- MODULE Adapter -------------------------------
(***************************************************************************)
(* One HTTP request of BinanceSpotAdapter (exchange/binance.py): _request  *)
(* with the clock synchronisation it may need first, its retries, its      *)
(* waiting out of a rate limit, and the errors it raises.                  *)
(*                                                                         *)
(* The module is used by extending it: a caller starts a request with      *)
(* Call, leaves its inner life to Proceed, and conjoins its own reaction   *)
(* with Answered or Raises.  A request that needs the server's time first  *)
(* makes another request for it, so requests form a stack of at most two.  *)
(*                                                                         *)
(* Times count down: how old the clock offset is, how long the exchange    *)
(* wants no requests, how long the process still sleeps.                   *)
(***************************************************************************)
EXTENDS Integers, Sequences, FiniteSetsExt

CONSTANTS
    SyncAge,     \* an older clock offset is fetched again before signing
    Backoff,     \* the sleep between two attempts
    ShortWait,   \* a longer wait is not slept through, it is raised
    Waits,       \* what Retry-After may ask for
    LastAttempt  \* a read is tried once more than this

ASSUME AdapterAssumption ==
    /\ {SyncAge, ShortWait, LastAttempt} \subseteq Nat /\ Waits \subseteq Nat
    /\ Backoff \in Nat \ {0}
    /\ Backoff <= ShortWait

VARIABLES
    frames,   \* the requests under way, the innermost last
    at,       \* where the innermost one is
    age,      \* of the clock offset; beyond SyncAge it is too old, or missing
    quiet,    \* what is left of the last rate limit
    nap,      \* what is left of the sleep
    armed,    \* the adapter was given the stop and a transport that may POST
    killed, reason,  \* the persistent stop
    origin           \* history: what the exchange refused when it was tripped

timers == <<age, quiet, nap>>
stop == <<killed, reason, origin>>
fixed == <<armed, stop>>
request == <<frames, at>>

Kinds == {"open", "account", "market", "order", "fills", "time", "post"}
Signed == Kinds \ {"market", "time"}
Errors == {"Auth", "Malformed", "Ambiguous", "NotFound", "Other"}

\* The stops the adapter trips: for an authentication failure, and for all else.
StopCodes == {"auth", "fault"}
TooOld == SyncAge + 1

Top == frames[Len(frames)]
IsPost == Top.kind = "post"

AdapterTypeOK ==
    /\ frames \in Seq([kind : Kinds, attempt : 0 .. LastAttempt])
    /\ Len(frames) <= 2
    /\ at \in {"idle", "enter", "send", "wire", "nap"}
    /\ at = "idle" <=> frames = <<>>
    /\ age \in 0 .. TooOld
    /\ quiet \in Nat /\ \E wait \in Waits \cup {Backoff} : quiet <= wait
    /\ nap \in 0 .. ShortWait
    /\ armed \in BOOLEAN /\ killed \in BOOLEAN

\* A new adapter object.
Fresh ==
    /\ age' = TooOld /\ quiet' = 0 /\ nap' = 0

Call(kind) ==
    /\ frames' = <<[kind |-> kind, attempt |-> 0]>>
    /\ at' = "enter"

NoCall == frames' = <<>> /\ at' = "idle"

SlipTripsFor(code, cause) ==
    IF armed /\ code # "none" THEN killed' = TRUE /\ UNCHANGED <<reason, origin>>
    ELSE UNCHANGED stop

\* _trip does nothing in an adapter that has no stop.
TripsFor(code, cause) ==
    IF armed /\ code # "none" THEN killed' = TRUE /\ reason' = code /\ origin' = cause
    ELSE UNCHANGED stop

Trips(code) == TripsFor(code, code)

----------------------------------------------------------------------------
(* What goes on inside a request *)

\* The first thing a request does is to respect a limit still in force.
SlipMayEnter == at = "enter"
MayEnter == at = "enter" /\ quiet = 0

SyncFirst == Top.kind \in Signed /\ age > SyncAge

Synchronize ==
    /\ MayEnter /\ SyncFirst
    /\ frames' = Append(frames, [kind |-> "time", attempt |-> 0])
    /\ UNCHANGED <<at, timers, fixed>>

Enter ==
    /\ MayEnter /\ ~SyncFirst
    /\ at' = "send"
    /\ UNCHANGED <<frames, timers, fixed>>

\* A POST looks at the stop at the last moment.
Send ==
    /\ at = "send"
    /\ IsPost => ~killed
    /\ at' = "wire"
    /\ UNCHANGED <<frames, timers, fixed>>

\* No usable answer: a GET is sent again after a sleep.
Retry(delay) ==
    /\ at = "wire" /\ ~IsPost /\ Top.attempt < LastAttempt
    /\ frames' = [frames EXCEPT ![Len(frames)].attempt = @ + 1]
    /\ at' = "nap" /\ nap' = delay
    /\ UNCHANGED <<age, fixed>>

Delay(wait) == Max({Backoff, wait})

RetryLost == Retry(Backoff) /\ UNCHANGED quiet

RetryLimited ==
    \E wait \in Waits :
        /\ Delay(wait) <= ShortWait
        /\ Retry(Delay(wait)) /\ quiet' = Delay(wait)

WakeUp ==
    /\ at = "nap" /\ nap = 0
    /\ at' = "send"
    /\ UNCHANGED <<frames, timers, fixed>>

\* A timestamp the server does not accept: fetch its time, then the next attempt.
SlipResync ==
    /\ at = "wire" /\ ~IsPost /\ Top.kind \in Signed /\ Top.attempt < LastAttempt
    /\ frames' = Append(frames, [kind |-> "time", attempt |-> 0])
    /\ at' = "enter"
    /\ UNCHANGED <<timers, fixed>>

Resync ==
    /\ at = "wire" /\ ~IsPost /\ Top.kind \in Signed /\ Top.attempt < LastAttempt
    /\ frames' = Append([frames EXCEPT ![Len(frames)].attempt = @ + 1],
                        [kind |-> "time", attempt |-> 0])
    /\ at' = "enter"
    /\ UNCHANGED <<timers, fixed>>

\* sync_time returns; the request that needed it goes on.
Synchronized ==
    /\ at = "wire" /\ Top.kind = "time"
    /\ frames' = SubSeq(frames, 1, Len(frames) - 1)
    /\ at' = "send" /\ age' = 0
    /\ UNCHANGED <<quiet, nap, fixed>>

\* Every inner step but Send, whose effect on the exchange is the caller's.
Proceed ==
    \/ Synchronize \/ Enter \/ RetryLost \/ RetryLimited
    \/ WakeUp \/ Resync \/ Synchronized

----------------------------------------------------------------------------
(* How a request ends *)

\* The answer of the request the caller made is there.
Answered(kind) == at = "wire" /\ frames[1].kind = kind /\ Len(frames) = 1

\* A limit too long to sleep through, or met when no attempt is left.
RaisesLimited(e, limit) ==
    /\ limit \in {Delay(wait) : wait \in Waits}
    /\ \E banned \in BOOLEAN :
        IF banned \/ limit > ShortWait THEN e = "Other"
        ELSE IF IsPost THEN e = "Ambiguous"
        ELSE Top.attempt = LastAttempt /\ e = "Other"

\* The other replies that end a request; code is the stop the adapter trips
\* itself.  "Other" stands for a rejection, for reads that found no answer in all
\* attempts, and for a server time that took too long.
Refuses(e, code) ==
    \/ e = "Other" /\ code = "none"
    \/ IsPost /\ e = "Ambiguous" /\ code = "none"
    \/ Top.kind = "order" /\ e = "NotFound" /\ code = "none"
    \/ e = "Auth" /\ code = "auth"
    \/ e = (IF IsPost THEN "Ambiguous" ELSE "Malformed") /\ code = "fault"

\* How long the exchange may want no requests when a request has ended.
Limits == {quiet} \cup {Delay(wait) : wait \in Waits}

\* An error leaves through all the requests under way.
Raises(e, code, limit) ==
    \/ /\ limit = quiet
       /\ \/ at = "enter" /\ quiet > 0 /\ e = "Other" /\ code = "none"
          \/ at = "send" /\ IsPost /\ killed /\ e = "Other" /\ code = "none"
          \/ at = "wire" /\ Refuses(e, code)
    \/ at = "wire" /\ RaisesLimited(e, limit) /\ code = "none"

----------------------------------------------------------------------------
CountDown(n) == IF n = 0 THEN 0 ELSE n - 1

Tick ==
    /\ at # "idle"
    /\ age' = (IF age = TooOld THEN TooOld ELSE age + 1)
    /\ quiet' = CountDown(quiet) /\ nap' = CountDown(nap)
    /\ timers' # timers
    /\ UNCHANGED <<request, fixed>>

=============================================================================
