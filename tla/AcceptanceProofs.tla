--------------------------- MODULE AcceptanceProofs ---------------------------
(***************************************************************************)
(* Proofs about Acceptance and Adapter, for all values of the constants.   *)
(*                                                                         *)
(* The invariant is proved in layers, as each needs the one before: the    *)
(* request under way with its timers, the types of everything else, the    *)
(* orders, the rows, the points of an execution, those of a resumption,    *)
(* and the holdings.                                                       *)
(***************************************************************************)
EXTENDS Acceptance, SequenceTheorems, TLAPS

----------------------------------------------------------------------------
(* Data *)

Requests == [kind : Kinds, attempt : 0 .. LastAttempt]

LEMMA ConstantsTyped ==
    /\ SyncAge \in Nat /\ ShortWait \in Nat /\ LastAttempt \in Nat
    /\ Waits \subseteq Nat /\ Backoff \in Nat /\ Backoff # 0 /\ Backoff <= ShortWait
    /\ None \notin Runs
    /\ Prices \subseteq Nat \ {0} /\ Step \in Nat \ {0} /\ Fees \subseteq Nat
    /\ Spend \in Nat /\ Reserve \in Nat /\ AccountUsdt \in Nat /\ AccountBtc \in Nat
    /\ MaxExternal \in Nat
  BY AdapterAssumption, AcceptanceAssumption

LEMMA CallsAre ==
    Calls = {"open", "before", "quote", "free", "post", "order1", "fills1",
             "order2", "fills2", "after", "raccount", "rorder", "rfills"}
  BY DEF Calls, KindOf

\* The kind of request each point of the program makes.
LEMMA KindsAre ==
    /\ KindOf["open"] = "open" /\ KindOf["before"] = "account"
    /\ KindOf["quote"] = "market" /\ KindOf["free"] = "account"
    /\ KindOf["post"] = "post" /\ KindOf["order1"] = "order"
    /\ KindOf["fills1"] = "fills" /\ KindOf["order2"] = "order"
    /\ KindOf["fills2"] = "fills" /\ KindOf["after"] = "account"
    /\ KindOf["raccount"] = "account" /\ KindOf["rorder"] = "order"
    /\ KindOf["rfills"] = "fills"
  BY DEF KindOf

LEMMA KindsTyped ==
    ASSUME NEW p \in Calls
    PROVE  /\ KindOf[p] \in Kinds /\ KindOf[p] # "time"
           /\ KindOf[p] = "post" <=> p = "post"
  BY CallsAre, KindsAre DEF Kinds

LEMMA NoFrames == <<>> \in Seq(Requests) /\ Len(<<>>) = 0
  BY EmptySeq

LEMMA OneOrTwo ==
    /\ \A n \in Nat \ {0} : n <= 2 => n \in {1, 2}
    /\ \A n \in {1, 2} : n <= 2
    /\ 1 \in {1, 2} /\ 1 # 2
  OBVIOUS

LEMMA MaxOfTwo ==
    ASSUME NEW a \in Nat, NEW b \in Nat
    PROVE  Max({a, b}) \in {a, b} /\ Max({a, b}) >= a
<1>1. \E x \in {a, b} : \A y \in {a, b} : x >= y
  <2>1. CASE a >= b
    BY <2>1
  <2>2. CASE b >= a
    BY <2>2
  <2> QED
    BY <2>1, <2>2
<1> QED
  BY <1>1 DEF Max

LEMMA MinOfTwo ==
    ASSUME NEW a \in Int, NEW b \in Int
    PROVE  Min({a, b}) \in {a, b} /\ Min({a, b}) <= a
<1>1. \E x \in {a, b} : \A y \in {a, b} : x <= y
  <2>1. CASE a <= b
    BY <2>1
  <2>2. CASE b <= a
    BY <2>2
  <2> QED
    BY <2>1, <2>2
<1> QED
  BY <1>1 DEF Min

\* Rounding down to the step gives no more than it is given.
LEMMA RoundedIsLess ==
    ASSUME NEW n \in Nat
    PROVE  Rounded(n) \in Nat /\ Rounded(n) <= n
<1>1. Step \in Nat \ {0}
  BY ConstantsTyped
<1> QED
  BY <1>1 DEF Rounded

LEMMA DelayTyped ==
    ASSUME NEW wait \in Waits
    PROVE  /\ Delay(wait) \in Nat /\ Delay(wait) >= Backoff
           /\ Delay(wait) \in Waits \cup {Backoff}
<1>1. wait \in Nat /\ Backoff \in Nat
  BY ConstantsTyped
<1> QED
  BY <1>1, MaxOfTwo DEF Delay

----------------------------------------------------------------------------
(* The request under way *)

RequestOK ==
    /\ AdapterTypeOK
    /\ pc \in Calls \cup {"idle", "claim", "lift"}
    /\ at # "idle" <=> pc \in Calls
    /\ frames # <<>> => frames[1].kind = KindOf[pc]
    /\ RequestInv

\* A step of the caller makes the next request, or none.
Turn ==
    \/ /\ \E p \in Calls : Goto(p)
       /\ UNCHANGED <<age, nap>> /\ quiet' \in Limits
       /\ armed' \in BOOLEAN /\ killed' \in BOOLEAN
    \/ Leave /\ killed' \in BOOLEAN
    \/ /\ NoCall /\ pc' \in {"claim", "lift"}
       /\ UNCHANGED timers
       /\ armed' \in BOOLEAN /\ killed' \in BOOLEAN
    \/ /\ UNCHANGED <<request, timers, pc, armed>>
       /\ killed' \in BOOLEAN

LEMMA RequestInit == Init => RequestOK
<1> SUFFICES ASSUME Init PROVE RequestOK
  OBVIOUS
<1>1. Backoff \in Waits \cup {Backoff} /\ 0 <= Backoff
  BY ConstantsTyped
<1>2. frames \in Seq(Requests) /\ Len(frames) = 0 /\ frames = <<>>
  BY NoFrames DEF Init
<1>3. age \in 0 .. TooOld /\ nap \in 0 .. ShortWait
  BY ConstantsTyped DEF Init, TooOld
<1>4. AdapterTypeOK
  <2>1. quiet \in Nat /\ \E wait \in Waits \cup {Backoff} : quiet <= wait
    BY <1>1 DEF Init
  <2>2. frames \in Seq([kind : Kinds, attempt : 0 .. LastAttempt]) /\ Len(frames) <= 2
    BY <1>2 DEF Requests
  <2> QED
    BY <1>2, <1>3, <2>1, <2>2 DEF Init, AdapterTypeOK
<1>5. RequestInv
  BY <1>2 DEF Init, RequestInv
<1> QED
  BY <1>2, <1>4, <1>5, CallsAre DEF Init, RequestOK

LEMMA LimitsTyped ==
    ASSUME AdapterTypeOK, NEW limit \in Limits
    PROVE  limit \in Nat /\ \E wait \in Waits \cup {Backoff} : limit <= wait
<1>1. CASE limit = quiet
  BY <1>1 DEF AdapterTypeOK
<1>2. CASE limit # quiet
  <2>1. PICK wait \in Waits : limit = Delay(wait)
    BY <1>2 DEF Limits
  <2>2. limit \in Nat /\ limit \in Waits \cup {Backoff}
    BY <2>1, DelayTyped
  <2> QED
    BY <2>2
<1> QED
  BY <1>1, <1>2

LEMMA TurnKeepsRequest ==
    ASSUME RequestOK, Turn
    PROVE  RequestOK'
<1>1. CASE (\E p \in Calls : Goto(p)) /\ UNCHANGED <<age, nap>> /\ quiet' \in Limits
           /\ armed' \in BOOLEAN /\ killed' \in BOOLEAN
  <2>1. PICK p \in Calls : Goto(p)
    BY <1>1
  <2>2. /\ frames' = <<[kind |-> KindOf[p], attempt |-> 0]>>
        /\ pc' = p /\ at' = "enter"
    BY <2>1 DEF Goto, Call
  <2>3. [kind |-> KindOf[p], attempt |-> 0] \in Requests
    BY KindsTyped, ConstantsTyped DEF Requests
  <2>4. /\ frames' \in Seq(Requests) /\ Len(frames') = 1
        /\ frames' # <<>> /\ frames'[1].kind = KindOf[p]
    BY <2>2, <2>3
  <2>5. quiet' \in Nat /\ \E wait \in Waits \cup {Backoff} : quiet' <= wait
    BY <1>1, LimitsTyped DEF RequestOK
  <2>6. AdapterTypeOK'
    BY <1>1, <2>2, <2>4, <2>5 DEF RequestOK, AdapterTypeOK, Requests
  <2>7. RequestInv'
    BY <2>2, <2>4 DEF RequestInv
  <2> QED
    BY <2>2, <2>4, <2>6, <2>7, CallsAre DEF RequestOK
<1>2. CASE Leave /\ killed' \in BOOLEAN
  <2>1. /\ pc' = "idle" /\ frames' = <<>> /\ at' = "idle"
        /\ age' = TooOld /\ quiet' = 0 /\ nap' = 0 /\ armed' = FALSE
    BY <1>2 DEF Leave, NoCall, Fresh
  <2>2. Backoff \in Waits \cup {Backoff} /\ 0 <= Backoff
    BY ConstantsTyped
  <2>3. 0 \in 0 .. ShortWait /\ TooOld \in 0 .. TooOld
    BY ConstantsTyped DEF TooOld
  <2>4. AdapterTypeOK'
    <3>1. quiet' \in Nat /\ \E wait \in Waits \cup {Backoff} : quiet' <= wait
      BY <2>1, <2>2
    <3>2. frames' \in Seq([kind : Kinds, attempt : 0 .. LastAttempt]) /\ Len(frames') <= 2
      BY <2>1, NoFrames DEF Requests
    <3> QED
      BY <1>2, <2>1, <2>3, <3>1, <3>2 DEF AdapterTypeOK
  <2>5. RequestInv'
    BY <2>1, NoFrames DEF RequestInv
  <2> QED
    BY <2>1, <2>4, <2>5, CallsAre DEF RequestOK
<1>3. CASE NoCall /\ pc' \in {"claim", "lift"} /\ UNCHANGED timers
           /\ armed' \in BOOLEAN /\ killed' \in BOOLEAN
  BY <1>3, CallsAre DEF RequestOK, AdapterTypeOK, RequestInv, NoCall, timers
<1>4. CASE UNCHANGED <<request, timers, pc, armed>> /\ killed' \in BOOLEAN
  BY <1>4 DEF RequestOK, AdapterTypeOK, RequestInv, request, timers, Top, IsPost
<1> QED
  BY <1>1, <1>2, <1>3, <1>4 DEF Turn

\* What a request with a frame looks like.
LEMMA UnderWay ==
    ASSUME RequestOK, at # "idle"
    PROVE  /\ pc \in Calls
           /\ frames \in Seq(Requests) /\ Len(frames) \in {1, 2}
           /\ frames[1] \in Requests /\ frames[1].kind = KindOf[pc]
           /\ Top \in Requests
           /\ Len(frames) = 1 => Top = frames[1]
           /\ Len(frames) = 2 => Top.kind = "time" /\ frames[1].kind \in Signed
<1>1. /\ frames \in Seq(Requests) /\ Len(frames) <= 2 /\ frames # <<>>
      /\ pc \in Calls /\ frames[1].kind = KindOf[pc]
  BY DEF RequestOK, AdapterTypeOK, Requests
<1>2. Len(frames) \in {1, 2}
  <2>1. Len(frames) \in Nat \ {0}
    BY <1>1, EmptySeq
  <2>2. Len(frames) <= 2
    BY <1>1
  <2> QED
    BY <2>1, <2>2, OneOrTwo, Zenon
<1>3. frames[1] \in Requests /\ frames[Len(frames)] \in Requests
  BY <1>1, <1>2
<1> QED
  BY <1>1, <1>2, <1>3 DEF RequestOK, RequestInv, Top

TimeRequest == [kind |-> "time", attempt |-> 0]

\* The request for the server's time goes on top of another one.
LEMMA OnTop ==
    ASSUME NEW s \in Seq(Requests), Len(s) = 1
    PROVE  /\ Append(s, TimeRequest) \in Seq(Requests)
           /\ Len(Append(s, TimeRequest)) = 2
           /\ Append(s, TimeRequest) # <<>>
           /\ Append(s, TimeRequest)[1] = s[1]
           /\ Append(s, TimeRequest)[2].kind = "time"
<1>1. TimeRequest \in Requests
  BY ConstantsTyped DEF TimeRequest, Requests, Kinds
<1>2. 1 \in 1 .. Len(s) /\ Len(s) + 1 = 2
  OBVIOUS
<1>3. /\ Append(s, TimeRequest) \in Seq(Requests)
      /\ Len(Append(s, TimeRequest)) = Len(s) + 1
      /\ Append(s, TimeRequest) # <<>>
      /\ Append(s, TimeRequest)[1] = s[1]
      /\ Append(s, TimeRequest)[Len(s) + 1] = TimeRequest
  <2>1. /\ Append(s, TimeRequest) \in Seq(Requests)
        /\ Append(s, TimeRequest) # <<>>
        /\ Len(Append(s, TimeRequest)) = Len(s) + 1
        /\ \A i \in 1 .. Len(s) : Append(s, TimeRequest)[i] = s[i]
        /\ Append(s, TimeRequest)[Len(s) + 1] = TimeRequest
    BY <1>1, AppendProperties, Zenon
  <2> QED
    BY <1>2, <2>1, Zenon
<1> QED
  BY <1>2, <1>3 DEF TimeRequest

\* One more attempt of the innermost request.
LEMMA Again ==
    ASSUME RequestOK, at # "idle", Top.attempt < LastAttempt
    PROVE  LET again == [frames EXCEPT ![Len(frames)].attempt = @ + 1]
           IN  /\ again \in Seq(Requests) /\ again # <<>>
               /\ Len(again) = Len(frames)
               /\ again[1].kind = frames[1].kind
               /\ Len(frames) = 2 => again[2].kind = "time"
<1> DEFINE again == [frames EXCEPT ![Len(frames)].attempt = @ + 1]
<1> DEFINE more == [Top EXCEPT !.attempt = @ + 1]
<1>1. again = [frames EXCEPT ![Len(frames)] = more]
  BY DEF Top
<1>2. /\ frames \in Seq(Requests) /\ Len(frames) \in {1, 2}
      /\ Top \in Requests
      /\ Len(frames) = 1 => Top = frames[1]
      /\ Len(frames) = 2 => Top.kind = "time"
  BY UnderWay
<1>3. more \in Requests /\ more.kind = Top.kind
  <2>1. Top = [kind |-> Top.kind, attempt |-> Top.attempt]
        /\ Top.kind \in Kinds /\ Top.attempt \in 0 .. LastAttempt
    BY <1>2 DEF Requests
  <2>2. Top.attempt + 1 \in 0 .. LastAttempt
    BY <2>1, ConstantsTyped
  <2>3. more = [kind |-> Top.kind, attempt |-> Top.attempt + 1]
    BY <2>1
  <2> QED
    BY <2>1, <2>2, <2>3 DEF Requests
<1>4. Len(frames) \in 1 .. Len(frames) /\ 1 \in 1 .. Len(frames)
  BY <1>2
<1> HIDE DEF again, more
<1>5. /\ again \in Seq(Requests) /\ Len(again) = Len(frames)
      /\ \A j \in 1 .. Len(frames) : again[j] = IF j = Len(frames) THEN more ELSE frames[j]
  BY <1>1, <1>2, <1>3, <1>4, ExceptSeq
<1>6. again # <<>>
  BY <1>2, <1>5, NoFrames
<1>7. again[1].kind = frames[1].kind
  <2>1. CASE Len(frames) = 1
    BY <2>1, <1>2, <1>3, <1>4, <1>5
  <2>2. CASE Len(frames) = 2
    BY <2>2, <1>4, <1>5
  <2> QED
    BY <2>1, <2>2, <1>2
<1>8. Len(frames) = 2 => again[2].kind = "time"
  BY <1>2, <1>3, <1>4, <1>5
<1> QED
  BY <1>5, <1>6, <1>7, <1>8 DEF again

\* A step inside a request keeps the process where it is.
LEMMA InnerKeepsRequest ==
    ASSUME RequestOK, Proceed \/ Send \/ Tick, pc' = pc
    PROVE  RequestOK'
<1>1. at # "idle"
  BY DEF Proceed, Synchronize, Enter, MayEnter, RetryLost, RetryLimited, Retry, WakeUp,
         Resync, Synchronized, Send, Tick
<1>2. /\ pc \in Calls
      /\ frames \in Seq(Requests) /\ Len(frames) \in {1, 2}
      /\ frames # <<>> /\ frames[1].kind = KindOf[pc]
      /\ Len(frames) = 1 => Top = frames[1]
      /\ Len(frames) = 2 => Top.kind = "time" /\ frames[1].kind \in Signed
      /\ Len(frames) = 2 => frames[2].kind = "time"
  BY <1>1, UnderWay DEF RequestOK, AdapterTypeOK, RequestInv
<1>3. Top.kind \in Signed => Len(frames) = 1
  BY <1>2 DEF Signed
<1>4. /\ age \in 0 .. TooOld /\ nap \in 0 .. ShortWait /\ quiet \in Nat
      /\ (\E wait \in Waits \cup {Backoff} : quiet <= wait)
      /\ armed \in BOOLEAN /\ killed \in BOOLEAN
      /\ at \in {"send", "wire"} => quiet = 0
      /\ at = "nap" => quiet <= nap
  BY DEF RequestOK, AdapterTypeOK, RequestInv
<1> DEFINE Shape ==
      /\ frames' \in Seq(Requests) /\ Len(frames') \in {1, 2} /\ frames' # <<>>
      /\ frames'[1].kind = KindOf[pc]
      /\ Len(frames') = 2 => frames'[1].kind \in Signed /\ frames'[2].kind = "time"
<1> DEFINE Times ==
      /\ age' \in 0 .. TooOld /\ nap' \in 0 .. ShortWait /\ quiet' \in Nat
      /\ \E wait \in Waits \cup {Backoff} : quiet' <= wait
      /\ at' \in {"enter", "send", "wire", "nap"}
      /\ at' \in {"send", "wire"} => quiet' = 0
      /\ at' = "nap" => quiet' <= nap'
<1>5. ASSUME Shape, Times, UNCHANGED fixed
      PROVE  RequestOK'
  <2>1. AdapterTypeOK'
    <3>1. frames' \in Seq([kind : Kinds, attempt : 0 .. LastAttempt]) /\ Len(frames') <= 2
      BY <1>5, OneOrTwo, Zenon DEF Requests
    <3> QED
      BY <3>1, <1>4, <1>5 DEF AdapterTypeOK, fixed, stop
  <2>2. RequestInv'
    BY <1>5 DEF RequestInv
  <2> QED
    BY <2>1, <2>2, <1>2, <1>5 DEF RequestOK
<1>6. frames' = frames => Shape
  BY <1>2
<1> HIDE DEF Shape
<1>7. CASE Synchronize
  <2>1. frames' = Append(frames, TimeRequest) /\ Len(frames) = 1 /\ Top.kind \in Signed
        /\ UNCHANGED <<at, timers, fixed>>
    BY <1>3, <1>7 DEF Synchronize, SyncFirst, TimeRequest
  <2>2. Shape
    BY <2>1, <1>2, OnTop DEF Shape
  <2>3. Times
    BY <2>1, <1>1, <1>4, <1>7 DEF timers, Synchronize, MayEnter
  <2> QED
    BY <2>1, <2>2, <2>3, <1>5
<1>8. CASE Enter \/ Send \/ WakeUp
  <2>1. frames' = frames /\ UNCHANGED <<timers, fixed>>
    BY <1>8 DEF Enter, Send, WakeUp
  <2>2. Times
    <3>1. quiet = 0
      <4>1. nap \in Nat /\ (at = "nap" /\ nap = 0 => quiet <= 0)
        BY <1>4, ConstantsTyped
      <4> QED
        BY <4>1, <1>4, <1>8 DEF Enter, MayEnter, Send, WakeUp
    <3> QED
      BY <3>1, <2>1, <1>4, <1>8 DEF Enter, Send, WakeUp, timers
  <2> QED
    BY <2>1, <2>2, <1>5, <1>6
<1>9. ASSUME NEW delay \in 0 .. ShortWait, Retry(delay),
             quiet' = quiet \/ (quiet' = delay /\ delay \in Waits \cup {Backoff})
      PROVE  RequestOK'
  <2>1. /\ at = "wire" /\ Top.attempt < LastAttempt
        /\ frames' = [frames EXCEPT ![Len(frames)].attempt = @ + 1]
        /\ at' = "nap" /\ nap' = delay /\ age' = age /\ UNCHANGED fixed
    BY <1>9 DEF Retry
  <2>2. Shape
    BY <2>1, <1>1, <1>2, Again DEF Shape
  <2>3. delay \in Nat
    BY ConstantsTyped
  <2>4. Times
    BY <2>1, <2>3, <1>4, <1>9
  <2> QED
    BY <2>1, <2>2, <2>4, <1>5
<1>10. CASE RetryLost
  BY <1>9, <1>10, ConstantsTyped DEF RetryLost
<1>11. CASE RetryLimited
  <2>1. PICK wait \in Waits : Delay(wait) <= ShortWait /\ Retry(Delay(wait)) /\ quiet' = Delay(wait)
    BY <1>11 DEF RetryLimited
  <2>2. Delay(wait) \in Nat /\ Delay(wait) \in Waits \cup {Backoff} /\ Delay(wait) \in 0 .. ShortWait
    BY <2>1, DelayTyped, ConstantsTyped
  <2> QED
    BY <2>1, <2>2, <1>9
<1>12. CASE Resync
  <2> DEFINE again == [frames EXCEPT ![Len(frames)].attempt = @ + 1]
  <2>1. /\ at = "wire" /\ Top.attempt < LastAttempt /\ Top.kind \in Signed
        /\ frames' = Append(again, TimeRequest)
        /\ at' = "enter" /\ UNCHANGED <<timers, fixed>>
    BY <1>12 DEF Resync, TimeRequest
  <2>2. /\ again \in Seq(Requests) /\ Len(again) = Len(frames)
        /\ again[1].kind = frames[1].kind
    BY <2>1, <1>1, Again
  <2> HIDE DEF again
  <2>3. Shape
    BY <2>1, <2>2, <1>2, <1>3, OnTop DEF Shape
  <2>4. Times
    BY <2>1, <1>4 DEF timers
  <2> QED
    BY <2>1, <2>3, <2>4, <1>5
<1>13. CASE Synchronized
  <2>1. /\ at = "wire" /\ Top.kind = "time"
        /\ frames' = SubSeq(frames, 1, Len(frames) - 1)
        /\ at' = "send" /\ age' = 0 /\ UNCHANGED <<quiet, nap, fixed>>
    BY <1>13 DEF Synchronized
  <2>2. Len(frames) = 2
    BY <2>1, <1>2, KindsTyped
  <2>3. frames' = SubSeq(frames, 1, 1) /\ frames[1] \in Requests
    BY <2>1, <2>2, <1>1, UnderWay
  <2>4. frames' \in Seq(Requests) /\ Len(frames') = 1 /\ frames'[1] = frames[1]
    <3>1. \A i \in 1 .. 1 : frames[i] \in Requests
      BY <2>3
    <3>2. /\ SubSeq(frames, 1, 1) \in Seq(Requests)
          /\ Len(SubSeq(frames, 1, 1)) = IF 1 <= 1 THEN 1 - 1 + 1 ELSE 0
          /\ \A i \in 1 .. 1 - 1 + 1 : SubSeq(frames, 1, 1)[i] = frames[1 + i - 1]
      BY <3>1, SubSeqProperties
    <3> QED
      BY <3>2, <2>3
  <2>5. Shape
    BY <2>4, <1>2, NoFrames, OneOrTwo, Zenon DEF Shape
  <2>6. Times
    BY <2>1, <1>4, ConstantsTyped DEF TooOld
  <2> QED
    BY <2>1, <2>5, <2>6, <1>5
<1>14. CASE Tick
  <2>1. /\ frames' = frames /\ at' = at /\ UNCHANGED fixed
        /\ age' = (IF age = TooOld THEN TooOld ELSE age + 1)
        /\ quiet' = CountDown(quiet) /\ nap' = CountDown(nap)
    BY <1>14 DEF Tick, request
  <2>2. age' \in 0 .. TooOld
    BY <2>1, <1>4, ConstantsTyped DEF TooOld
  <2>3. nap' \in 0 .. ShortWait /\ quiet' \in Nat /\ quiet' <= quiet
    BY <2>1, <1>4, ConstantsTyped DEF CountDown
  <2>4. \E wait \in Waits \cup {Backoff} : quiet' <= wait
    <3>1. PICK wait \in Waits \cup {Backoff} : quiet <= wait
      BY <1>4
    <3>2. wait \in Nat
      BY ConstantsTyped
    <3> QED
      BY <3>1, <3>2, <2>3, <1>4
  <2>5. at = "nap" => quiet' <= nap'
    BY <2>1, <1>4, ConstantsTyped DEF CountDown
  <2>6. at \in {"send", "wire"} => quiet' = 0
    BY <2>1, <1>4 DEF CountDown
  <2>7. at \in {"enter", "send", "wire", "nap"}
    BY <1>1 DEF RequestOK, AdapterTypeOK
  <2>8. Times
    BY <2>1, <2>2, <2>3, <2>4, <2>5, <2>6, <2>7
  <2> QED
    BY <2>1, <2>8, <1>5, <1>6
<1> QED
  BY <1>7, <1>8, <1>10, <1>11, <1>12, <1>13, <1>14 DEF Proceed

----------------------------------------------------------------------------
(* The steps, by what they do *)

RequestSteps == Inner \/ SendRead \/ Post \/ Clock

\* Steps that end in the next request of the process, or in its next point.
GoingSteps ==
    \/ NoneOpen \/ Before \/ Quoted \/ Sized \/ Claim \/ Posted \/ Found \/ FillsRead
    \/ ResumeFound \/ NextResolved \/ BeginResume \/ (\E r \in Runs : Begin(r))

\* Steps with which the process ends.
LeavingSteps ==
    \/ NotReconciled \/ Compare \/ Refused \/ ReadRaises
    \/ ResumeRefused \/ ResumeRaises \/ Lift \/ Crash

\* Steps that leave the process alone.
OutsideSteps ==
    \/ (\E r \in Runs : BeginStopped(r))
    \/ Stop \/ External \/ (\E i \in Ids : Execute(i))

LEMMA StepKinds ==
    Next <=> RequestSteps \/ GoingSteps \/ LeavingSteps \/ PostRaises \/ OutsideSteps
  BY DEF Next, Process, Execution, Resumption, RequestSteps, GoingSteps, LeavingSteps,
         OutsideSteps

----------------------------------------------------------------------------
(* Types of the rest *)

StopOK ==
    /\ killed \in BOOLEAN
    /\ reason \in StopCodes \cup {"none", "manual"}
    /\ killed <=> reason # "none"
    /\ origin \in StopCodes \cup {"none"}

LocalsOK ==
    /\ state \in Rows
    /\ run \in Runs \cup {None} /\ leg \in Sides
    /\ price \in Prices \cup {0} /\ qty \in Nat /\ todo \subseteq Ids

BooksOK ==
    /\ saved \in [Runs -> Rows]
    /\ journal \in [Ids -> Nat] /\ posts \in [Ids -> Nat]
    /\ ex \in [Ids -> {"absent", "sent"} \cup Executed]
    /\ fill \in [Ids -> [qty : Nat, quote : Nat, fee : Nat]]
    /\ funds \in Money
    /\ external \in 0 .. MaxExternal

LEMMA TypeParts == TypeOK /\ RequestInv <=> RequestOK /\ StopOK /\ LocalsOK /\ BooksOK
  BY DEF TypeOK, RequestOK, StopOK, LocalsOK, BooksOK, AdapterTypeOK

LEMMA TripTyped ==
    ASSUME StopOK, NEW code \in StopCodes \cup {"none"}, NEW cause \in StopCodes \cup {"none"},
           TripsFor(code, cause)
    PROVE  StopOK'
<1>1. StopCodes = {"auth", "fault"}
  BY DEF StopCodes
<1>2. CASE armed /\ code # "none"
  BY <1>1, <1>2 DEF TripsFor, StopOK
<1>3. CASE ~(armed /\ code # "none")
  BY <1>3 DEF TripsFor, StopOK, stop
<1> QED
  BY <1>2, <1>3

LEMMA StopInit == Init => StopOK
  BY DEF Init, StopOK, StopCodes

LEMMA StopTyped ==
    ASSUME StopOK, Next PROVE StopOK'
<1>1. UNCHANGED stop => StopOK'
  BY DEF StopOK, stop
<1>2. CASE RequestSteps
  BY <1>1, <1>2 DEF RequestSteps, Inner, Proceed, Synchronize, Enter, RetryLost, RetryLimited,
         Retry, WakeUp, Resync, Synchronized, SendRead, Post, Send, Clock, Tick, fixed, stop
<1>3. CASE FillsRead
  <2>1. PICK complete \in BOOLEAN : Reconciled(complete)
    BY <1>3 DEF FillsRead
  <2> QED
    BY <2>1, TripTyped DEF Reconciled, Trips, StopCodes
<1>4. CASE GoingSteps /\ ~FillsRead
  BY <1>1, <1>4 DEF GoingSteps, NoneOpen, Before, Quoted, Sized, Claim, Posted, Found,
         ResumeFound, NextResolved, BeginResume, Begin, fixed, stop
<1>5. CASE NotReconciled
  <2>1. PICK complete \in BOOLEAN : Trips(IF complete THEN "none" ELSE "fault")
    BY <1>5 DEF NotReconciled
  <2> QED
    BY <2>1, TripTyped DEF Trips, StopCodes
<1>6. CASE ReadRaises
  <2>1. PICK code \in StopCodes \cup {"none"} :
            TripsFor(IF pc \in Queries THEN "fault" ELSE code, code)
    BY <1>6 DEF ReadRaises
  <2>2. (IF pc \in Queries THEN "fault" ELSE code) \in StopCodes \cup {"none"}
    BY DEF StopCodes
  <2> QED
    BY <2>1, <2>2, TripTyped
<1>7. CASE Compare \/ Refused \/ ResumeRefused \/ ResumeRaises \/ Crash
  BY <1>1, <1>7 DEF Compare, Refused, ResumeRefused, ResumeRaises, Crash
<1>8. CASE Lift
  BY <1>1, <1>8 DEF Lift, StopOK
<1>9. CASE PostRaises
  <2>1. PICK code \in StopCodes \cup {"none"} : Trips(code)
    BY <1>9 DEF PostRaises
  <2> QED
    BY <2>1, TripTyped DEF Trips
<1>10. CASE Stop
  BY <1>10 DEF Stop, StopOK, StopCodes
<1>11. CASE OutsideSteps /\ ~Stop
  BY <1>1, <1>11 DEF OutsideSteps, BeginStopped, External, Execute, fixed, stop
<1> QED
  BY <1>2, <1>3, <1>4, <1>5, <1>6, <1>7, <1>8, <1>9, <1>10, <1>11, StepKinds
     DEF LeavingSteps

\* The types of the request, in every step.
LEMMA RequestTyped ==
    ASSUME RequestOK, StopOK', Next PROVE RequestOK'
<1>1. killed' \in BOOLEAN
  BY DEF StopOK
<1>2. CASE RequestSteps
  BY <1>2, InnerKeepsRequest DEF RequestSteps, Inner, SendRead, Post, Clock
<1>3. CASE GoingSteps
  <2>1. armed' \in BOOLEAN
    BY <1>3 DEF GoingSteps, NoneOpen, Before, Quoted, Sized, Claim, Posted, Found, FillsRead,
           Reconciled, ResumeFound, NextResolved, BeginResume, Begin, fixed, RequestOK,
           AdapterTypeOK
  <2>2. UNCHANGED timers
    BY <1>3 DEF GoingSteps, NoneOpen, Before, Quoted, Sized, Claim, Posted, Found, FillsRead,
           Reconciled, ResumeFound, NextResolved, BeginResume, Begin
  <2>3. (\E p \in Calls : Goto(p)) \/ (NoCall /\ pc' \in {"claim", "lift"})
    <3>1. CASE NoneOpen \/ Quoted \/ Posted \/ ResumeFound \/ BeginResume
      BY <3>1, CallsAre DEF NoneOpen, Quoted, Posted, ResumeFound, BeginResume
    <3>2. CASE Before \/ \E r \in Runs : Begin(r)
      BY <3>2, CallsAre DEF Before, Begin, BeginLeg
    <3>3. CASE Sized
      BY <3>3 DEF Sized
    <3>4. CASE Claim \/ Found
      BY <3>4, CallsAre DEF Claim, Found
    <3>5. CASE FillsRead
      BY <3>5, CallsAre DEF FillsRead, Reconciled, BeginLeg
    <3>6. CASE NextResolved
      BY <3>6, CallsAre DEF NextResolved, Examine
    <3> QED
      BY <1>3, <3>1, <3>2, <3>3, <3>4, <3>5, <3>6 DEF GoingSteps
  <2>4. Turn
    BY <1>1, <2>1, <2>2, <2>3 DEF Turn, timers, Limits
  <2> QED
    BY <2>4, TurnKeepsRequest
<1>4. CASE LeavingSteps
  <2>1. Leave
    BY <1>4 DEF LeavingSteps, NotReconciled, Compare, Refused, ReadRaises, ResumeRefused,
           ResumeRaises, Lift, Crash, Block
  <2> QED
    BY <1>1, <2>1, TurnKeepsRequest DEF Turn
<1>5. CASE PostRaises
  <2>1. Leave \/ (Goto("order1") /\ quiet' \in Limits /\ UNCHANGED <<age, nap, armed>>)
    BY <1>5 DEF PostRaises, Block
  <2>2. armed \in BOOLEAN
    BY DEF RequestOK, AdapterTypeOK
  <2> QED
    BY <1>1, <2>1, <2>2, CallsAre, TurnKeepsRequest DEF Turn
<1>6. CASE OutsideSteps
  BY <1>1, <1>6, TurnKeepsRequest
     DEF OutsideSteps, BeginStopped, Stop, External, Execute, Turn, fixed
<1> QED
  BY <1>2, <1>3, <1>4, <1>5, <1>6, StepKinds

----------------------------------------------------------------------------
(* The steps that write a row, claim an id, or move an order               *)

\* A run is stopped by main's handler.
Blocked ==
    /\ pc \in Executing /\ Block
    /\ UNCHANGED <<exchange, external>>

\* It is stopped because its order was refused.
RefusedPost ==
    /\ pc = "post" /\ Block
    /\ ex[Id] \in {"absent", "sent"} /\ ex' = [ex EXCEPT ![Id] = "absent"]
    /\ UNCHANGED <<fill, funds, posts, external>>

Claiming == Claim /\ journal[Id] = 0

BookSteps ==
    \/ (\E r \in Runs : BeginStopped(r))
    \/ Before \/ Compare \/ Blocked \/ RefusedPost
    \/ Claiming \/ Post \/ External \/ (\E i \in Ids : Execute(i))

Untouched == UNCHANGED <<durable, exchange, external>>

LEMMA BookKinds ==
    ASSUME RequestOK, Next PROVE Untouched \/ BookSteps
<1>1. CASE Inner \/ SendRead \/ Clock
  BY <1>1 DEF Inner, SendRead, Clock, Untouched
<1>2. CASE GoingSteps /\ ~(Before \/ Claiming)
  BY <1>2 DEF GoingSteps, NoneOpen, Quoted, Sized, Claim, Claiming, Posted, Found, FillsRead,
         Reconciled, ResumeFound, NextResolved, BeginResume, Begin, Quietly, Untouched, durable
<1>3. CASE NotReconciled
  <2>1. pc \in {"order2", "fills2"} /\ Block /\ UNCHANGED <<exchange, external>>
    BY <1>3 DEF NotReconciled
  <2> QED
    BY <2>1 DEF Blocked, Executing, Ordering, Queries, BookSteps
<1>4. CASE Refused
  <2>1. pc \in {"open", "quote", "free", "claim"} /\ Block /\ UNCHANGED <<exchange, external>>
    BY <1>4 DEF Refused
  <2> QED
    BY <2>1 DEF Blocked, Executing, Ordering, Queries, BookSteps
<1>5. CASE ReadRaises
  <2>1. pc \in Reads \cup Queries /\ Block /\ UNCHANGED <<exchange, external>>
    BY <1>5 DEF ReadRaises
  <2> QED
    BY <2>1 DEF Blocked, Executing, Ordering, Queries, Reads, BookSteps
<1>6. CASE ResumeRefused \/ ResumeRaises \/ Lift \/ Crash
  BY <1>6 DEF ResumeRefused, ResumeRaises, Lift, Crash, Quietly, Untouched
<1>7. CASE PostRaises
  BY <1>7 DEF PostRaises, RefusedPost, BookSteps, Untouched, exchange
<1>8. CASE Stop
  BY <1>8 DEF Stop, Untouched
<1> QED
  BY <1>1, <1>2, <1>3, <1>4, <1>5, <1>6, <1>7, <1>8, StepKinds
     DEF RequestSteps, GoingSteps, LeavingSteps, OutsideSteps, BookSteps

----------------------------------------------------------------------------
(* Types of the rows and of the orders *)

LEMMA RowsTyped ==
    ASSUME NEW m \in Rows
    PROVE  /\ [m EXCEPT !.status = "BLOCKED"] \in Rows
           /\ [m EXCEPT !.status = "BLOCKED"].status = "BLOCKED"
           /\ [m EXCEPT !.status = "BLOCKED"].before = m.before
           /\ \A b \in Money : /\ [m EXCEPT !.before = b] \in Rows
                               /\ [m EXCEPT !.before = b].status = m.status
                               /\ [m EXCEPT !.before = b].before = b
  BY DEF Rows

\* The row that says how a run ended.
LEMMA EndTyped ==
    ASSUME NEW m \in Rows, NEW a \in Money, NEW s \in {"PASS", "FAIL"}
    PROVE  /\ [m EXCEPT !.after = a, !.status = s] \in Rows
           /\ [m EXCEPT !.after = a, !.status = s].status = s
           /\ [m EXCEPT !.after = a, !.status = s].before = m.before
           /\ [m EXCEPT !.after = a, !.status = s].after = a
  BY DEF Rows

LEMMA NoRowTyped ==
    /\ NoRow \in Rows /\ NoRow.status = "NONE" /\ NoRow.before = None
    /\ [NoRow EXCEPT !.status = "STARTED"] \in Rows
    /\ [NoRow EXCEPT !.status = "STARTED"].status = "STARTED"
    /\ [NoRow EXCEPT !.status = "STARTED"].before = None
  BY DEF NoRow, Rows

LEMMA EffectTyped ==
    ASSUME NEW i \in Ids, fill[i] \in [qty : Nat, quote : Nat, fee : Nat]
    PROVE  /\ Effect(i).btc \in Int /\ Effect(i).usdt \in Int
           /\ i[2] = "BUY" => /\ Effect(i).btc = fill[i].qty - fill[i].fee
                              /\ Effect(i).usdt = -fill[i].quote
           /\ i[2] # "BUY" => /\ Effect(i).btc = -fill[i].qty
                              /\ Effect(i).usdt = fill[i].quote - fill[i].fee
  BY DEF Effect

LEMMA ProductTyped == \A m, n \in Nat : m * n \in Nat
  OBVIOUS

\* What an execution does, in one place.
LEMMA ExecutionMoves ==
    ASSUME BooksOK, NEW i \in Ids, Execute(i)
    PROVE  \E f \in [qty : Nat, quote : Nat, fee : Nat], s \in Executed :
             /\ ex[i] = "sent"
             /\ f.qty <= journal[i] /\ (s = "filled" => f.qty = journal[i])
             /\ i[2] = "BUY" => f.fee <= f.qty
             /\ fill' = [fill EXCEPT ![i] = f]
             /\ ex' = [ex EXCEPT ![i] = s]
             /\ funds' \in Money
             /\ i[2] = "BUY" => funds'.btc = funds.btc + f.qty - f.fee
             /\ i[2] # "BUY" => funds'.btc = funds.btc - f.qty
<1>1. PICK n \in 0 .. journal[i], p \in Prices, fee \in Fees :
        /\ n # 0 => fee <= (IF i[2] = "BUY" THEN n ELSE n * p)
        /\ fill' = [fill EXCEPT ![i] = IF n = 0 THEN NoFill
                                        ELSE [qty |-> n, quote |-> n * p, fee |-> fee]]
        /\ ex' = [ex EXCEPT ![i] = IF n = journal[i] THEN "filled" ELSE "partial"]
        /\ LET m == Effect(i)'
           IN  funds' = [usdt |-> funds.usdt + m.usdt, btc |-> funds.btc + m.btc]
        /\ funds'.usdt >= 0 /\ funds'.btc >= 0
  BY DEF Execute
<1> DEFINE f == IF n = 0 THEN NoFill ELSE [qty |-> n, quote |-> n * p, fee |-> fee]
<1>2. n \in Nat /\ p \in Nat /\ fee \in Nat /\ n * p \in Nat
  BY ConstantsTyped, ProductTyped DEF BooksOK
<1>3. f \in [qty : Nat, quote : Nat, fee : Nat] /\ f.qty = n
  BY <1>2 DEF NoFill
<1>4. i[2] = "BUY" => f.fee <= f.qty
  BY <1>1, <1>2 DEF NoFill
<1>5. fill' = [fill EXCEPT ![i] = f] /\ fill'[i] = f
  BY <1>1 DEF BooksOK
<1>6. f.fee \in Nat /\ f.quote \in Nat /\ f.qty \in Nat
  BY <1>3
<1> HIDE DEF f
<1>7. /\ Effect(i)'.btc = (IF i[2] = "BUY" THEN f.qty - f.fee ELSE -f.qty)
      /\ Effect(i)'.usdt = (IF i[2] = "BUY" THEN -f.quote ELSE f.quote - f.fee)
  BY <1>5 DEF Effect
<1>8. funds.usdt \in Int /\ funds.btc \in Int
  BY DEF BooksOK, Money
<1>9. /\ funds' = [usdt |-> funds.usdt + Effect(i)'.usdt, btc |-> funds.btc + Effect(i)'.btc]
      /\ funds'.usdt >= 0 /\ funds'.btc >= 0
  BY <1>1
<1>10. /\ funds' \in Money
       /\ i[2] = "BUY" => funds'.btc = funds.btc + f.qty - f.fee
       /\ i[2] # "BUY" => funds'.btc = funds.btc - f.qty
  BY <1>6, <1>7, <1>8, <1>9 DEF Money
<1>11. ex[i] = "sent"
  BY DEF Execute
<1> DEFINE s == IF n = journal[i] THEN "filled" ELSE "partial"
<1>12. s \in Executed /\ (s = "filled" => n = journal[i]) /\ ex' = [ex EXCEPT ![i] = s]
  BY <1>1 DEF Executed
<1>13. n <= journal[i]
  BY DEF BooksOK
<1> HIDE DEF s
<1> QED
  BY <1>3, <1>4, <1>5, <1>10, <1>11, <1>12, <1>13

LEMMA BooksInit == Init => BooksOK
  BY ConstantsTyped, NoRowTyped DEF Init, BooksOK, Money, NoFill

LEMMA BooksTyped ==
    ASSUME RequestOK, LocalsOK, BooksOK, Next PROVE BooksOK'
<1>1. CASE Untouched
  BY <1>1 DEF BooksOK, Untouched, durable, exchange
<1> DEFINE Others == UNCHANGED <<journal, exchange, external>>
<1>2. ASSUME NEW r, NEW row \in Rows, saved' = [saved EXCEPT ![r] = row], Others
      PROVE  BooksOK'
  BY <1>2 DEF BooksOK, exchange
<1>3. CASE \E r \in Runs : BeginStopped(r)
  <2>1. PICK r \in Runs : BeginStopped(r)
    BY <1>3
  <2>2. saved[r] \in Rows
    BY DEF BooksOK
  <2>3. saved' = [saved EXCEPT ![r] = [saved[r] EXCEPT !.status = "BLOCKED"]]
    BY <2>1 DEF BeginStopped
  <2>4. [saved[r] EXCEPT !.status = "BLOCKED"] \in Rows
    BY <2>2, RowsTyped
  <2>5. Others
    BY <2>1 DEF BeginStopped
  <2> QED
    BY <2>3, <2>4, <2>5, <1>2
<1>4. CASE Before
  <2>1. funds \in Money /\ state \in Rows
    BY DEF BooksOK, LocalsOK
  <2>2. saved' = [saved EXCEPT ![run] = [state EXCEPT !.before = funds]]
    BY <1>4 DEF Before
  <2>3. [state EXCEPT !.before = funds] \in Rows
    BY <2>1, RowsTyped
  <2> QED
    BY <1>4, <2>2, <2>3, <1>2 DEF Before, Quietly
<1>5. CASE Compare
  <2>1. funds \in Money /\ state \in Rows
    BY DEF BooksOK, LocalsOK
  <2> DEFINE s == IF Explained(state.before, funds) THEN "PASS" ELSE "FAIL"
  <2>2. saved' = [saved EXCEPT ![run] = [state EXCEPT !.after = funds, !.status = s]]
    BY <1>5 DEF Compare
  <2>3. s \in {"PASS", "FAIL"}
    OBVIOUS
  <2> HIDE DEF s
  <2>4. [state EXCEPT !.after = funds, !.status = s] \in Rows
    BY <2>1, <2>3, EndTyped
  <2> QED
    BY <1>5, <2>2, <2>4, <1>2 DEF Compare, Quietly
<1>6. CASE Blocked
  <2>1. saved' = [saved EXCEPT ![run] = [state EXCEPT !.status = "BLOCKED"]] /\ Others
    BY <1>6 DEF Blocked, Block
  <2>2. [state EXCEPT !.status = "BLOCKED"] \in Rows
    BY RowsTyped DEF LocalsOK
  <2> QED
    BY <2>1, <2>2, <1>2
<1>7. CASE RefusedPost
  <2>1. saved' = [saved EXCEPT ![run] = [state EXCEPT !.status = "BLOCKED"]]
        /\ UNCHANGED journal
    BY <1>7 DEF RefusedPost, Block
  <2>2. [state EXCEPT !.status = "BLOCKED"] \in Rows
    BY RowsTyped DEF LocalsOK
  <2> QED
    BY <2>1, <2>2, <1>7 DEF RefusedPost, BooksOK
<1>8. CASE Claiming
  <2>1. journal' = [journal EXCEPT ![Id] = qty] /\ UNCHANGED <<saved, exchange, external>>
    BY <1>8 DEF Claiming, Claim, Quietly
  <2> QED
    BY <2>1 DEF BooksOK, LocalsOK, exchange
<1>9. CASE Post
  <2>1. /\ posts' = [posts EXCEPT ![Id] = @ + 1]
        /\ ex' = [ex EXCEPT ![Id] = "sent"]
        /\ UNCHANGED <<saved, journal, fill, funds, external>>
    BY <1>9 DEF Post, durable
  <2>2. posts' \in [Ids -> Nat]
    <3>1. CASE Id \in Ids
      BY <2>1, <3>1 DEF BooksOK
    <3>2. CASE Id \notin Ids
      BY <2>1, <3>2 DEF BooksOK
    <3> QED
      BY <3>1, <3>2
  <2> QED
    BY <2>1, <2>2 DEF BooksOK
<1>10. CASE External
  <2>1. /\ external < MaxExternal /\ external' = external + 1
        /\ funds' = [funds EXCEPT !.usdt = @ + 1]
        /\ UNCHANGED <<durable, ex, fill, posts>>
    BY <1>10 DEF External
  <2> QED
    BY <2>1, ConstantsTyped DEF BooksOK, Money, durable
<1>11. CASE \E i \in Ids : Execute(i)
  <2>1. PICK i \in Ids : Execute(i)
    BY <1>11
  <2>2. UNCHANGED <<durable, posts, external>>
    BY <2>1 DEF Execute
  <2>3. PICK f \in [qty : Nat, quote : Nat, fee : Nat], s \in Executed :
          fill' = [fill EXCEPT ![i] = f] /\ ex' = [ex EXCEPT ![i] = s] /\ funds' \in Money
    BY <2>1, ExecutionMoves
  <2> QED
    BY <2>2, <2>3 DEF BooksOK, durable
<1> QED
  BY <1>1, <1>3, <1>4, <1>5, <1>6, <1>7, <1>8, <1>9, <1>10, <1>11, BookKinds DEF BookSteps

----------------------------------------------------------------------------
(* Types of what the process holds *)

LEMMA Typed ==
    ASSUME Inductive
    PROVE  RequestOK /\ StopOK /\ LocalsOK /\ BooksOK
  BY TypeParts DEF Inductive

LEMMA IdsAre ==
    ASSUME NEW r \in Runs
    PROVE  /\ <<r, "BUY">> \in Ids /\ <<r, "SELL">> \in Ids
           /\ <<r, "BUY">>[1] = r /\ <<r, "SELL">>[1] = r
           /\ <<r, "BUY">>[2] = "BUY" /\ <<r, "SELL">>[2] = "SELL"
           /\ <<r, "BUY">> # <<r, "SELL">>
  BY DEF Ids, Sides

\* What a purchase has brought, and what a sale takes.
LEMMA EffectsAre ==
    ASSUME BooksOK, \A i \in Ids : OrderInv(i), NEW r \in Runs
    PROVE  /\ Effect(<<r, "BUY">>).btc = fill[<<r, "BUY">>].qty - fill[<<r, "BUY">>].fee
           /\ Effect(<<r, "BUY">>).btc \in Nat
           /\ Effect(<<r, "SELL">>).btc = -fill[<<r, "SELL">>].qty
           /\ fill[<<r, "SELL">>].qty \in Nat /\ fill[<<r, "BUY">>].qty \in Nat
<1>1. <<r, "BUY">> \in Ids /\ <<r, "SELL">> \in Ids
  BY IdsAre
<1>2. /\ fill[<<r, "BUY">>] \in [qty : Nat, quote : Nat, fee : Nat]
      /\ fill[<<r, "SELL">>] \in [qty : Nat, quote : Nat, fee : Nat]
  BY <1>1 DEF BooksOK
<1>3. fill[<<r, "BUY">>].fee <= fill[<<r, "BUY">>].qty
  BY <1>1, IdsAre DEF OrderInv
<1> QED
  BY <1>1, <1>2, <1>3, EffectTyped, IdsAre

\* market_quantity: no more is sold than the purchase has left.
LEMMA SizeTyped ==
    ASSUME Inductive, pc = "free"
    PROVE  /\ Size(funds) \in Nat
           /\ leg = "SELL" => Size(funds) <= Effect(<<run, "BUY">>).btc
<1>1. run \in Runs /\ price \in Prices /\ leg \in Sides
  BY Typed DEF Inductive, RunInv, LegInv, SizeInv, Executing, Ordering, LocalsOK
<1>2. Effect(<<run, "BUY">>).btc \in Nat /\ funds.btc \in Nat
  BY <1>1, Typed, EffectsAre DEF Inductive, BooksOK, Money
<1>3. CASE leg = "BUY"
  <2>1. Spend \div price \in Nat
    BY <1>1, ConstantsTyped
  <2> QED
    BY <2>1, <1>3, RoundedIsLess DEF Size
<1>4. CASE leg # "BUY"
  <2> DEFINE b == Effect(<<run, "BUY">>).btc
  <2> DEFINE m == Min({b, funds.btc})
  <2>1. m \in Nat /\ m <= b
    BY <1>2, MinOfTwo
  <2>2. Size(funds) = Rounded(m)
    BY <1>4 DEF Size
  <2>3. b \in Nat
    BY <1>2
  <2> HIDE DEF m, b
  <2>4. Rounded(m) \in Nat /\ Rounded(m) <= m
    BY <2>1, RoundedIsLess
  <2>5. Size(funds) \in Nat /\ Size(funds) <= b
    BY <2>1, <2>2, <2>3, <2>4
  <2> QED
    BY <2>5 DEF b
<1> QED
  BY <1>3, <1>4

LEMMA LocalsInit == Init => LocalsOK
  BY NoRowTyped DEF Init, LocalsOK, Sides

LEMMA LocalsTyped ==
    ASSUME Inductive, Next PROVE LocalsOK'
<1>1. LocalsOK /\ BooksOK
  BY Typed
<1>2. UNCHANGED locals => LocalsOK'
  BY <1>1 DEF LocalsOK, locals
<1>3. Leave => LocalsOK'
  BY NoRowTyped DEF Leave, LocalsOK, Sides
<1>4. CASE RequestSteps
  BY <1>2, <1>4 DEF RequestSteps, Inner, SendRead, Post, Clock
<1>5. CASE OutsideSteps
  BY <1>2, <1>5 DEF OutsideSteps, BeginStopped, Stop, External, Execute
<1>6. CASE LeavingSteps
  BY <1>3, <1>6 DEF LeavingSteps, NotReconciled, Compare, Refused, ReadRaises, ResumeRefused,
         ResumeRaises, Lift, Crash, Block
<1>7. CASE PostRaises
  BY <1>2, <1>3, <1>7 DEF PostRaises, Block
<1>8. CASE NoneOpen \/ Found \/ Posted \/ Claim \/ ResumeFound
  BY <1>2, <1>8 DEF NoneOpen, Found, Posted, Claim, ResumeFound
<1>9. CASE Before
  <2>1. state' = [state EXCEPT !.before = funds] /\ leg' = "BUY"
        /\ UNCHANGED <<run, price, qty, todo>>
    BY <1>9 DEF Before, BeginLeg
  <2>2. [state EXCEPT !.before = funds] \in Rows
    BY <1>1, RowsTyped DEF LocalsOK, BooksOK
  <2> QED
    BY <1>1, <2>1, <2>2 DEF LocalsOK, Sides
<1>10. CASE Quoted
  BY <1>1, <1>10 DEF Quoted, LocalsOK
<1>11. CASE Sized
  <2>1. pc = "free" /\ qty' = Size(funds) /\ UNCHANGED <<run, leg, state, price, todo>>
    BY <1>11 DEF Sized
  <2> QED
    BY <1>1, <2>1, SizeTyped DEF LocalsOK
<1>12. CASE FillsRead
  <2>1. (UNCHANGED leg \/ leg' = "SELL") /\ UNCHANGED <<run, state, price, qty, todo>>
    BY <1>12 DEF FillsRead, Reconciled, BeginLeg
  <2> QED
    BY <1>1, <2>1 DEF LocalsOK, Sides
<1>13. CASE NextResolved
  <2>1. UNCHANGED <<state, price, qty>> /\ Examine(todo)
    BY <1>13 DEF NextResolved
  <2>2. \/ UNCHANGED <<run, leg, todo>>
        \/ \E i \in todo : run' = i[1] /\ leg' = i[2] /\ todo' = todo \ {i}
    BY <2>1 DEF Examine
  <2>3. \A i \in todo : i[1] \in Runs /\ i[2] \in Sides
    BY <1>1 DEF LocalsOK, Ids
  <2> QED
    BY <1>1, <2>1, <2>2, <2>3 DEF LocalsOK
<1>14. CASE BeginResume
  BY <1>1, <1>14 DEF BeginResume, LocalsOK, Submitted
<1>15. CASE \E r \in Runs : Begin(r)
  <2>1. PICK r \in Runs : Begin(r)
    BY <1>15
  <2>2. /\ run' = r /\ (UNCHANGED leg \/ leg' = "BUY")
        /\ state' = [NoRow EXCEPT !.status = "STARTED"] \/ state' = saved[r]
        /\ UNCHANGED <<price, qty, todo>>
    BY <2>1 DEF Begin, BeginLeg
  <2>3. saved[r] \in Rows
    BY <1>1 DEF BooksOK
  <2> QED
    BY <1>1, <2>2, <2>3, NoRowTyped DEF LocalsOK, Sides
<1> QED
  BY <1>4, <1>5, <1>6, <1>7, <1>8, <1>9, <1>10, <1>11, <1>12, <1>13, <1>14, <1>15, StepKinds
     DEF GoingSteps

LEMMA AllTyped ==
    ASSUME Inductive, Next
    PROVE  RequestOK' /\ StopOK' /\ LocalsOK' /\ BooksOK'
  BY Typed, RequestTyped, StopTyped, LocalsTyped, BooksTyped

----------------------------------------------------------------------------
(* Orders *)

LEMMA RunTyped ==
    ASSUME Inductive, pc \in Executing
    PROVE  run \in Runs /\ leg \in Sides /\ Id \in Ids /\ Id[1] = run /\ Id[2] = leg
<1>1. run \in Runs /\ leg \in Sides
  BY Typed DEF Inductive, RunInv, LocalsOK
<1> QED
  BY <1>1 DEF Id, Ids

\* What has executed was posted once.
LEMMA PostedOnce ==
    ASSUME Inductive, NEW i \in Ids, ex[i] \in Executed
    PROVE  posts[i] = 1
<1>1. OrderInv(i) /\ posts[i] \in Nat
  BY Typed DEF Inductive, BooksOK
<1>2. posts[i] # 0
  BY <1>1 DEF OrderInv, Executed
<1> QED
  BY <1>1, <1>2 DEF OrderInv

\* A step that neither claims nor moves an order keeps its books.
LEMMA OrderStays ==
    ASSUME NEW i \in Ids, OrderInv(i),
           posts'[i] = posts[i], journal'[i] = journal[i], ex'[i] = ex[i], fill'[i] = fill[i]
    PROVE  OrderInv(i)'
  BY DEF OrderInv

LEMMA OrdersKept ==
    ASSUME Inductive, Next PROVE \A i \in Ids : OrderInv(i)'
<1> SUFFICES ASSUME NEW i \in Ids PROVE OrderInv(i)'
  OBVIOUS
<1>1. OrderInv(i) /\ BooksOK /\ LocalsOK /\ RunInv /\ LegInv /\ SizeInv
  BY Typed DEF Inductive
<1>2. posts[i] \in Nat /\ journal[i] \in Nat /\ fill[i] \in [qty : Nat, quote : Nat, fee : Nat]
      /\ ex[i] \in {"absent", "sent", "filled", "partial"}
  BY <1>1 DEF BooksOK, Executed
<1>3. NoFill.qty = 0 /\ NoFill.fee = 0
  BY DEF NoFill
<1>4. CASE UNCHANGED <<journal, posts, ex, fill>>
  BY <1>1, <1>4, OrderStays
<1>5. CASE Untouched \/ (\E r \in Runs : BeginStopped(r)) \/ Before \/ Compare \/ Blocked
           \/ External
  BY <1>4, <1>5 DEF Untouched, durable, exchange, BeginStopped, Before, Compare, Quietly,
         Blocked, Block, External
<1>6. CASE RefusedPost
  <2>1. /\ ex' = [ex EXCEPT ![Id] = "absent"] /\ ex[Id] \in {"absent", "sent"}
        /\ UNCHANGED <<journal, posts, fill>>
    BY <1>6 DEF RefusedPost, Block
  <2>2. CASE i = Id
    BY <2>1, <2>2, <1>1, <1>2, <1>3 DEF OrderInv, BooksOK, Executed
  <2>3. CASE i # Id
    BY <2>1, <2>3, <1>1, OrderStays DEF BooksOK
  <2> QED
    BY <2>2, <2>3
<1>7. CASE Claiming
  <2>1. /\ journal' = [journal EXCEPT ![Id] = qty] /\ journal[Id] = 0
        /\ qty > 0 /\ qty \in Nat
        /\ UNCHANGED <<posts, ex, fill>>
    BY <1>1, <1>7 DEF Claiming, Claim, Quietly, exchange, SizeInv, LocalsOK
  <2>2. CASE i = Id
    <3>1. posts[i] = 0 /\ ex[i] = "absent" /\ fill[i] = NoFill
      BY <2>1, <2>2, <1>1, <1>2 DEF OrderInv, Executed
    <3>2. journal'[i] = qty
      BY <2>1, <2>2, <1>1 DEF BooksOK
    <3> QED
      BY <2>1, <3>1, <3>2, <1>3 DEF OrderInv, Executed
  <2>3. CASE i # Id
    BY <2>1, <2>3, <1>1, OrderStays DEF BooksOK
  <2> QED
    BY <2>2, <2>3
<1>8. CASE Post
  <2>1. /\ posts' = [posts EXCEPT ![Id] = @ + 1] /\ ex' = [ex EXCEPT ![Id] = "sent"]
        /\ UNCHANGED <<journal, fill>> /\ pc = "post" /\ at = "send"
    BY <1>8 DEF Post, Send, durable
  <2>2. posts[Id] = 0 /\ journal[Id] # 0
    BY <2>1, <1>1 DEF SizeInv
  <2>3. CASE i = Id
    <3>1. posts'[i] = 1 /\ ex'[i] = "sent" /\ fill[i] = NoFill /\ journal[i] # 0
      BY <2>1, <2>2, <2>3, <1>1 DEF OrderInv, BooksOK, Executed
    <3> QED
      BY <2>1, <3>1, <1>2, <1>3 DEF OrderInv, Executed
  <2>4. CASE i # Id
    BY <2>1, <2>4, <1>1, OrderStays DEF BooksOK
  <2> QED
    BY <2>3, <2>4
<1>9. CASE \E j \in Ids : Execute(j)
  <2>1. PICK j \in Ids : Execute(j)
    BY <1>9
  <2>2. UNCHANGED <<journal, posts>>
    BY <2>1 DEF Execute, durable
  <2>3. PICK f \in [qty : Nat, quote : Nat, fee : Nat], s \in Executed :
             /\ ex[j] = "sent"
             /\ f.qty <= journal[j] /\ (s = "filled" => f.qty = journal[j])
             /\ j[2] = "BUY" => f.fee <= f.qty
             /\ fill' = [fill EXCEPT ![j] = f]
             /\ ex' = [ex EXCEPT ![j] = s]
    BY <2>1, <1>1, ExecutionMoves
  <2>4. CASE i = j
    <3>1. fill'[i] = f /\ ex'[i] = s
      BY <2>3, <2>4, <1>1 DEF BooksOK
    <3>2. posts[i] # 0
      BY <2>3, <2>4, <1>1 DEF OrderInv
    <3> QED
      BY <2>2, <2>3, <2>4, <3>1, <3>2, <1>1 DEF OrderInv, Executed
  <2>5. CASE i # j
    BY <2>2, <2>3, <2>5, <1>1, OrderStays DEF BooksOK
  <2> QED
    BY <2>4, <2>5
<1> QED
  BY <1>5, <1>6, <1>7, <1>8, <1>9, Typed, BookKinds DEF BookSteps

\* What has executed is final, and so is what is claimed.
LEMMA FinalStays ==
    ASSUME Inductive, Next, NEW i \in Ids
    PROVE  /\ ex[i] \in Executed => ex'[i] = ex[i] /\ fill'[i] = fill[i] /\ posts'[i] = posts[i]
           /\ journal[i] # 0 => journal'[i] = journal[i]
<1>1. OrderInv(i) /\ BooksOK /\ LocalsOK /\ RunInv /\ LegInv /\ SizeInv
  BY Typed DEF Inductive
<1>2. CASE UNCHANGED <<journal, posts, ex, fill>>
  BY <1>2
<1>3. CASE Untouched \/ (\E r \in Runs : BeginStopped(r)) \/ Before \/ Compare \/ Blocked
           \/ External
  BY <1>2, <1>3 DEF Untouched, durable, exchange, BeginStopped, Before, Compare, Quietly,
         Blocked, Block, External
<1>4. CASE RefusedPost
  <2>1. /\ ex' = [ex EXCEPT ![Id] = "absent"] /\ ex[Id] \in {"absent", "sent"}
        /\ UNCHANGED <<journal, posts, fill>>
    BY <1>4 DEF RefusedPost, Block
  <2> QED
    BY <2>1, <1>1 DEF BooksOK, Executed
<1>5. CASE Claiming
  <2>1. /\ journal' = [journal EXCEPT ![Id] = qty] /\ journal[Id] = 0
        /\ UNCHANGED <<posts, ex, fill>>
    BY <1>5 DEF Claiming, Claim, Quietly, exchange
  <2> QED
    BY <2>1, <1>1 DEF BooksOK
<1>6. CASE Post
  <2>1. /\ posts' = [posts EXCEPT ![Id] = @ + 1] /\ ex' = [ex EXCEPT ![Id] = "sent"]
        /\ UNCHANGED <<journal, fill>> /\ pc = "post" /\ at = "send"
    BY <1>6 DEF Post, Send, durable
  <2>2. posts[Id] = 0
    BY <2>1, <1>1 DEF SizeInv
  <2>3. ex[i] \in Executed => i # Id
    BY <2>2, <1>1 DEF OrderInv, Executed
  <2> QED
    BY <2>1, <2>3, <1>1 DEF BooksOK
<1>7. CASE \E j \in Ids : Execute(j)
  <2>1. PICK j \in Ids : Execute(j)
    BY <1>7
  <2>2. UNCHANGED <<journal, posts>>
    BY <2>1 DEF Execute, durable
  <2>3. PICK f \in [qty : Nat, quote : Nat, fee : Nat], s \in Executed :
             /\ ex[j] = "sent"
             /\ fill' = [fill EXCEPT ![j] = f]
             /\ ex' = [ex EXCEPT ![j] = s]
    BY <2>1, <1>1, ExecutionMoves
  <2> QED
    BY <2>2, <2>3, <1>1 DEF BooksOK, Executed
<1> QED
  BY <1>3, <1>4, <1>5, <1>6, <1>7, Typed, BookKinds DEF BookSteps

LEMMA SalesKept ==
    ASSUME Inductive, Next PROVE \A r \in Runs : SaleInv(r)'
<1> SUFFICES ASSUME NEW r \in Runs, journal'[<<r, "SELL">>] # 0
             PROVE  /\ ex'[<<r, "BUY">>] = "filled"
                    /\ journal'[<<r, "SELL">>] <= Effect(<<r, "BUY">>)'.btc
  BY DEF SaleInv
<1>1. <<r, "BUY">> \in Ids /\ <<r, "SELL">> \in Ids
  BY IdsAre
<1>2. "filled" \in Executed
  BY DEF Executed
<1>3. CASE journal[<<r, "SELL">>] # 0
  <2>1. ex[<<r, "BUY">>] = "filled" /\ journal[<<r, "SELL">>] <= Effect(<<r, "BUY">>).btc
    BY <1>3 DEF Inductive, SaleInv
  <2>2. /\ ex'[<<r, "BUY">>] = "filled" /\ fill'[<<r, "BUY">>] = fill[<<r, "BUY">>]
        /\ journal'[<<r, "SELL">>] = journal[<<r, "SELL">>]
    BY <2>1, <1>1, <1>2, <1>3, FinalStays
  <2>3. Effect(<<r, "BUY">>)' = Effect(<<r, "BUY">>)
    BY <2>2 DEF Effect
  <2> QED
    BY <2>1, <2>2, <2>3
<1>4. CASE journal[<<r, "SELL">>] = 0
  <2>1. journal' # journal
    BY <1>4
  <2>2. Claiming
    BY <2>1, BookKinds, Typed DEF BookSteps, Untouched, durable, BeginStopped, Before, Compare,
         Blocked, RefusedPost, Block, Post, External, Execute
  <2>3. /\ pc = "claim" /\ journal' = [journal EXCEPT ![Id] = qty]
        /\ UNCHANGED <<ex, fill>>
    BY <2>2 DEF Claiming, Claim, Quietly, exchange
  <2>4. Id = <<r, "SELL">>
    BY <2>3, <1>1, <1>4, Typed DEF BooksOK
  <2>5. run = r /\ leg = "SELL"
    BY <2>4 DEF Id
  <2>6. ex[<<r, "BUY">>] = "filled" /\ qty <= Effect(<<r, "BUY">>).btc
    BY <2>3, <2>5 DEF Inductive, LegInv, SizeInv, Ordering
  <2>7. journal'[<<r, "SELL">>] = qty
    BY <2>3, <2>4, <1>1, Typed DEF BooksOK
  <2>8. Effect(<<r, "BUY">>)' = Effect(<<r, "BUY">>)
    BY <2>3 DEF Effect
  <2> QED
    BY <2>3, <2>6, <2>7, <2>8
<1> QED
  BY <1>3, <1>4

----------------------------------------------------------------------------
(* Rows *)

\* How a row is written: it may be begun, has not passed, and is not empty.
Written(r, row) ==
    /\ r \in Runs /\ MayBegin(r) /\ saved[r].status # "PASS"
    /\ saved' = [saved EXCEPT ![r] = row] /\ row \in Rows /\ row.status # "NONE"
    /\ UNCHANGED journal

LEMMA RowWrites ==
    ASSUME Inductive, Next
    PROVE  \/ UNCHANGED saved
           \/ \E r \in Runs, row \in Rows :
                Written(r, row) /\ (row.status = "PASS" => Compare /\ r = run)
<1>1. BooksOK /\ LocalsOK /\ RunInv /\ LegInv /\ SizeInv
  BY Typed DEF Inductive
<1>2. CASE \E r \in Runs : BeginStopped(r)
  <2>1. PICK r \in Runs : BeginStopped(r)
    BY <1>2
  <2> DEFINE row == [saved[r] EXCEPT !.status = "BLOCKED"]
  <2>2. row \in Rows /\ row.status = "BLOCKED"
    BY <1>1, RowsTyped DEF BooksOK
  <2>3. saved' = [saved EXCEPT ![r] = row]
    BY <2>1 DEF BeginStopped
  <2> HIDE DEF row
  <2>4. Written(r, row)
    BY <2>1, <2>2, <2>3 DEF Written, BeginStopped
  <2> QED
    BY <2>2, <2>4
<1>3. ASSUME pc \in Executing, Block
      PROVE  Written(run, [state EXCEPT !.status = "BLOCKED"])
             /\ [state EXCEPT !.status = "BLOCKED"].status = "BLOCKED"
  <2> DEFINE row == [state EXCEPT !.status = "BLOCKED"]
  <2>1. row \in Rows /\ row.status = "BLOCKED"
    BY <1>1, RowsTyped DEF LocalsOK
  <2>2. run \in Runs /\ MayBegin(run) /\ saved[run].status # "PASS"
    BY <1>1, <1>3 DEF RunInv
  <2>3. saved' = [saved EXCEPT ![run] = row] /\ UNCHANGED journal
    BY <1>3 DEF Block
  <2> HIDE DEF row
  <2>4. Written(run, row)
    BY <2>1, <2>2, <2>3 DEF Written
  <2> QED
    BY <2>1, <2>4 DEF row
<1>4. CASE Blocked
  BY <1>3, <1>4 DEF Blocked, Written
<1>5. CASE RefusedPost
  BY <1>3, <1>5 DEF RefusedPost, Written, Executing, Ordering
<1>6. CASE Before
  <2> DEFINE row == [state EXCEPT !.before = funds]
  <2>1. row \in Rows /\ row.status = state.status
    <3>1. state \in Rows /\ funds \in Money
      BY <1>1 DEF LocalsOK, BooksOK
    <3> QED
      BY <3>1, RowsTyped
  <2>2. run \in Runs /\ MayBegin(run) /\ saved[run].status # "PASS"
        /\ state.status \notin {"NONE", "PASS"}
    BY <1>1, <1>6 DEF RunInv, Before, Executing
  <2>3. saved' = [saved EXCEPT ![run] = row] /\ UNCHANGED journal
    BY <1>6 DEF Before
  <2> HIDE DEF row
  <2>4. Written(run, row) /\ row.status # "PASS"
    BY <2>1, <2>2, <2>3 DEF Written
  <2> QED
    BY <2>1, <2>2, <2>4
<1>7. CASE Compare
  <2> DEFINE s == IF Explained(state.before, funds) THEN "PASS" ELSE "FAIL"
  <2> DEFINE row == [state EXCEPT !.after = funds, !.status = s]
  <2>1. s \in {"PASS", "FAIL"}
    OBVIOUS
  <2>2. saved' = [saved EXCEPT ![run] = row] /\ UNCHANGED journal
    BY <1>7 DEF Compare
  <2> HIDE DEF s
  <2>3. row \in Rows /\ row.status = s
    <3>1. state \in Rows /\ funds \in Money
      BY <1>1 DEF LocalsOK, BooksOK
    <3>2. /\ [state EXCEPT !.after = funds, !.status = s] \in Rows
          /\ [state EXCEPT !.after = funds, !.status = s].status = s
      BY <2>1, <3>1 DEF Rows
    <3> QED
      BY <3>2 DEF row
  <2>4. run \in Runs /\ MayBegin(run) /\ saved[run].status # "PASS"
    BY <1>1, <1>7 DEF RunInv, Compare, Executing
  <2> HIDE DEF row
  <2>5. Written(run, row)
    BY <2>1, <2>2, <2>3, <2>4 DEF Written
  <2> QED
    BY <2>3, <2>4, <2>5, <1>7
<1>8. CASE Untouched \/ Claiming \/ Post \/ External \/ \E i \in Ids : Execute(i)
  BY <1>8 DEF Untouched, durable, Claiming, Claim, Post, External, Execute
<1> QED
  BY <1>2, <1>4, <1>5, <1>6, <1>7, <1>8, Typed, BookKinds DEF BookSteps

LEMMA RowsKept ==
    ASSUME Inductive, Next PROVE RowInv'
<1>1. RowInv /\ BooksOK /\ BooksOK'
  BY Typed, AllTyped DEF Inductive
<1>2. \A r \in Runs : saved[r] # NoRow => saved'[r] # NoRow
  <2>1. CASE UNCHANGED saved
    BY <2>1
  <2>2. ASSUME NEW r \in Runs, NEW row \in Rows, Written(r, row)
        PROVE  \A q \in Runs : saved[q] # NoRow => saved'[q] # NoRow
    BY <2>2, <1>1, NoRowTyped DEF Written, BooksOK
  <2> QED
    BY <2>1, <2>2, RowWrites
<1>3. \A r \in Runs : saved'[r].status = "NONE" => saved'[r] = NoRow
  <2>1. CASE UNCHANGED saved
    BY <1>1, <2>1 DEF RowInv
  <2>2. ASSUME NEW q \in Runs, NEW row \in Rows, Written(q, row), NEW r \in Runs
        PROVE  saved'[r].status = "NONE" => saved'[r] = NoRow
    BY <2>2, <1>1 DEF Written, BooksOK, RowInv
  <2> QED
    BY <2>1, <2>2, RowWrites
<1>4. \A i \in Submitted' : saved'[i[1]] # NoRow
  <2> SUFFICES ASSUME NEW i \in Ids, journal'[i] # 0 PROVE saved'[i[1]] # NoRow
    BY DEF Submitted
  <2>1. i[1] \in Runs
    BY DEF Ids
  <2>2. CASE journal[i] # 0
    BY <2>1, <2>2, <1>1, <1>2 DEF RowInv, Submitted
  <2>3. CASE journal[i] = 0
    <3>1. journal' # journal
      BY <2>3
    <3>2. Claiming
      BY <3>1, BookKinds, Typed DEF BookSteps, Untouched, durable, BeginStopped, Before,
           Compare, Blocked, RefusedPost, Block, Post, External, Execute
    <3>3. pc = "claim" /\ journal' = [journal EXCEPT ![Id] = qty] /\ UNCHANGED saved
      BY <3>2 DEF Claiming, Claim
    <3>4. i = Id
      BY <2>3, <3>3, <1>1 DEF BooksOK
    <3>5. state = saved[run] /\ state.status # "NONE" /\ i[1] = run
      BY <3>3, <3>4, RunTyped DEF Inductive, RunInv, Executing, Ordering
    <3> QED
      BY <3>3, <3>5, NoRowTyped
  <2> QED
    BY <2>2, <2>3
<1>5. \A p, q \in Runs : saved'[p] # NoRow /\ saved'[q] # NoRow
            => p = q \/ saved'[p].status = "PASS" \/ saved'[q].status = "PASS"
  <2>1. CASE UNCHANGED saved
    BY <1>1, <2>1 DEF RowInv
  <2>2. ASSUME NEW r \in Runs, NEW row \in Rows, Written(r, row),
               NEW p \in Runs, NEW q \in Runs, saved'[p] # NoRow, saved'[q] # NoRow, p # q
        PROVE  saved'[p].status = "PASS" \/ saved'[q].status = "PASS"
    <3>1. \A t \in Runs : t # r => saved'[t] = saved[t]
      BY <2>2, <1>1 DEF Written, BooksOK
    <3>2. \A t \in Runs : t # r /\ saved[t] # NoRow => saved[t].status = "PASS"
      BY <2>2, <1>1 DEF Written, MayBegin, RowInv
    <3> QED
      BY <2>2, <3>1, <3>2
  <2> QED
    BY <2>1, <2>2, RowWrites
<1> QED
  BY <1>3, <1>4, <1>5 DEF RowInv

\* A row that says PASS is never written again.
LEMMA PassStays ==
    ASSUME Inductive, Next, NEW r \in Runs, saved[r].status = "PASS"
    PROVE  saved'[r] = saved[r]
<1>1. BooksOK
  BY Typed
<1>2. ASSUME NEW q \in Runs, NEW row \in Rows, Written(q, row)
      PROVE  saved'[r] = saved[r]
  BY <1>1, <1>2 DEF Written, BooksOK
<1> QED
  BY <1>2, RowWrites

\* What it says for one run.
RoundTrip(r) ==
    /\ \A side \in Sides : ex[<<r, side>>] = "filled" /\ posts[<<r, side>>] = 1
    /\ saved[r].after.usdt = saved[r].before.usdt
                               + Effect(<<r, "BUY">>).usdt + Effect(<<r, "SELL">>).usdt
    /\ saved[r].after.btc = saved[r].before.btc
                               + Effect(<<r, "BUY">>).btc + Effect(<<r, "SELL">>).btc

LEMMA PassKept ==
    ASSUME Inductive, Next PROVE PassIsRoundTrip'
<1> SUFFICES ASSUME NEW r \in Runs, saved'[r].status = "PASS" PROVE RoundTrip(r)'
  BY DEF PassIsRoundTrip, RoundTrip
<1>1. BooksOK /\ LocalsOK /\ RunInv /\ LegInv /\ SizeInv
  BY Typed DEF Inductive
<1>2. <<r, "BUY">> \in Ids /\ <<r, "SELL">> \in Ids /\ Sides = {"BUY", "SELL"}
  BY IdsAre DEF Sides
<1>3. CASE saved[r].status = "PASS"
  <2>1. RoundTrip(r)
    BY <1>3 DEF Inductive, PassIsRoundTrip, RoundTrip
  <2>2. \A side \in Sides :
            /\ ex'[<<r, side>>] = ex[<<r, side>>] /\ posts'[<<r, side>>] = posts[<<r, side>>]
            /\ fill'[<<r, side>>] = fill[<<r, side>>]
    BY <2>1, <1>2, FinalStays DEF RoundTrip, Executed
  <2>3. Effect(<<r, "BUY">>)' = Effect(<<r, "BUY">>) /\ Effect(<<r, "SELL">>)' = Effect(<<r, "SELL">>)
    BY <2>2, <1>2 DEF Effect
  <2>4. saved'[r] = saved[r]
    BY <1>3, PassStays
  <2> QED
    BY <2>1, <2>2, <2>3, <2>4 DEF RoundTrip
<1>4. CASE saved[r].status # "PASS"
  <2>1. Compare /\ r = run /\ saved'[r] # saved[r]
    <3>1. saved'[r] # saved[r]
      BY <1>4
    <3>2. ASSUME NEW q \in Runs, NEW row \in Rows, Written(q, row),
                 row.status = "PASS" => Compare /\ q = run
          PROVE  Compare /\ r = run
      BY <3>1, <3>2, <1>1 DEF Written, BooksOK
    <3> QED
      BY <3>1, <3>2, RowWrites
  <2>2. pc = "after" /\ UNCHANGED <<ex, fill, posts, funds>>
    BY <2>1 DEF Compare, Quietly, exchange
  <2>3. ex[<<r, "BUY">>] = "filled" /\ ex[<<r, "SELL">>] = "filled"
    BY <2>1, <2>2, <1>1 DEF LegInv
  <2>4. posts[<<r, "BUY">>] = 1 /\ posts[<<r, "SELL">>] = 1
    BY <2>3, <1>2, PostedOnce DEF Executed
  <2>5. Effect(<<r, "BUY">>)' = Effect(<<r, "BUY">>) /\ Effect(<<r, "SELL">>)' = Effect(<<r, "SELL">>)
    BY <2>2 DEF Effect
  <2> DEFINE s == IF Explained(state.before, funds) THEN "PASS" ELSE "FAIL"
  <2> DEFINE row == [state EXCEPT !.after = funds, !.status = s]
  <2>6. s \in {"PASS", "FAIL"} /\ (s = "PASS" => Explained(state.before, funds))
    OBVIOUS
  <2>7. saved'[r] = row
    BY <2>1, <1>1 DEF Compare, BooksOK
  <2>8. state \in Rows /\ funds \in Money
    BY <1>1 DEF LocalsOK, BooksOK
  <2> HIDE DEF s
  <2>9. row.status = s /\ row.before = state.before /\ row.after = funds
    <3>1. /\ [state EXCEPT !.after = funds, !.status = s].status = s
          /\ [state EXCEPT !.after = funds, !.status = s].before = state.before
          /\ [state EXCEPT !.after = funds, !.status = s].after = funds
      BY <2>6, <2>8 DEF Rows
    <3> QED
      BY <3>1 DEF row
  <2> HIDE DEF row
  <2>10. Explained(state.before, funds)
    BY <2>6, <2>7, <2>9
  <2>11. /\ funds.btc = state.before.btc + Effect(<<run, "BUY">>).btc + Effect(<<run, "SELL">>).btc
         /\ funds.usdt = state.before.usdt + Effect(<<run, "BUY">>).usdt
                           + Effect(<<run, "SELL">>).usdt
    BY <2>10 DEF Explained
  <2> QED
    BY <2>1, <2>2, <2>3, <2>4, <2>5, <2>7, <2>9, <2>11, <1>2 DEF RoundTrip
<1> QED
  BY <1>3, <1>4

----------------------------------------------------------------------------
(* The points of an execution *)

\* Steps inside a request, of others, and of the clock leave the process and
\* its row alone.
LEMMA StandsStill ==
    ASSUME RequestSteps \/ OutsideSteps
    PROVE  UNCHANGED <<pc, locals>> /\ (pc # "idle" => UNCHANGED saved)
<1>1. CASE RequestSteps
  BY <1>1 DEF RequestSteps, Inner, SendRead, Post, Clock, durable
<1>2. CASE OutsideSteps
  BY <1>2 DEF OutsideSteps, BeginStopped, Stop, External, Execute, durable
<1> QED
  BY <1>1, <1>2

\* Where the process stands behind a step that ends it, or resumes.
LEMMA NotExecuting ==
    ASSUME LeavingSteps \/ (PostRaises /\ Leave) \/ ResumeFound \/ NextResolved \/ BeginResume
    PROVE  pc' \notin Executing
<1>1. Leave => pc' = "idle"
  BY DEF Leave
<1>2. CASE LeavingSteps
  BY <1>1, <1>2 DEF LeavingSteps, NotReconciled, Compare, Refused, ReadRaises, ResumeRefused,
         ResumeRaises, Lift, Crash, Block, Executing, Ordering, Queries
<1>3. CASE PostRaises /\ Leave
  BY <1>1, <1>3 DEF Executing, Ordering, Queries
<1>4. CASE ResumeFound \/ NextResolved \/ BeginResume
  BY <1>4 DEF ResumeFound, NextResolved, Examine, BeginResume, Goto, Executing, Ordering,
         Queries
<1> QED
  BY <1>2, <1>3, <1>4

\* The steps of an execution that go on to its next point on the same row.
GoesOn == NoneOpen \/ Quoted \/ Sized \/ Claim \/ Posted \/ Found \/ FillsRead
            \/ (PostRaises /\ ~Leave)

LEMMA OtherSteps ==
    ASSUME Next
    PROVE  \/ RequestSteps \/ OutsideSteps
           \/ LeavingSteps \/ (PostRaises /\ Leave) \/ ResumeFound \/ NextResolved \/ BeginResume
           \/ GoesOn \/ Before \/ \E r \in Runs : Begin(r)
  BY StepKinds DEF GoesOn, GoingSteps

LEMMA GoesOnWhere ==
    ASSUME GoesOn
    PROVE  /\ pc \in Executing
           /\ UNCHANGED <<run, state, saved, todo, ex, fill, posts>>
           /\ pc' \in Ordering \cup {"after"} => pc \in Ordering
           /\ PostRaises => Goto("order1") /\ UNCHANGED <<durable, locals>>
<1>1. CASE NoneOpen \/ Quoted \/ Sized \/ Claim \/ Posted \/ Found
  BY <1>1 DEF NoneOpen, Quoted, Sized, Claim, Posted, Found, PostRaises, Goto, Executing,
         Ordering, Queries, locals, durable, exchange, Quietly
<1>2. CASE FillsRead
  BY <1>2 DEF FillsRead, Queried, Reconciled, PostRaises, Executing, Ordering, Queries, locals,
         durable, exchange, Quietly
<1>3. CASE PostRaises /\ ~Leave
  BY <1>3 DEF PostRaises, Block, Goto, Executing, Ordering, Queries, locals, durable
<1> QED
  BY <1>1, <1>2, <1>3 DEF GoesOn

LEMMA RunKept ==
    ASSUME Inductive, Next PROVE RunInv'
<1>1. BooksOK /\ LocalsOK /\ RunInv /\ RowInv
  BY Typed DEF Inductive
<1>2. CASE pc' \notin Executing
  BY <1>2 DEF RunInv, Executing, Ordering
<1>3. ASSUME pc \in Executing, UNCHANGED <<run, state, saved>>,
             pc' \in Ordering \cup {"after"} => pc \in Ordering \cup {"after"}
      PROVE  RunInv'
  BY <1>1, <1>3 DEF RunInv, MayBegin
<1>4. CASE RequestSteps \/ OutsideSteps
  <2>1. UNCHANGED <<pc, locals>> /\ (pc # "idle" => UNCHANGED saved)
    BY <1>4, StandsStill
  <2>2. CASE pc \in Executing
    BY <2>1, <2>2, <1>3 DEF locals, Executing, Ordering, Queries
  <2>3. CASE pc \notin Executing
    BY <2>1, <2>3, <1>2
  <2> QED
    BY <2>2, <2>3
<1>5. CASE LeavingSteps \/ (PostRaises /\ Leave) \/ ResumeFound \/ NextResolved \/ BeginResume
  BY <1>2, <1>5, NotExecuting
<1>6. CASE GoesOn
  BY <1>3, <1>6, GoesOnWhere
<1>7. CASE Before
  <2> DEFINE row == [state EXCEPT !.before = funds]
  <2>1. /\ run \in Runs /\ state.status \notin {"NONE", "PASS"}
    BY <1>1, <1>7 DEF RunInv, Before, Executing
  <2>2. state \in Rows /\ funds \in Money
    BY <1>1 DEF LocalsOK, BooksOK
  <2>3. row.status = state.status
    BY <2>2, RowsTyped
  <2>4. state' = row /\ saved' = [saved EXCEPT ![run] = row] /\ run' = run
    BY <1>7 DEF Before
  <2> HIDE DEF row
  <2>5. saved'[run] = row
    BY <2>1, <2>4, <1>1 DEF BooksOK
  <2>6. row # NoRow
    BY <2>1, <2>3, NoRowTyped
  <2> QED
    BY <2>1, <2>3, <2>4, <2>5, <2>6 DEF RunInv, MayBegin
<1>8. CASE \E r \in Runs : Begin(r)
  <2>1. PICK r \in Runs : Begin(r)
    BY <1>8
  <2>2. /\ MayBegin(r) /\ saved[r].status # "PASS" /\ run' = r /\ UNCHANGED saved
        /\ state' = (IF saved[r] = NoRow THEN [NoRow EXCEPT !.status = "STARTED"] ELSE saved[r])
    BY <2>1 DEF Begin, durable
  <2>3. state'.status \notin {"NONE", "PASS"}
    BY <2>2, <1>1, NoRowTyped DEF RowInv
  <2>4. pc' \in Ordering \cup {"after"} => saved[r] # NoRow
    BY <2>1, NoRowTyped DEF Begin, Goto, Ordering, Queries
  <2> QED
    BY <2>2, <2>3, <2>4 DEF RunInv, MayBegin
<1> QED
  BY <1>4, <1>5, <1>6, <1>7, <1>8, OtherSteps

LEMMA LegKept ==
    ASSUME Inductive, Next PROVE LegInv'
<1>1. BooksOK /\ LocalsOK /\ LegInv
  BY Typed DEF Inductive
<1>2. CASE pc' \notin Executing
  BY <1>2 DEF LegInv, Executing, Ordering
<1>3. "filled" \in Executed
  BY DEF Executed
<1>4. ASSUME pc \in Executing
      PROVE  /\ run \in Runs /\ <<run, "BUY">> \in Ids /\ <<run, "SELL">> \in Ids
             /\ leg \in Sides /\ Id \in Ids
             /\ ex[<<run, "BUY">>] = "filled" => ex'[<<run, "BUY">>] = "filled"
             /\ ex[<<run, "SELL">>] = "filled" => ex'[<<run, "SELL">>] = "filled"
  <2>1. run \in Runs /\ leg \in Sides /\ Id \in Ids
    BY <1>4, RunTyped
  <2> QED
    BY <2>1, <1>3, IdsAre, FinalStays
<1>5. CASE RequestSteps \/ OutsideSteps
  <2>1. UNCHANGED <<pc, locals>>
    BY <1>5, StandsStill
  <2>2. CASE pc \in Executing
    BY <2>1, <2>2, <1>1, <1>4 DEF locals, LegInv
  <2> QED
    BY <2>1, <2>2, <1>2
<1>6. CASE LeavingSteps \/ (PostRaises /\ Leave) \/ ResumeFound \/ NextResolved \/ BeginResume
  BY <1>2, <1>6, NotExecuting
<1>7. CASE GoesOn /\ ~FillsRead
  <2>1. /\ pc \in Executing /\ UNCHANGED <<run, ex>>
        /\ pc' \in Ordering \cup {"after"} => pc \in Ordering
    BY <1>7, GoesOnWhere
  <2>2. UNCHANGED leg /\ pc' # "after"
    BY <1>7, GoesOnWhere DEF GoesOn, NoneOpen, Quoted, Sized, Claim, Posted, Found, Goto, locals
  <2> QED
    BY <2>1, <2>2, <1>1 DEF LegInv
<1>8. CASE FillsRead
  <2>1. PICK complete \in BOOLEAN : Reconciled(complete)
    BY <1>8 DEF FillsRead
  <2>2. pc \in Ordering /\ pc \in Executing /\ UNCHANGED <<run, ex>>
    BY <1>8 DEF FillsRead, Queried, Reconciled, Quietly, exchange, Executing, Ordering, Queries
  <2>3. CASE pc \in {"order1", "fills1"}
    BY <2>1, <2>2, <2>3, <1>1 DEF Reconciled, Goto, LegInv
  <2>4. CASE pc \notin {"order1", "fills1"} /\ leg = "BUY"
    <3>1. ex[<<run, "BUY">>] = "filled" /\ pc' # "after"
      BY <2>1, <2>4 DEF Reconciled, Unfinished, Id, BeginLeg, Goto
    <3> QED
      BY <2>2, <3>1 DEF LegInv
  <2>5. CASE pc \notin {"order1", "fills1"} /\ leg # "BUY"
    <3>1. leg = "SELL"
      BY <2>2, <2>5, <1>4 DEF Sides
    <3>2. ex[<<run, "SELL">>] = "filled" /\ ex[<<run, "BUY">>] = "filled"
      BY <2>1, <2>2, <2>5, <3>1, <1>1 DEF Reconciled, Unfinished, Id, LegInv
    <3> QED
      BY <2>2, <3>2 DEF LegInv
  <2> QED
    BY <2>3, <2>4, <2>5
<1>9. CASE Before \/ \E r \in Runs : Begin(r)
  <2>1. leg' = "BUY" \/ pc' = "open"
    BY <1>9 DEF Before, Begin, BeginLeg, Goto
  <2>2. pc' # "after"
    BY <1>9 DEF Before, Begin, BeginLeg, Goto
  <2> QED
    BY <2>1, <2>2 DEF LegInv, Ordering, Queries
<1> QED
  BY <1>5, <1>6, <1>7, <1>8, <1>9, OtherSteps DEF GoesOn

\* A POST is on the wire when it has been sent, and not before.
OnWire == at = "wire" /\ Len(frames) = 1

LEMMA WireStays ==
    ASSUME Inductive, pc = "post", Inner \/ SendRead \/ Clock
    PROVE  OnWire' <=> OnWire
<1>1. RequestOK /\ at # "idle"
  BY Typed, CallsAre DEF RequestOK
<1>2. /\ frames \in Seq(Requests) /\ Len(frames) \in {1, 2}
      /\ Len(frames) = 1 => IsPost
      /\ Len(frames) = 2 => Top.kind = "time"
  BY <1>1, UnderWay, KindsAre DEF IsPost
<1>3. "time" \notin Signed
  BY DEF Signed
<1>4. CASE Synchronize
  BY <1>4 DEF Inner, Proceed, Synchronize, MayEnter, OnWire
<1>5. CASE Enter \/ WakeUp
  BY <1>5 DEF Enter, MayEnter, WakeUp, OnWire
<1>6. CASE RetryLost \/ RetryLimited
  BY <1>2, <1>6 DEF RetryLost, RetryLimited, Retry, OnWire
<1>7. CASE Resync
  BY <1>2, <1>3, <1>7 DEF Resync
<1>8. CASE Synchronized
  <2>1. Len(frames) = 2
    BY <1>2, <1>8 DEF Synchronized, IsPost
  <2> QED
    BY <2>1, <1>8 DEF Synchronized, OnWire
<1>9. CASE SendRead
  <2>1. Len(frames) = 2 /\ frames' = frames /\ at = "send"
    BY <1>2, <1>9 DEF SendRead, Send
  <2> QED
    BY <2>1 DEF OnWire
<1>10. CASE Clock
  BY <1>10 DEF Clock, Tick, request, OnWire
<1> QED
  BY <1>4, <1>5, <1>6, <1>7, <1>8, <1>9, <1>10 DEF Inner, Proceed

\* An order that is not claimed was not sent.
LEMMA Unclaimed ==
    ASSUME Inductive, NEW i \in Ids, journal[i] = 0
    PROVE  posts[i] = 0
<1>1. posts[i] \in Nat
  BY Typed DEF BooksOK
<1>2. posts[i] <= 1 /\ (posts[i] = 1 => journal[i] # 0)
  BY DEF Inductive, OrderInv
<1> QED
  BY <1>1, <1>2

LEMMA SizeKept ==
    ASSUME Inductive, Next PROVE SizeInv'
<1>1. BooksOK /\ LocalsOK /\ SizeInv /\ LegInv
  BY Typed DEF Inductive
<1>2. CASE pc' \notin {"quote", "free", "claim", "post"}
  BY <1>2 DEF SizeInv
<1>3. ASSUME pc \in Executing
      PROVE  /\ run \in Runs /\ leg \in Sides /\ Id \in Ids /\ <<run, "BUY">> \in Ids
             /\ ex[<<run, "BUY">>] = "filled" => fill'[<<run, "BUY">>] = fill[<<run, "BUY">>]
  <2>1. run \in Runs /\ leg \in Sides /\ Id \in Ids
    BY <1>3, RunTyped
  <2> QED
    BY <2>1, IdsAre, FinalStays DEF Executed
<1>4. {"quote", "free", "claim", "post"} \subseteq Ordering
      /\ {"quote", "free", "claim", "post"} \subseteq Executing
  BY DEF Executing, Ordering
<1>5. ASSUME UNCHANGED <<pc, locals, journal>>,
             pc = "post" => posts'[Id] = IF OnWire' THEN 1 ELSE 0
      PROVE  SizeInv'
  <2>1. CASE pc \in {"quote", "free", "claim", "post"}
    <3>1. pc = "claim" /\ leg = "SELL" => Effect(<<run, "BUY">>)' = Effect(<<run, "BUY">>)
      BY <2>1, <1>1, <1>3, <1>4, <1>5 DEF Effect, LegInv, locals
    <3> QED
      BY <2>1, <3>1, <1>1, <1>5 DEF SizeInv, Id, locals, OnWire
  <2> QED
    BY <2>1, <1>2, <1>5
<1>6. CASE Inner \/ SendRead \/ Clock
  <2>1. UNCHANGED <<pc, locals, journal, posts>>
    BY <1>6 DEF Inner, SendRead, Clock, durable, exchange
  <2>2. pc = "post" => posts'[Id] = IF OnWire' THEN 1 ELSE 0
    BY <2>1, <1>1, <1>6, WireStays DEF SizeInv, OnWire
  <2> QED
    BY <2>1, <2>2, <1>5
<1>7. CASE Post
  <2>1. /\ UNCHANGED <<pc, locals, journal, frames>> /\ pc = "post" /\ at = "send" /\ at' = "wire"
        /\ posts' = [posts EXCEPT ![Id] = @ + 1] /\ IsPost
    BY <1>7 DEF Post, Send, durable
  <2>2. Len(frames) = 1
    BY <2>1, Typed, UnderWay DEF IsPost
  <2>3. posts[Id] = 0
    BY <2>1, <1>1 DEF SizeInv
  <2>4. posts'[Id] = 1
    BY <2>1, <2>3, <1>1, <1>3, <1>4 DEF BooksOK
  <2> QED
    BY <2>1, <2>2, <2>4, <1>5 DEF OnWire
<1>8. CASE OutsideSteps
  <2>1. UNCHANGED <<pc, locals, journal, posts, request>>
    BY <1>8 DEF OutsideSteps, BeginStopped, Stop, External, Execute, durable, exchange
  <2> QED
    BY <2>1, <1>1, <1>5 DEF SizeInv, OnWire, request
<1>9. CASE LeavingSteps \/ (PostRaises /\ Leave) \/ ResumeFound \/ NextResolved \/ BeginResume
  BY <1>2, <1>4, <1>9, NotExecuting
<1>10. CASE NoneOpen \/ Posted \/ Found \/ (PostRaises /\ ~Leave)
  BY <1>2, <1>10, GoesOnWhere DEF GoesOn, NoneOpen, Posted, Found, Goto
<1>11. CASE Quoted
  <2>1. /\ pc = "quote" /\ pc' = "free" /\ price' \in Prices /\ UNCHANGED <<run, leg, journal>>
    BY <1>11 DEF Quoted, Goto, durable
  <2> QED
    BY <2>1, <1>1 DEF SizeInv, Id
<1>12. CASE Sized
  <2>1. /\ pc = "free" /\ pc' = "claim" /\ Size(funds) > 0 /\ qty' = Size(funds)
        /\ UNCHANGED <<run, leg, journal, fill>>
    BY <1>12 DEF Sized, durable, exchange, Quietly
  <2>2. leg = "SELL" => qty' <= Effect(<<run, "BUY">>).btc
    BY <2>1, SizeTyped
  <2>3. Effect(<<run, "BUY">>)' = Effect(<<run, "BUY">>)
    BY <2>1 DEF Effect
  <2> QED
    BY <2>1, <2>2, <2>3, <1>1 DEF SizeInv, Id
<1>13. CASE Claim
  <2>1. pc = "claim" /\ journal[Id] = 0 /\ qty > 0 /\ qty \in Nat /\ Id \in Ids
    BY <1>1, <1>3, <1>4, <1>13 DEF Claim, SizeInv, LocalsOK
  <2>2. /\ journal' = [journal EXCEPT ![Id] = qty] /\ pc' = "post" /\ at' = "enter"
        /\ UNCHANGED <<run, leg, posts>>
    BY <2>1, <1>13 DEF Claim, Goto, Call, locals, exchange, Quietly
  <2>3. posts[Id] = 0
    BY <2>1, Unclaimed
  <2>4. journal'[Id] # 0
    BY <2>1, <2>2, <1>1 DEF BooksOK
  <2> QED
    BY <2>2, <2>3, <2>4 DEF SizeInv, Id
<1>14. ASSUME NEW r, NEW side, BeginLeg(r, side), run' = r, UNCHANGED journal
       PROVE  SizeInv'
  <2>1. leg' = side /\ pc' \in {"quote", "order2"} /\ (pc' = "quote" => journal[<<r, side>>] = 0)
    BY <1>14 DEF BeginLeg, Goto
  <2> QED
    BY <2>1, <1>14 DEF SizeInv, Id
<1>15. CASE FillsRead
  <2>1. PICK complete \in BOOLEAN : Reconciled(complete)
    BY <1>15 DEF FillsRead
  <2>2. UNCHANGED <<run, journal>>
    BY <2>1 DEF Reconciled, durable
  <2>3. pc' \in {"order2", "after"} \/ BeginLeg(run, "SELL")
    BY <2>1 DEF Reconciled, Goto
  <2> QED
    BY <2>2, <2>3, <1>2, <1>14
<1>16. CASE Before
  BY <1>14, <1>16 DEF Before
<1>17. CASE \E r \in Runs : Begin(r)
  <2>1. PICK r \in Runs : Begin(r)
    BY <1>17
  <2>2. run' = r /\ UNCHANGED journal /\ (pc' = "open" \/ BeginLeg(r, "BUY"))
    BY <2>1 DEF Begin, Goto, durable
  <2> QED
    BY <2>2, <1>2, <1>14
<1> QED
  BY <1>6, <1>7, <1>8, <1>9, <1>10, <1>11, <1>12, <1>13, <1>15, <1>16, <1>17, OtherSteps
     DEF RequestSteps, GoesOn
----------------------------------------------------------------------------
(* The points of a resumption *)

LEMMA NotResuming ==
    ASSUME Next, ~RequestSteps, ~OutsideSteps, ~BeginResume, ~ResumeFound, ~NextResolved
    PROVE  pc' \notin Resuming
<1>1. Leave => pc' \notin Resuming
  BY DEF Leave, Resuming
<1>2. CASE LeavingSteps \/ (PostRaises /\ Leave)
  BY <1>1, <1>2 DEF LeavingSteps, NotReconciled, Compare, Refused, ReadRaises, ResumeRefused,
         ResumeRaises, Lift, Crash, Block
<1>3. CASE PostRaises /\ ~Leave
  BY <1>3 DEF PostRaises, Block, Goto, Resuming
<1>4. CASE NoneOpen \/ Quoted \/ Sized \/ Claim \/ Posted \/ Found \/ Before
  BY <1>4 DEF NoneOpen, Quoted, Sized, Claim, Posted, Found, Before, BeginLeg, Goto, Resuming
<1>5. CASE FillsRead
  BY <1>5 DEF FillsRead, Reconciled, BeginLeg, Goto, Resuming
<1>6. CASE \E r \in Runs : Begin(r)
  BY <1>6 DEF Begin, BeginLeg, Goto, Resuming
<1> QED
  BY <1>2, <1>3, <1>4, <1>5, <1>6, OtherSteps DEF GoesOn

LEMMA ResumeKept ==
    ASSUME Inductive, Next PROVE ResumeInv'
<1>1. RequestOK /\ LocalsOK /\ BooksOK /\ ResumeInv
  BY Typed DEF Inductive
<1>2. CASE pc' \notin Resuming
  BY <1>2 DEF ResumeInv, Resuming
<1>3. \A i \in Ids : ex[i] \in Executed => ex'[i] \in Executed
  BY FinalStays
<1>4. CASE RequestSteps \/ OutsideSteps
  <2>1. UNCHANGED <<pc, locals, journal>>
    BY <1>4, StandsStill DEF RequestSteps, OutsideSteps, Inner, SendRead, Post, Clock,
         BeginStopped, Stop, External, Execute, durable
  <2>2. Submitted' = Submitted /\ Submitted \subseteq Ids /\ Id' = Id
    BY <2>1 DEF Submitted, Id, locals
  <2> QED
    BY <2>1, <2>2, <1>1, <1>3 DEF ResumeInv, locals
<1>5. CASE BeginResume
  <2>1. UNCHANGED journal /\ todo' = Submitted /\ pc' = "raccount"
    BY <1>5 DEF BeginResume, Goto, durable
  <2>2. Submitted' = Submitted
    BY <2>1 DEF Submitted
  <2> QED
    BY <2>1, <2>2 DEF ResumeInv
<1>6. CASE ResumeFound
  <2>1. /\ pc = "rorder" /\ pc' = "rfills" /\ ex[Id] \in Executed
        /\ UNCHANGED <<journal, ex, locals>>
    BY <1>6 DEF ResumeFound, Goto, durable, Quietly, exchange
  <2>2. Submitted' = Submitted
    BY <2>1 DEF Submitted
  <2> QED
    BY <2>1, <2>2, <1>1 DEF ResumeInv, Resuming, locals
<1>7. CASE NextResolved
  <2>1. UNCHANGED <<journal, ex>> /\ Submitted' = Submitted
    BY <1>7 DEF NextResolved, durable, Quietly, exchange, Submitted
  <2>2. pc \in Resuming /\ (pc = "rorder" => ex[Id] \in Executed)
    BY <1>7 DEF NextResolved, Resolved, Resuming
  <2>3. \A i \in Submitted \ todo : ex[i] \in Executed
    BY <2>2, <1>1 DEF ResumeInv
  <2>4. Examine(todo)
    BY <1>7 DEF NextResolved
  <2>5. CASE todo = {}
    BY <2>1, <2>3, <2>4, <2>5 DEF Examine, ResumeInv
  <2>6. CASE todo # {}
    <3>1. PICK i \in todo : /\ run' = i[1] /\ leg' = i[2] /\ todo' = todo \ {i}
                            /\ pc' = "rorder"
      BY <2>4, <2>6 DEF Examine, Goto
    <3>2. i \in Ids
      BY <1>1 DEF LocalsOK
    <3>3. Id' = i /\ run' \in Runs
      BY <3>1, <3>2 DEF Id, Ids
    <3> QED
      BY <2>1, <2>3, <3>1, <3>3 DEF ResumeInv
  <2> QED
    BY <2>5, <2>6
<1> QED
  BY <1>2, <1>4, <1>5, <1>6, <1>7, NotResuming

----------------------------------------------------------------------------
(* Holdings *)

\* Only the run that has not passed can have an order execute, and every other
\* run that has not passed has none.
LEMMA OneRunExecutes ==
    ASSUME Inductive, NEW i \in Ids, ex[i] = "sent"
    PROVE  /\ journal[i] # 0 /\ i[1] \in Runs /\ saved[i[1]].status # "PASS"
           /\ \A r \in Runs : r # i[1] /\ saved[r].status # "PASS" =>
                \A side \in Sides : posts[<<r, side>>] = 0
<1>1. BooksOK /\ OrderInv(i) /\ RowInv /\ PassIsRoundTrip
  BY Typed DEF Inductive
<1>2. posts[i] \in Nat /\ posts[i] # 0 /\ posts[i] <= 1
  BY <1>1 DEF OrderInv, BooksOK
<1>3. journal[i] # 0
  BY <1>1, <1>2 DEF OrderInv
<1>4. i[1] \in Runs /\ i[2] \in Sides /\ i = <<i[1], i[2]>>
  BY DEF Ids
<1>5. saved[i[1]].status # "PASS"
  <2> SUFFICES ASSUME saved[i[1]].status = "PASS" PROVE FALSE
    OBVIOUS
  <2>1. ex[<<i[1], i[2]>>] = "filled"
    BY <1>1, <1>4 DEF PassIsRoundTrip
  <2> QED
    BY <2>1, <1>4
<1>6. saved[i[1]] # NoRow
  BY <1>1, <1>3 DEF RowInv, Submitted
<1>7. ASSUME NEW r \in Runs, r # i[1], saved[r].status # "PASS", NEW side \in Sides
      PROVE  posts[<<r, side>>] = 0
  <2>1. saved[r] = NoRow
    BY <1>1, <1>4, <1>5, <1>6, <1>7 DEF RowInv
  <2>2. <<r, side>> \in Ids /\ <<r, side>>[1] = r
    BY DEF Ids
  <2>3. journal[<<r, side>>] = 0
    BY <2>1, <2>2, <1>1 DEF RowInv, Submitted
  <2> QED
    BY <2>2, <2>3, Unclaimed
<1> QED
  BY <1>3, <1>4, <1>5, <1>7

\* Only an execution moves BTC.
LEMMA OnlyExecutions ==
    ASSUME Inductive, Next, ~(\E i \in Ids : Execute(i))
    PROVE  fill' = fill /\ funds'.btc = funds.btc
<1>1. CASE External
  BY <1>1, Typed DEF External, BooksOK, Money
<1>2. CASE ~External
  BY <1>2, Typed, BookKinds DEF BookSteps, Untouched, exchange, BeginStopped, Before, Claiming,
     Claim, Compare, Blocked, RefusedPost, Post, Quietly
<1> QED
  BY <1>1, <1>2

Moved(r) == Effect(<<r, "BUY">>).btc + Effect(<<r, "SELL">>).btc

\* An order that has not executed has moved nothing.
LEMMA NothingMoved ==
    ASSUME Inductive, NEW i \in Ids, ex[i] \notin Executed
    PROVE  fill[i] = NoFill /\ fill[i].qty = 0 /\ fill[i].fee = 0 /\ Effect(i).btc = 0
<1>1. fill[i] = NoFill
  BY DEF Inductive, OrderInv
<1>2. NoFill.qty = 0 /\ NoFill.fee = 0
  BY DEF NoFill
<1>3. fill[i] \in [qty : Nat, quote : Nat, fee : Nat]
  BY Typed DEF BooksOK
<1>4. Effect(i).btc = 0
  BY <1>1, <1>2, <1>3, EffectTyped
<1> QED
  BY <1>1, <1>2, <1>4

\* The account moves by what the run that executes moves.
LEMMA MovedTogether ==
    ASSUME Inductive, Next, NEW i \in Ids, Execute(i)
    PROVE  /\ i[1] \in Runs /\ Moved(i[1]) \in Int
           /\ Moved(i[1])' - Moved(i[1]) = funds'.btc - funds.btc
           /\ Moved(i[1])' >= 0
<1> DEFINE r == i[1]
<1>1. r \in Runs /\ i[2] \in Sides /\ i = <<r, i[2]>>
  BY DEF Ids
<1>2. BooksOK /\ BooksOK' /\ OrderInv(i) /\ \A j \in Ids : OrderInv(j)'
  BY Typed, AllTyped, OrdersKept DEF Inductive
<1>3. <<r, "BUY">> \in Ids /\ <<r, "SELL">> \in Ids
      /\ <<r, "BUY">>[2] = "BUY" /\ <<r, "SELL">>[2] = "SELL" /\ <<r, "BUY">> # <<r, "SELL">>
  BY <1>1, IdsAre
<1>4. PICK f \in [qty : Nat, quote : Nat, fee : Nat] :
        /\ ex[i] = "sent" /\ f.qty <= journal[i]
        /\ i[2] = "BUY" => f.fee <= f.qty
        /\ fill' = [fill EXCEPT ![i] = f]
        /\ i[2] = "BUY" => funds'.btc = funds.btc + f.qty - f.fee
        /\ i[2] # "BUY" => funds'.btc = funds.btc - f.qty
  BY <1>2, ExecutionMoves
<1>5. ex[i] \notin Executed /\ Effect(i).btc = 0
  BY <1>4, NothingMoved DEF Executed
<1>6. f.qty \in Nat /\ f.fee \in Nat /\ funds.btc \in Nat /\ funds'.btc \in Nat
  BY <1>2 DEF BooksOK, Money
<1>7. /\ Effect(<<r, "BUY">>).btc \in Nat /\ Effect(<<r, "SELL">>).btc \in Int
      /\ Effect(<<r, "BUY">>).btc = fill[<<r, "BUY">>].qty - fill[<<r, "BUY">>].fee
  <2>1. \A j \in Ids : OrderInv(j)
    BY DEF Inductive
  <2>2. /\ Effect(<<r, "BUY">>).btc \in Nat
        /\ Effect(<<r, "SELL">>).btc = -fill[<<r, "SELL">>].qty
        /\ fill[<<r, "SELL">>].qty \in Nat
        /\ Effect(<<r, "BUY">>).btc = fill[<<r, "BUY">>].qty - fill[<<r, "BUY">>].fee
    BY <1>1, <1>2, <2>1, EffectsAre
  <2> QED
    BY <2>2
<1>8. CASE i[2] = "BUY"
  <2>1. fill'[<<r, "BUY">>] = f /\ fill'[<<r, "SELL">>] = fill[<<r, "SELL">>] /\ i = <<r, "BUY">>
    BY <1>1, <1>2, <1>3, <1>4, <1>8 DEF BooksOK
  <2>2. Effect(<<r, "BUY">>).btc' = f.qty - f.fee
    BY <2>1, <1>3 DEF Effect
  <2>3. Effect(<<r, "SELL">>).btc' = Effect(<<r, "SELL">>).btc
    BY <2>1 DEF Effect
  <2>4. ex[<<r, "SELL">>] \notin Executed
    <3> SUFFICES ASSUME ex[<<r, "SELL">>] \in Executed PROVE FALSE
      OBVIOUS
    <3>1. posts[<<r, "SELL">>] = 1
      BY <1>3, PostedOnce
    <3>2. journal[<<r, "SELL">>] # 0
      BY <3>1, <1>3 DEF Inductive, OrderInv
    <3>3. ex[<<r, "BUY">>] = "filled"
      BY <3>2, <1>1 DEF Inductive, SaleInv
    <3> QED
      BY <3>3, <2>1, <1>4
  <2>5. Effect(<<r, "SELL">>).btc = 0
    BY <2>4, <1>3, NothingMoved
  <2>6. Effect(<<r, "BUY">>).btc = 0
    BY <2>1, <1>5
  <2>7. Moved(r) = 0 /\ Moved(r)' = f.qty - f.fee
    BY <2>2, <2>3, <2>5, <2>6, <1>6 DEF Moved
  <2>8. f.fee <= f.qty /\ funds'.btc = funds.btc + f.qty - f.fee
    BY <1>4, <1>8
  <2> QED
    BY <2>7, <2>8, <1>1, <1>6
<1>9. CASE i[2] # "BUY"
  <2>1. i = <<r, "SELL">>
    BY <1>1, <1>9 DEF Sides
  <2>2. fill'[<<r, "SELL">>] = f /\ fill'[<<r, "BUY">>] = fill[<<r, "BUY">>]
    BY <2>1, <1>2, <1>3, <1>4 DEF BooksOK
  <2>3. Effect(<<r, "SELL">>).btc' = -f.qty
    BY <2>2, <1>3 DEF Effect
  <2>4. Effect(<<r, "BUY">>).btc' = Effect(<<r, "BUY">>).btc
    BY <2>2 DEF Effect
  <2>5. journal[<<r, "SELL">>] # 0
    BY <2>1, <1>4, OneRunExecutes
  <2>6. journal[<<r, "SELL">>] <= Effect(<<r, "BUY">>).btc
    BY <2>5, <1>1 DEF Inductive, SaleInv
  <2>7. journal[<<r, "SELL">>] \in Nat
    BY <1>2, <1>3 DEF BooksOK
  <2> QED
    BY <2>1, <2>3, <2>4, <2>6, <2>7, <1>1, <1>4, <1>5, <1>6, <1>7, <1>9 DEF Moved
<1> QED
  BY <1>8, <1>9

LEMMA HoldingsStay ==
    ASSUME Inductive, Next PROVE HoldingsInv'
<1>1. /\ funds.btc >= AccountBtc
      /\ \A r \in Runs : saved[r].status # "PASS" =>
            funds.btc >= AccountBtc + Effect(<<r, "BUY">>).btc + Effect(<<r, "SELL">>).btc
  BY DEF Inductive, HoldingsInv, HoldingsKept
<1>2. BooksOK /\ BooksOK' /\ AccountBtc \in Nat
      /\ funds.btc \in Nat /\ funds'.btc \in Nat
  <2>1. BooksOK /\ BooksOK' /\ AccountBtc \in Nat
    BY Typed, AllTyped, ConstantsTyped
  <2> QED
    BY <2>1 DEF BooksOK, Money
<1>3. \A r \in Runs : saved'[r].status # "PASS" => saved[r].status # "PASS"
  BY PassStays
<1>4. CASE ~(\E i \in Ids : Execute(i))
  <2>1. fill' = fill /\ funds'.btc = funds.btc
    BY <1>4, OnlyExecutions
  <2>2. \A j \in Ids : Effect(j)' = Effect(j)
    BY <2>1 DEF Effect
  <2>3. ASSUME NEW r \in Runs, saved'[r].status # "PASS"
        PROVE  funds'.btc >= AccountBtc + Effect(<<r, "BUY">>)'.btc + Effect(<<r, "SELL">>)'.btc
    <3>1. Effect(<<r, "BUY">>)' = Effect(<<r, "BUY">>)
          /\ Effect(<<r, "SELL">>)' = Effect(<<r, "SELL">>)
      BY <2>1 DEF Effect
    <3> QED
      BY <3>1, <2>1, <2>3, <1>1, <1>3
  <2> QED
    BY <2>1, <2>3, <1>1 DEF HoldingsInv, HoldingsKept
<1>5. ASSUME NEW i \in Ids, Execute(i) PROVE HoldingsInv'
  <2>1. /\ i[1] \in Runs /\ Moved(i[1]) \in Int
        /\ Moved(i[1])' - Moved(i[1]) = funds'.btc - funds.btc
        /\ Moved(i[1])' >= 0
    BY <1>5, MovedTogether
  <2>2. ex[i] = "sent" /\ saved' = saved
    BY <1>5 DEF Execute, durable
  <2>3. /\ saved[i[1]].status # "PASS"
        /\ \A r \in Runs : r # i[1] /\ saved[r].status # "PASS" =>
                \A side \in Sides : posts[<<r, side>>] = 0
    BY <2>2, OneRunExecutes
  <2>4. Effect(<<i[1], "BUY">>).btc \in Int /\ Effect(<<i[1], "SELL">>).btc \in Int
        /\ Effect(<<i[1], "BUY">>)'.btc \in Int /\ Effect(<<i[1], "SELL">>)'.btc \in Int
    <3>1. <<i[1], "BUY">> \in Ids /\ <<i[1], "SELL">> \in Ids
      BY <2>1, IdsAre
    <3>2. \A j \in Ids : fill[j] \in [qty : Nat, quote : Nat, fee : Nat]
                         /\ fill'[j] \in [qty : Nat, quote : Nat, fee : Nat]
      BY <1>2 DEF BooksOK
    <3> QED
      BY <3>1, <3>2 DEF Effect
  <2>5. funds'.btc >= AccountBtc + Effect(<<i[1], "BUY">>)'.btc + Effect(<<i[1], "SELL">>)'.btc
    BY <2>1, <2>3, <2>4, <1>1, <1>2 DEF Moved
  <2>6. funds'.btc >= AccountBtc
    BY <2>1, <2>4, <2>5, <1>2 DEF Moved
  <2>7. ASSUME NEW r \in Runs, r # i[1], saved'[r].status # "PASS"
        PROVE  funds'.btc >= AccountBtc + Effect(<<r, "BUY">>)'.btc + Effect(<<r, "SELL">>)'.btc
    <3>1. <<r, "BUY">> \in Ids /\ <<r, "SELL">> \in Ids
      BY IdsAre
    <3>2. posts[<<r, "BUY">>] = 0 /\ posts[<<r, "SELL">>] = 0
      BY <2>2, <2>3, <2>7 DEF Sides
    <3>3. ex[<<r, "BUY">>] \notin Executed /\ ex[<<r, "SELL">>] \notin Executed
      BY <3>1, <3>2, PostedOnce
    <3>4. Effect(<<r, "BUY">>).btc = 0 /\ Effect(<<r, "SELL">>).btc = 0
      BY <3>1, <3>3, NothingMoved
    <3>5. <<r, "BUY">> # i /\ <<r, "SELL">> # i
      BY <2>7, <3>1, IdsAre
    <3>6. \A j \in Ids : j # i => fill'[j] = fill[j]
      BY <1>2, <1>5 DEF Execute, BooksOK
    <3>7. fill'[<<r, "BUY">>] = fill[<<r, "BUY">>] /\ fill'[<<r, "SELL">>] = fill[<<r, "SELL">>]
      BY <3>1, <3>5, <3>6
    <3>8. Effect(<<r, "BUY">>)' = Effect(<<r, "BUY">>)
          /\ Effect(<<r, "SELL">>)' = Effect(<<r, "SELL">>)
      BY <3>7 DEF Effect
    <3> QED
      BY <3>4, <3>8, <2>6, <1>2
  <2> QED
    BY <2>5, <2>6, <2>7 DEF HoldingsInv, HoldingsKept
<1> QED
  BY <1>4, <1>5

----------------------------------------------------------------------------
(* The invariant *)

LEMMA InductiveInit == Init => Inductive
<1> SUFFICES ASSUME Init PROVE Inductive
  OBVIOUS
<1>1. RequestOK /\ StopOK /\ LocalsOK /\ BooksOK
  BY RequestInit, StopInit, LocalsInit, BooksInit
<1>2. /\ saved = [r \in Runs |-> NoRow] /\ journal = [i \in Ids |-> 0]
      /\ posts = [i \in Ids |-> 0] /\ ex = [i \in Ids |-> "absent"]
      /\ fill = [i \in Ids |-> NoFill] /\ funds.btc = AccountBtc /\ pc = "idle"
  BY DEF Init
<1>3. TypeOK /\ RequestInv
  BY <1>1, TypeParts
<1>4. NoFill.qty = 0 /\ NoFill.fee = 0 /\ "absent" \notin Executed /\ "absent" # "filled"
  BY DEF NoFill, Executed
<1>5. \A i \in Ids : OrderInv(i)
  BY <1>2, <1>4 DEF OrderInv
<1>6. \A r \in Runs : <<r, "BUY">> \in Ids /\ <<r, "SELL">> \in Ids
                      /\ saved[r] = NoRow /\ saved[r].status # "PASS"
  <2> SUFFICES ASSUME NEW r \in Runs
               PROVE  /\ <<r, "BUY">> \in Ids /\ <<r, "SELL">> \in Ids
                      /\ saved[r] = NoRow /\ saved[r].status # "PASS"
    BY Zenon
  <2>1. saved[r] = NoRow /\ saved[r].status # "PASS"
    BY <1>2, NoRowTyped
  <2> QED
    BY <2>1, IdsAre
<1>7. \A r \in Runs : SaleInv(r)
  BY <1>2, <1>6 DEF SaleInv
<1>8. RowInv /\ PassIsRoundTrip
  BY <1>2, <1>6 DEF RowInv, Submitted, PassIsRoundTrip
<1>9. RunInv /\ LegInv /\ SizeInv /\ ResumeInv
  BY <1>2 DEF RunInv, LegInv, SizeInv, ResumeInv, Executing, Ordering, Queries, Resuming
<1>10. HoldingsInv
  <2>1. ASSUME NEW r \in Runs
        PROVE  Effect(<<r, "BUY">>).btc = 0 /\ Effect(<<r, "SELL">>).btc = 0
    <3>1. /\ <<r, "BUY">> \in Ids /\ <<r, "SELL">> \in Ids
          /\ <<r, "BUY">>[2] = "BUY" /\ <<r, "SELL">>[2] = "SELL"
      BY IdsAre
    <3>2. fill[<<r, "BUY">>] = NoFill /\ fill[<<r, "SELL">>] = NoFill
      BY <3>1, <1>2
    <3>3. NoFill \in [qty : Nat, quote : Nat, fee : Nat]
      BY DEF NoFill
    <3> QED
      BY <3>1, <3>2, <3>3, <1>4, EffectTyped
  <2>2. funds.btc = AccountBtc /\ AccountBtc \in Nat
    BY <1>2, ConstantsTyped
  <2> QED
    BY <2>1, <2>2 DEF HoldingsInv, HoldingsKept
<1> QED
  BY <1>3, <1>5, <1>7, <1>8, <1>9, <1>10 DEF Inductive

LEMMA InductiveStep == Inductive /\ Next => Inductive'
<1> SUFFICES ASSUME Inductive, Next PROVE Inductive'
  OBVIOUS
<1>1. TypeOK' /\ RequestInv'
  BY AllTyped, TypeParts DEF TypeOK, RequestOK, StopOK, LocalsOK, BooksOK, AdapterTypeOK
<1>2. (\A i \in Ids : OrderInv(i))' /\ (\A r \in Runs : SaleInv(r))'
  BY OrdersKept, SalesKept
<1>3. RowInv' /\ PassIsRoundTrip'
  BY RowsKept, PassKept
<1>4. RunInv' /\ LegInv' /\ SizeInv' /\ ResumeInv' /\ HoldingsInv'
  BY RunKept, LegKept, SizeKept, ResumeKept, HoldingsStay
<1> QED
  BY <1>1, <1>2, <1>3, <1>4 DEF Inductive

LEMMA InductiveStutters == Inductive /\ UNCHANGED vars => Inductive'
<1> SUFFICES ASSUME Inductive, UNCHANGED vars PROVE Inductive'
  OBVIOUS
<1>1. /\ UNCHANGED <<frames, at, age, quiet, nap, armed, killed, reason, origin>>
      /\ UNCHANGED <<saved, journal, pc, run, leg, state, price, qty, todo>>
      /\ UNCHANGED <<ex, fill, funds, posts, external>>
  BY DEF vars, timers, stop, durable, locals, exchange
<1>2. TypeOK' /\ RequestInv'
  BY <1>1 DEF Inductive, TypeOK, AdapterTypeOK, RequestInv
<1>3. (\A i \in Ids : OrderInv(i))' /\ (\A r \in Runs : SaleInv(r))'
  BY <1>1 DEF Inductive, OrderInv, SaleInv, Effect
<1>4. RowInv' /\ PassIsRoundTrip'
  BY <1>1 DEF Inductive, RowInv, Submitted, PassIsRoundTrip, Effect
<1>5. RunInv' /\ LegInv'
  BY <1>1 DEF Inductive, RunInv, MayBegin, LegInv
<1>6. SizeInv' /\ ResumeInv'
  BY <1>1 DEF Inductive, SizeInv, Id, Effect, ResumeInv, Submitted
<1>7. HoldingsInv'
  BY <1>1 DEF Inductive, HoldingsInv, HoldingsKept, Effect
<1> QED
  BY <1>2, <1>3, <1>4, <1>5, <1>6, <1>7 DEF Inductive

\* The strengthening of the acceptance command is an invariant: the request
\* under way, the orders, the rows, the points of an execution and of a
\* resumption, and the holdings (testnet_acceptance.py with binance.py).
THEOREM InductiveHolds == Spec => []Inductive
<1>1. Inductive /\ [Next]_vars => Inductive'
  BY InductiveStep, InductiveStutters
<1> QED
  BY InductiveInit, <1>1, PTL DEF Spec

\* Every variable has its type, and requests are under way only where the
\* program makes them.
THEOREM TypeCorrect == Spec => []TypeOK
<1>1. Inductive => TypeOK
  BY DEF Inductive
<1> QED
  BY <1>1, InductiveHolds, PTL

\* No order leaves twice, through all retries of _request and repetitions of the
\* command, and no run orders while another has ordered and not passed.
THEOREM OrdersLeaveOnce == Spec => []OneRoundTrip
<1>1. Inductive => OneRoundTrip
  <2> SUFFICES ASSUME Inductive PROVE OneRoundTrip
    OBVIOUS
  <2>1. \A i \in Ids : posts[i] <= 1
    BY DEF Inductive, OrderInv
  <2>2. ASSUME NEW r \in Runs, NEW side \in Sides, journal[<<r, side>>] # 0
        PROVE  saved[r] # NoRow
    BY <2>2 DEF Inductive, RowInv, Submitted, Ids
  <2> QED
    BY <2>1, <2>2 DEF OneRoundTrip, Inductive, RowInv
<1> QED
  BY <1>1, InductiveHolds, PTL

\* A run that has passed sent both its orders once, both executed completely, and
\* their fills are all that moved the account between its two readings.
THEOREM PassesAreRoundTrips == Spec => []PassIsRoundTrip
<1>1. Inductive => PassIsRoundTrip
  BY DEF Inductive
<1> QED
  BY <1>1, InductiveHolds, PTL

\* The account never holds less BTC than before the command was first run.
THEOREM HoldingsAreKept == Spec => []HoldingsKept
<1>1. Inductive => HoldingsKept
  BY DEF Inductive, HoldingsInv
<1> QED
  BY <1>1, InductiveHolds, PTL

\* Only check_and_resume lifts the stop, and then no order that was ever
\* submitted can still execute.
THEOREM ResumesWhenSettled == Spec => ResumeOnlyWhenSettled
<1>1. Inductive /\ [Next]_vars
        => [killed /\ ~killed' => \A i \in Submitted : ex[i] \in Executed]_vars
  <2> SUFFICES ASSUME Inductive, Next, killed, ~killed'
               PROVE  \A i \in Submitted : ex[i] \in Executed
    BY DEF vars, stop
  <2>1. Lift
    <3>1. ~UNCHANGED stop /\ ~UNCHANGED fixed
      <4>1. killed = TRUE /\ killed' = FALSE
        BY Typed, StopTyped DEF StopOK
      <4>2. stop' # stop
        BY <4>1, Zenon DEF stop
      <4> QED
        BY <4>2, Zenon DEF fixed
    <3>2. \A code \in StopCodes \cup {"none"}, cause \in StopCodes \cup {"none"} :
            ~TripsFor(code, cause)
      BY <3>1 DEF TripsFor
    <3>3. ~RequestSteps /\ ~OutsideSteps
      BY <3>1 DEF RequestSteps, Inner, Proceed, Synchronize, Enter, RetryLost, RetryLimited,
         Retry, WakeUp, Resync, Synchronized, SendRead, Post, Send, Clock, Tick,
         OutsideSteps, BeginStopped, Stop, External, Execute
    <3>4. ~GoingSteps
      BY <3>1, <3>2 DEF GoingSteps, NoneOpen, Before, Quoted, Sized, Claim, Posted, Found,
         FillsRead, Reconciled, Trips, StopCodes, ResumeFound, NextResolved, BeginResume, Begin
    <3>5. ~PostRaises
      BY <3>2 DEF PostRaises, Trips
    <3>6. ~NotReconciled /\ ~ReadRaises
      BY <3>2 DEF NotReconciled, ReadRaises, Trips, StopCodes
    <3> QED
      BY <3>1, <3>3, <3>4, <3>5, <3>6, StepKinds
         DEF LeavingSteps, Compare, Refused, ResumeRefused, ResumeRaises, Crash
  <2>2. pc = "lift"
    BY <2>1 DEF Lift
  <2> QED
    BY <2>2 DEF Inductive, ResumeInv, Resuming
<1> QED
  BY <1>1, InductiveHolds, PTL DEF Spec, ResumeOnlyWhenSettled

\* No request leaves while the exchange wants none, whether it was asked for
\* during this request or before it (_request and its retry_after).
THEOREM QuietIsKept == Spec => QuietWhileLimited
<1>1. Inductive /\ [Next]_vars => [at # "wire" /\ at' = "wire" => quiet = 0]_vars
  <2> SUFFICES ASSUME Inductive, Next, at # "wire", at' = "wire" PROVE quiet = 0
    BY DEF vars
  <2>1. Send
    <3>1. ~(UNCHANGED request) /\ ~(UNCHANGED <<frames, at>>)
      BY DEF request
    <3>2. ~NoCall /\ ~Leave /\ ~(\E p \in Calls : Goto(p)) /\ ~(\E kind \in Kinds : Call(kind))
      BY DEF NoCall, Leave, Goto, Call
    <3>3. ~Block /\ ~LeavingSteps
      BY <3>2 DEF LeavingSteps, NotReconciled, Compare, Refused, ReadRaises, ResumeRefused,
         ResumeRaises, Lift, Crash, Block
    <3>4. ~OutsideSteps /\ ~Clock
      BY <3>1 DEF OutsideSteps, BeginStopped, Stop, External, Execute, Clock, Tick
    <3>5. ~GoingSteps
      BY <3>2 DEF GoingSteps, NoneOpen, Before, Quoted, Sized, Claim, Posted, Found,
         FillsRead, Reconciled, ResumeFound, NextResolved, Examine, BeginResume, Begin,
         BeginLeg, Goto, Call, NoCall
    <3>6. ~PostRaises
      BY <3>2, <3>3 DEF PostRaises, Goto, Call
    <3>7. ~Proceed
      BY DEF Proceed, Synchronize, Enter, MayEnter, RetryLost, RetryLimited, Retry, WakeUp,
         Resync, Synchronized
    <3> QED
      BY <3>3, <3>4, <3>5, <3>6, <3>7, StepKinds DEF RequestSteps, Inner, SendRead, Post
  <2> QED
    BY <2>1 DEF Send, Inductive, RequestInv
<1> QED
  BY <1>1, InductiveHolds, PTL DEF Spec, QuietWhileLimited

=============================================================================
