----------------------------- MODULE OrderOnce -----------------------------
(***************************************************************************)
(* What the order path promises, whatever process carries it out and      *)
(* however often that process dies: one order at a time is intended, an    *)
(* intended order is sent at most once, and what the exchange did with it  *)
(* enters the books exactly once, before another order may be intended.    *)
(* An order whose outcome stays unknown blocks every later one.            *)
(***************************************************************************)
EXTENDS Integers

CONSTANTS Ids, None

VARIABLES
    stage,     \* how far each order has come
    sends,     \* how often it was sent
    current,   \* the order that is intended and not yet booked
    moved,     \* what its execution moved on the account
    books,     \* what the ledger says was moved
    account    \* what was moved on the account

vars == <<stage, sends, current, moved, books, account>>

Amounts == [cash : Int, btc : Int]
Nothing == [cash |-> 0, btc |-> 0]
Plus(a, b) == [cash |-> a.cash + b.cash, btc |-> a.btc + b.btc]

Init ==
    /\ stage = [i \in Ids |-> "new"]
    /\ sends = [i \in Ids |-> 0]
    /\ current = None
    /\ moved = [i \in Ids |-> Nothing]
    /\ books = Nothing /\ account = Nothing

Intend(i) ==
    /\ current = None /\ stage[i] = "new"
    /\ current' = i
    /\ stage' = [stage EXCEPT ![i] = "intended"]
    /\ UNCHANGED <<sends, moved, books, account>>

Send(i) ==
    /\ current = i /\ stage[i] = "intended"
    /\ stage' = [stage EXCEPT ![i] = "sent"]
    /\ sends' = [sends EXCEPT ![i] = @ + 1]
    /\ UNCHANGED <<current, moved, books, account>>

Execute(i) ==
    /\ stage[i] = "sent"
    /\ stage' = [stage EXCEPT ![i] = "executed"]
    /\ LET m == moved'[i]
       IN  /\ m \in Amounts
           /\ moved' = [moved EXCEPT ![i] = m]
           /\ account' = Plus(account, m)
    /\ UNCHANGED <<sends, current, books>>

Book(i) ==
    /\ current = i /\ stage[i] = "executed"
    /\ stage' = [stage EXCEPT ![i] = "booked"]
    /\ current' = None
    /\ books' = Plus(books, moved[i])
    /\ UNCHANGED <<sends, moved, account>>

Next == \E i \in Ids : Intend(i) \/ Send(i) \/ Execute(i) \/ Book(i)

Spec == Init /\ [][Next]_vars

=============================================================================
