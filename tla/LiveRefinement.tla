--------------------------- MODULE LiveRefinement ---------------------------
(***************************************************************************)
(* LiveControl implements OrderOnce.  An order's stage is read off durable *)
(* state and the exchange alone: what the lock holder has in memory, the   *)
(* switch, proposals and the clock are all hidden.                         *)
(***************************************************************************)
EXTENDS LiveControl

StageOf(i) ==
    IF i \in BookedIds(disk) THEN "booked"
    ELSE IF ex[i] \in {"filled", "odd"} THEN "executed"
    ELSE IF posts[i] > 0 THEN "sent"
    ELSE IF i = disk.pending THEN "intended" ELSE "new"

Amount(f) == [cash |-> f.cash, btc |-> f.btc]

\* Nothing is compared before the ledger is bound to the account.
AccountMoved ==
    IF disk.bound THEN [cash |-> funds.cash - disk.base.cash - ext,
                        btc |-> funds.btc - disk.base.btc]
    ELSE [cash |-> 0, btc |-> 0]

Once == INSTANCE OrderOnce WITH
            stage   <- [i \in Ids |-> StageOf(i)],
            sends   <- posts,
            current <- disk.pending,
            moved   <- [i \in Ids |-> Amount(fill[i])],
            books   <- [cash |-> disk.cash - Capital, btc |-> disk.btc],
            account <- AccountMoved

\* Every step of the order path, crashes, lost replies and failed saves
\* included, is a step of OrderOnce or changes nothing it can see.
RefinesOrderOnce == Once!Spec

=============================================================================
