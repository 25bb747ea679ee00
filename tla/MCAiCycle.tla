----------------------------- MODULE MCAiCycle -----------------------------
(* AiCycle on a small instance. *)
EXTENDS AiCycle, TLC

CONSTANTS s1, s2

BothSymbols == <<s1, s2>>

\* Both symbols rise and fall together, s1 within the drift limit, s2 beyond it.
MCQuotes == {(s1 :> 4 @@ s2 :> 4), (s1 :> 5 @@ s2 :> 6)}

=============================================================================
