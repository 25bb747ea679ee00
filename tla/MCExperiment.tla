---------------------------- MODULE MCExperiment ----------------------------
(* Experiment on a small instance. *)
EXTENDS Experiment, TLC

CONSTANTS s1, s2

BothArms == <<"sma5m", "trend1h">>
OneArm == <<"sma5m">>

\* Both symbols move together.
MCQuotes == {[s \in Symbols |-> p] : p \in {2, 4}}

OneQuote == {[s \in Symbols |-> 3]}

Symmetry == Permutations(Symbols)

=============================================================================
