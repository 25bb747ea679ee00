--------------------------- MODULE MCLiveControl ---------------------------
(* LiveControl on a small instance. *)
EXTENDS LiveRefinement, TLC

\* Order ids are interchangeable: they are minted fresh and only compared.
Symmetry == Permutations(Ids)

=============================================================================
