---------------------------- MODULE MCAcceptance ----------------------------
(* Acceptance on a small instance. *)
EXTENDS Acceptance

CONSTANTS r1, r2

=============================================================================
