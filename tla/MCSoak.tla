------------------------------- MODULE MCSoak -------------------------------
(* Soak on a small instance. *)
EXTENDS Soak

=============================================================================
