----------------------------- MODULE MCSoakReport -----------------------------
(* SoakReport on a small instance. *)
EXTENDS SoakReport

=============================================================================
