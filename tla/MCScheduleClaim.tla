--------------------------- MODULE MCScheduleClaim ---------------------------
(* ScheduleClaim on small instances. *)
EXTENDS ScheduleClaim
=============================================================================
