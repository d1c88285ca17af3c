---------------------------- MODULE MCRuntimeRuns ----------------------------
(* RuntimeRuns on small instances. *)
EXTENDS RuntimeRuns
=============================================================================
