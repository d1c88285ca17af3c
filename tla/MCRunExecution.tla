--------------------------- MODULE MCRunExecution ---------------------------
(***************************************************************************)
(* RunExecution on small instances: see the MC*.cfg files that give the    *)
(* constants their values.  Sessions are interchangeable (no definition    *)
(* tells them apart), runs are not: they are ordered by their creation.    *)
(***************************************************************************)
EXTENDS RunExecution, TLC

SessionSymmetry == Permutations(Session)
=============================================================================
