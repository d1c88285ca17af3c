---------------------------- MODULE MCRunsAndLock ----------------------------
(***************************************************************************)
(* RunExecution and ControlLock on small instances.  They share no state   *)
(* (ControlLock has its own view of one session's run), so a behaviour is  *)
(* one of either: focus says which, and the other stays as it begins.      *)
(***************************************************************************)
EXTENDS ControlLock

CONSTANTS
  NumRuns, Session, NoSession, LocalRun, EngineRun, MaxListed, MayBeUnbound, MayRebind, MayReviveLive

VARIABLES focus, st, bs, task, lease, owner, cancel, inflight

Runs == INSTANCE RunExecution

lockVars == vars
runVars  == <<st, bs, task, lease, owner, cancel, inflight>>

MCInit ==
  /\ focus \in {"runs", "lock"}
  /\ Runs!Init
  /\ Init /\ (focus = "runs" => run = "other")

MCNext ==
  /\ UNCHANGED focus
  /\ \/ focus = "runs" /\ Runs!Next /\ UNCHANGED lockVars
     \/ focus = "lock" /\ Next /\ UNCHANGED runVars

MCSpec == MCInit /\ [][MCNext]_<<focus, lockVars, runVars>>

-----------------------------------------------------------------------------
\* What RunExecution states of a task that ends: see there.
HandoverComplete == Runs!HandoverComplete
=============================================================================
