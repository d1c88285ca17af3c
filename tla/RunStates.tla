----------------------------- MODULE RunStates -----------------------------
(***************************************************************************)
(* The states of an automation run and the sets of states the backend      *)
(* tests before it acts: automation/state_machine.py (which user action is *)
(* allowed where), automation/executor.py (which states hold or release a  *)
(* browser session) and automation/run_service.py (which runs a human      *)
(* takeover may pick).                                                     *)
(***************************************************************************)

Actions == {"pause", "resume", "stop", "retry", "interrupt", "approve_sensitive_action"}

ACTION_ALLOWED_STATES ==
  [pause     |-> {"queued", "starting", "running", "retrying", "reconciling", "resuming"},
   resume    |-> {"paused", "waiting_for_user_action", "waiting_for_human",
                  "human_controlling", "reconciling"},
   stop      |-> {"queued", "starting", "running", "paused", "retrying",
                  "waiting_for_user_action", "waiting_for_human", "human_controlling",
                  "reconciling", "resuming", "scheduled"},
   retry     |-> {"failed", "cancelled", "canceled", "expired", "timed_out"},
   interrupt |-> {"queued", "starting", "running", "retrying", "reconciling", "resuming"},
   approve_sensitive_action
             |-> {"waiting_for_human", "waiting_for_user_action", "reconciling"}]

TERMINAL_STATES ==
  {"completed", "succeeded", "cancelled", "canceled", "failed", "expired", "timed_out"}

\* States in which the executor considers the run's browser session taken.
HoldsBrowserSession ==
  {"starting", "running", "paused", "waiting_for_user_action", "waiting_for_human",
   "human_controlling", "reconciling", "resuming", "retrying"}

\* States on whose entry the executor gives the browser session up.
ReleasesBrowserSession ==
  {"completed", "succeeded", "failed", "cancelled", "canceled", "timed_out", "expired"}

\* States that keep a browser session even when no task of the run is alive:
\* the run is waiting for somebody.
AwaitsUser ==
  {"waiting_for_user_action", "waiting_for_human", "human_controlling", "paused"}

\* Runs a human who takes a browser session over may interrupt.
TakeoverCandidates ==
  {"queued", "starting", "running", "paused", "waiting_for_user_action",
   "waiting_for_human", "human_controlling", "resuming", "retrying"}

RunState ==
  TERMINAL_STATES \cup HoldsBrowserSession \cup
  {"draft", "awaiting_clarification", "awaiting_execution_mode",
   "awaiting_confirmation", "scheduled", "queued"}

\* ensure_action_allowed: the 409 of every user action.
Allowed(state, action) == state \in ACTION_ALLOWED_STATES[action]
=============================================================================
