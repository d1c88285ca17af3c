----------------------------- MODULE ComputerUse -----------------------------
(***************************************************************************)
(* A computer-use request and its run: computer_use/service.py (a prompt   *)
(* becomes a run), computer_use/intake.py (now or later) and               *)
(* computer_use/runtime.py (the task that executes the run), with the user *)
(* actions of run_service.py and the computer_use branches of executor.py. *)
(* The engine itself is one await here (see ComputerEngine): it returns a  *)
(* result, fails or raises.  A run of this engine takes no session lease   *)
(* (see RunExecution).                                                     *)
(*                                                                         *)
(* A step is what runs between two awaits that can wait for something:     *)
(* the store is local and answers at once.                                 *)
(*                                                                         *)
(* A result without success is told to the conversation first, in a phase  *)
(* that ConversationTaskPhase does not have: the row saved so is refused   *)
(* when it is loaded again, at once by publish_assistant_run_update, and   *)
(* the run is never written failed.                                        *)
(***************************************************************************)
EXTENDS Naturals, RunStates

CONSTANT MaxTask   \* asyncio tasks of the run that may exist at a time

Task == 1..MaxTask
NoTask == 0

VARIABLES
  ask,       \* the request: where its handler stands, and what it asked for
  phase,     \* phase of the conversation's task, none without one
  state,     \* state of the run
  mode,      \* executor_mode
  browser,   \* does the run's session have a live browser?
  doing,     \* does the run's progress name an action under way?
  slot,      \* _tasks[run_id]
  at,        \* where each task of the run stands
  cut,       \* tasks with a pending CancelledError
  inflight   \* handlers waiting in the middle of a user action

vars == <<ask, phase, state, mode, browser, doing, slot, at, cut, inflight>>
runVars == <<ask, mode, browser>>

Target  == {"auto", "my_browser", "managed_browser"}
Request == [step : {"new", "intake", "browser", "over"}, target : Target,
            kept : BOOLEAN, own : BOOLEAN, later : BOOLEAN]
Waits   == {"begin", "browser", "engine", "sync", "dying"}

TypeOK ==
  /\ ask \in Request
  /\ phase \in {"none", "open", "collecting_requirements", "awaiting_user_action", "scheduled",
                "executing", "completed", "needs_attention"}
  /\ state \in RunState \cup {"absent"} /\ mode \in {"local_runner", "server_runner"}
  /\ browser \in BOOLEAN /\ doing \in BOOLEAN /\ slot \in Task \cup {NoTask}
  /\ at \in [Task -> Waits \cup {"none", "done"}] /\ cut \subseteq Task
  /\ inflight \subseteq {"pause", "stop"}

Init ==
  /\ ask \in [step : {"new"}, target : Target, kept : BOOLEAN, own : BOOLEAN, later : {FALSE}]
  /\ phase = "open" /\ state = "absent" /\ mode = "server_runner" /\ browser = TRUE /\ doing = FALSE
  /\ slot = NoTask /\ at = [t \in Task |-> "none"] /\ cut = {} /\ inflight = {}

-----------------------------------------------------------------------------
(* start, cancel and has_live of runtime.py.                               *)

Done(t) == at[t] \in {"none", "done"}
Live    == slot # NoTask /\ ~Done(slot)

\* Mutant: a task that is being cancelled does not count.
StartUncut ==
  IF Live /\ slot \notin cut THEN UNCHANGED <<slot, at>>
  ELSE \E t \in Task : at[t] = "none" /\ slot' = t /\ at' = [at EXCEPT ![t] = "begin"]

\* start_computer_use_run; a task is known by its id until its cleanup ran.
Start ==
  IF Live THEN UNCHANGED <<slot, at>>
  ELSE \E t \in Task : at[t] = "none" /\ slot' = t /\ at' = [at EXCEPT ![t] = "begin"]

Cancelled == IF Live THEN cut \cup {slot} ELSE cut

\* The done callback of a task only forgets the task itself.
CleanUp(t) ==
  /\ at[t] = "done" /\ at' = [at EXCEPT ![t] = "none"]
  /\ slot' = IF slot = t THEN NoTask ELSE slot
  /\ UNCHANGED <<runVars, phase, state, doing, cut, inflight>>

-----------------------------------------------------------------------------
(* The request.                                                            *)

\* What the model may say of the timing, and what is made of it.
Timing == [mode : {"immediate", "once", "interval"}, unclear : BOOLEAN, timed : BOOLEAN]
Unclear(d) == d.unclear \/ (d.mode # "immediate" /\ ~d.timed)

Ask ==
  /\ ask.step = "new" /\ ask' = [ask EXCEPT !.step = "intake"]
  /\ UNCHANGED <<phase, state, mode, browser, doing, slot, at, cut, inflight>>

\* Every candidate model may fail: the request then ends with the turn saved.
Intake ==
  /\ ask.step = "intake"
  /\ \/ ask' = [ask EXCEPT !.step = "over"] /\ UNCHANGED phase
     \/ \E d \in Timing :
          IF Unclear(d)
          THEN ask' = [ask EXCEPT !.step = "over"] /\ phase' = "collecting_requirements"
          ELSE /\ ask' = [ask EXCEPT !.step = "browser", !.later = d.mode # "immediate"]
               /\ UNCHANGED phase
  /\ UNCHANGED <<state, mode, browser, doing, slot, at, cut, inflight>>

\* _ensure_browser_session: kept says that the conversation's session is live,
\* own that the user's own browser is.
OwnBrowser == ask.own /\ ask.target # "managed_browser"
Chosen ==
  IF ask.kept THEN (IF ask.target = "my_browser" THEN "local_runner" ELSE "server_runner")
  ELSE IF OwnBrowser THEN "local_runner"
  ELSE IF ask.target = "my_browser" THEN "nothing" ELSE "server_runner"

Over == ask' = [ask EXCEPT !.step = "over"]

NoBrowser ==
  /\ ask.step = "browser" /\ Over
  /\ \/ Chosen = "nothing" /\ phase' = "awaiting_user_action"
     \/ Chosen = "server_runner" /\ ~ask.kept /\ UNCHANGED phase   \* ensure_session raised
  /\ UNCHANGED <<state, mode, browser, doing, slot, at, cut, inflight>>

Schedule ==
  /\ ask.step = "browser" /\ ask.later /\ Chosen # "nothing"
  /\ Over /\ phase' = "scheduled"
  /\ UNCHANGED <<state, mode, browser, doing, slot, at, cut, inflight>>

\* Plan and run are saved, the conversation is told, then the run is started.
CreateRun ==
  /\ ask.step = "browser" /\ ~ask.later /\ Chosen # "nothing"
  /\ Over /\ phase' = "executing"
  /\ state' = "queued" /\ mode' = Chosen /\ Start
  /\ UNCHANGED <<browser, doing, cut, inflight>>

-----------------------------------------------------------------------------
(* User actions on the run.                                                *)

Writes(s) == state' = s /\ UNCHANGED <<runVars, phase, doing>>

\* The automation runtime is told first when the run is a local one, which waits.
Interrupts(op, s) ==
  /\ Allowed(state, op) /\ Writes(s)
  /\ IF mode = "local_runner" THEN inflight' = inflight \cup {op} /\ UNCHANGED cut
     ELSE cut' = Cancelled /\ UNCHANGED inflight
  /\ UNCHANGED <<slot, at>>

Pause == Interrupts("pause", "paused")
Stop  == Interrupts("stop", "cancelled")

RuntimeAnswers(op) ==
  /\ op \in inflight /\ inflight' = inflight \ {op}
  /\ cut' = Cancelled
  /\ UNCHANGED <<runVars, phase, state, doing, slot, at>>

\* Reached by a resume, an approval and the end of human control.
Reconcile ==
  /\ state \in ACTION_ALLOWED_STATES["resume"] /\ Writes("reconciling") /\ Start
  /\ UNCHANGED <<cut, inflight>>

\* It may name another session of the user; one that is not theirs is refused after
\* the state was written.  A task on its way out counts as live: nothing is started
\* then.  With or without it the run is live afterwards, so the second try of
\* _start_execution_with_retry never comes.
Retry ==
  /\ Allowed(state, "retry") /\ state' = "starting"
  /\ \/ browser' \in {browser, TRUE} /\ Start
     \/ UNCHANGED <<browser, slot, at>>
  /\ UNCHANGED <<ask, mode, phase, doing, cut, inflight>>

\* A report of an interruption and a takeover write a state and leave the task alone.
Interrupt == Allowed(state, "interrupt") /\ Writes("paused") /\ UNCHANGED <<slot, at, cut, inflight>>

Takeover ==
  /\ state \in TakeoverCandidates \ {"human_controlling"} /\ Writes("human_controlling")
  /\ UNCHANGED <<slot, at, cut, inflight>>

\* The session's browser goes away.
BrowserGone ==
  /\ state # "absent" /\ browser /\ browser' = FALSE
  /\ UNCHANGED <<ask, mode, phase, state, doing, slot, at, cut, inflight>>

-----------------------------------------------------------------------------
(* The task: _execute_computer_use_run.                                    *)

Runs(t, w) == at[t] = w /\ t \notin cut
Goes(t, w) == at' = [at EXCEPT ![t] = w]
Ends(t)    == Goes(t, "done") /\ cut' = cut \ {t}

\* starting and running are written one after the other, over any state.
Drive(t) == Goes(t, "engine") /\ state' = "running"

Begin(t) ==
  /\ Runs(t, "begin")
  /\ IF browser THEN Drive(t) ELSE Goes(t, "browser") /\ UNCHANGED state
  /\ UNCHANGED <<runVars, phase, doing, slot, cut, inflight>>

\* The plan's row is not to be had.
NoPlan(t) ==
  /\ Runs(t, "begin") /\ Ends(t) /\ state' = "failed"
  /\ UNCHANGED <<runVars, phase, doing, slot, inflight>>

\* A new managed session; the task dies of a failure here, the run as it was.
Rehydrate(t) ==
  /\ Runs(t, "browser")
  /\ \/ Drive(t) /\ browser' = TRUE /\ UNCHANGED cut
     \/ Ends(t) /\ UNCHANGED <<state, browser>>
  /\ UNCHANGED <<ask, mode, phase, doing, slot, inflight>>

\* on_event: what the engine does is told in the run's progress.
Acts(t) ==
  /\ Runs(t, "engine") /\ ~doing /\ doing' = TRUE
  /\ UNCHANGED <<runVars, phase, state, slot, at, cut, inflight>>

\* The end comes with an event of its own, then the session's pages are read.
Succeeds(t) ==
  /\ Runs(t, "engine") /\ Goes(t, "sync") /\ doing' = FALSE
  /\ UNCHANGED <<runVars, phase, state, slot, cut, inflight>>

Outcome(t, s) == Ends(t) /\ state' = s /\ doing' = FALSE /\ UNCHANGED <<runVars, slot, inflight>>

\* Of an exception the conversation is not told.
Raised(t) == Runs(t, "engine") /\ Outcome(t, "failed") /\ UNCHANGED phase

\* The phase that is saved for failed is none of a conversation's.
Unloadable == phase = "needs_attention"

\* The task dies of an exception of its own: the run stays as it was.
Dies(t) == Ends(t) /\ UNCHANGED <<runVars, state, doing, slot, inflight>>

\* The conversation is told before the run is written, which is not reached when the
\* row cannot be loaded again.
GivesUp(t) ==
  /\ Runs(t, "engine")
  /\ IF phase = "none" THEN Outcome(t, "failed") /\ UNCHANGED phase
     ELSE Dies(t) /\ phase' = "needs_attention"

\* What fails after the conversation was told leaves the run running.
Completes(t) ==
  /\ Runs(t, "sync")
  /\ IF Unloadable THEN Dies(t) /\ UNCHANGED phase
     ELSE /\ Outcome(t, "completed") \/ Dies(t)
          /\ phase' = IF phase = "none" THEN phase ELSE "completed"

\* Mutant: a cancelled execution is one that failed.
CutOffFails(t) ==
  /\ t \in cut /\ at[t] = "engine" /\ Ends(t) /\ state' = "failed"
  /\ UNCHANGED <<runVars, phase, doing, slot, inflight>>

\* A CancelledError writes nothing; the engine first gives its connection up.
CutOff(t) ==
  /\ t \in cut /\ ~Done(t)
  /\ IF at[t] = "engine" THEN Goes(t, "dying") /\ UNCHANGED cut ELSE Ends(t)
  /\ UNCHANGED <<runVars, phase, state, doing, slot, inflight>>

\* The process ends: its tasks and handlers are gone, the rows stay.
Crash ==
  /\ state # "absent"
  /\ slot' = NoTask /\ at' = [t \in Task |-> "none"] /\ cut' = {} /\ inflight' = {}
  /\ UNCHANGED <<runVars, phase, state, doing>>

\* Whoever else writes the conversation's task (see Conversation): a turn with a copy of
\* its own, a deletion.
Rewritten ==
  /\ ask.step = "over" /\ phase' \in {"none", "open"}
  /\ UNCHANGED <<runVars, state, doing, slot, at, cut, inflight>>

Engine(t) ==
  \/ Begin(t) \/ NoPlan(t) \/ Rehydrate(t) \/ Acts(t) \/ Succeeds(t) \/ Raised(t) \/ GivesUp(t)
  \/ Completes(t) \/ CutOff(t) \/ CleanUp(t)

User ==
  \/ Pause \/ Stop \/ Reconcile \/ Retry \/ Interrupt \/ Takeover
  \/ \E op \in {"pause", "stop"} : RuntimeAnswers(op)

Next ==
  \/ Ask \/ Intake \/ NoBrowser \/ Schedule \/ CreateRun
  \/ User \/ BrowserGone \/ Crash \/ Rewritten
  \/ \E t \in Task : Engine(t)

Spec == Init /\ [][Next]_vars

-----------------------------------------------------------------------------
\* However starts, cancellations and cleanups interleave, one task at most drives
\* the browser of the run: two engines would click into each other's page.
OneEngine == \A t, u \in Task : ~Done(t) /\ ~Done(u) => t = u

\* A run the backend itself executes and the user has stopped gets no outcome from
\* the task that was stopped.  (The task of a local run goes on while the automation
\* runtime is asked, and may still write one.)
StopSticks ==
  [][mode = "server_runner" /\ state = "cancelled" => state' \notin {"completed", "failed"}]_vars
=============================================================================
