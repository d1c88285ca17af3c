---------------------------- MODULE Conversation ----------------------------
(***************************************************************************)
(* The conversation of a session: conversation_service.py (a turn of the   *)
(* chat, under the session's lock), conversation_resolver.py (what the     *)
(* turn means), conversation_store.py (the session's task), and who else   *)
(* writes that task, outside the lock: assistant_updates.py (what a run    *)
(* tells its conversation), computer_use/service.py (a request for the     *)
(* other engine) and computer_use/runtime.py (what such a run tells).      *)
(* What language models and parsers make of a text is free.                *)
(*                                                                         *)
(* A turn loads the task, waits for models, browsers, plans and starting   *)
(* runs, and writes its copy in the end; so does a request, whose waits    *)
(* (for a model, then a browser) are one here.  The store is local and     *)
(* answers at once.  Tasks are found by their last write; the newest is    *)
(* the one written last, so one row stands for them (the query returns     *)
(* twenty).                                                                *)
(***************************************************************************)
EXTENDS Naturals, RunStates

CONSTANTS
  MaxRun,    \* runs that turns and requests of the session may create
  MaxDeed    \* bound: turns, requests, what runs and users do (an end of the other engine
             \* needs a run that was set going, and is not counted)

Run   == 1..MaxRun
NoRun == 0

Intent == 1..(MaxDeed + 1)   \* one per task that may be made

VARIABLES
  task,    \* the session's newest ConversationTask
  legacy,  \* the intent last persisted, as a task made of it would look
  talk,    \* the turn that holds the session's lock
  demand,  \* the computer-use request that waits, with its copy of the task
  runs,    \* per run: its state, its interruption, the message its executor owes
  blind,   \* was the row last written by one that does not look at the run it names?
  deeds    \* how much of MaxDeed is used up

vars == <<task, legacy, talk, demand, runs, blind, deeds>>

EndPhase == {"completed", "failed", "cancelled"}
Phase    == EndPhase \cup
  {"general_chat", "collecting_requirements", "awaiting_timing", "awaiting_confirmation",
   "ready_to_execute", "executing", "awaiting_user_action", "scheduled"}
\* What the computer-use runtime saves for failed is none of them.
Stored == Phase \cup {"none", "needs_attention"}
Outcome == {"completed", "failed", "waiting_for_human"}

Timing  == {"unknown", "immediate", "later"}

Task ==
  [phase : Stored, chat : BOOLEAN, timing : Timing, missing : BOOLEAN, required : BOOLEAN,
   confirmed : {"open", "yes", "no"}, run : Run \cup {NoRun}, intent : Intent]

\* What a text is to the parsers: an answer, a word to the run ("continue" and
\* "stop" are both), a likely new request, anything else.
Text     == {"", "yes", "no", "continue", "stop", "approve", "retry", "resume", "pause",
             "request", "words"}
Yes      == {"yes", "continue"}
No       == {"no", "stop"}
RunWords == {"continue", "stop", "approve", "retry", "resume", "pause"}
RunAction(text) ==
  CASE text = "continue" -> "resume"
    [] text = "approve"  -> "approve_sensitive_action"
    [] OTHER             -> text

\* The task of a run that is lost ended without a word to the conversation.
RunRow == [state : {"absent", "awaiting_confirmation", "running", "paused", "cancelled"} \cup Outcome,
           halt : {"none", "confirm", "reply", "hard"}, owed : Outcome \cup {"none", "lost"},
           engine : BOOLEAN, intent : Intent]

TypeOK ==
  /\ task \in Task /\ legacy \in Task
  /\ talk \in [at : {"idle", "model", "browser", "start"}, task : Task, text : Text,
               action : {"none", "execute", "schedule", "confirm"}]
  /\ demand \in [waits : BOOLEAN, task : Task]
  /\ runs \in [Run -> RunRow] /\ blind \in BOOLEAN
  /\ deeds \in 0..MaxDeed

FreshTask(i) ==
  [phase |-> "collecting_requirements", chat |-> FALSE, timing |-> "unknown", missing |-> FALSE,
   required |-> FALSE, confirmed |-> "open", run |-> NoRun, intent |-> i]
NoTask    == [FreshTask(1) EXCEPT !.phase = "none"]
Idle      == [at |-> "idle", task |-> NoTask, text |-> "", action |-> "none"]
NoRequest == [waits |-> FALSE, task |-> NoTask]

\* create_conversation makes a task before the first turn.
Init ==
  /\ task \in {NoTask, FreshTask(1)} /\ legacy = NoTask /\ talk = Idle /\ demand = NoRequest
  /\ runs = [r \in Run |-> [state |-> "absent", halt |-> "none", owed |-> "none",
                            engine |-> FALSE, intent |-> 1]]
  /\ blind = FALSE /\ deeds = 0

-----------------------------------------------------------------------------
(* The task and its run.                                                   *)

\* _sync_phase_from_run; no interruption of a run is ever forgotten.
PhaseOfRun(row) ==
  CASE row.halt = "confirm" -> "awaiting_confirmation"
    [] row.halt = "reply"   -> "awaiting_user_action"
    [] row.halt = "hard"    -> "failed"
    [] row.state = "running" -> "executing"
    [] row.state \in {"waiting_for_human", "paused"} -> "awaiting_user_action"
    [] OTHER -> row.state

Synced(c, rows) ==
  IF c.run = NoRun THEN c ELSE [c EXCEPT !.phase = PhaseOfRun(rows[c.run])]

\* _persist_legacy_intent, and what _hydrate_task_from_legacy makes of it.
AsLegacy(c) ==
  [c EXCEPT !.run = NoRun, !.confirmed = "open", !.chat = FALSE,
            !.phase = IF c.chat THEN "collecting_requirements"
                      ELSE IF c.phase = "awaiting_confirmation" THEN c.phase
                      ELSE IF ~c.missing /\ (c.phase = "awaiting_timing" \/ c.timing = "unknown")
                      THEN "awaiting_timing"
                      ELSE "collecting_requirements"]

Counted == deeds < MaxDeed /\ deeds' = deeds + 1

Loaded == IF task.phase # "none" THEN task ELSE legacy

\* ConversationTask.model_validate refuses a phase it does not know.
Loadable == task.phase # "needs_attention"

\* An intent that no row has: the least, where the code draws a new id.
Named(c) == IF c.phase = "none" THEN {} ELSE {c.intent}
Unnamed ==
  Intent \ (Named(task) \cup Named(legacy) \cup Named(talk.task) \cup Named(demand.task)
            \cup {runs[r].intent : r \in {q \in Run : runs[q].state # "absent"}})
NewIntent(i) == i \in Unnamed /\ \A j \in Unnamed : i <= j

\* find_run_by_intent: the oldest.
FirstOf(r, i, rows) ==
  /\ rows[r].state # "absent" /\ rows[r].intent = i
  /\ \A q \in 1..(r - 1) : rows[q].intent # i

\* create_run_for_plan
WithRun(r, i, engine, state) ==
  [runs EXCEPT ![r] = [state |-> state, halt |-> "none", owed |-> "none", engine |-> engine,
                       intent |-> i]]
IsNext(r) == runs[r].state = "absent" /\ \A q \in 1..(r - 1) : runs[q].state # "absent"

\* classify_turn_mode
IsAnswer(c, text) == c.phase = "awaiting_confirmation" /\ text \in Yes \cup No
IsRunControl(c, text) == c.run # NoRun /\ text \in RunWords /\ ~IsAnswer(c, text)
IsNewTask(c, text) ==
  /\ text # "" /\ ~IsAnswer(c, text) /\ ~IsRunControl(c, text)
  /\ \/ c.phase \in EndPhase
     \/ text = "request" /\ (c.run # NoRun \/ c.phase = "general_chat")

-----------------------------------------------------------------------------
(* A turn: handle_chat_turn.                                               *)

\* A new task is saved at once, and has an intent of its own.
Begin(text) ==
  /\ talk.at = "idle" /\ Loadable /\ Counted
  /\ LET new == Loaded.phase = "none" \/ IsNewTask(Loaded, text)
     IN \E c \in IF new THEN {FreshTask(i) : i \in {j \in Intent : NewIntent(j)}} ELSE {Loaded} :
          /\ task' = c /\ blind' = (blind /\ c = task)
          /\ talk' = [at |-> "model", task |-> c, text |-> text, action |-> "none"]
  /\ UNCHANGED <<legacy, demand, runs>>

\* Mutant: the copy is written as the turn left it.
SaveUnsynced(c, rows) == task' = c /\ blind' = FALSE /\ legacy' = AsLegacy(c) /\ talk' = Idle

\* The end of a turn: its copy, brought up to its run, is written.
Save(c, rows) ==
  LET s == Synced(c, rows)
  IN task' = s /\ blind' = FALSE /\ legacy' = AsLegacy(s) /\ talk' = Idle

\* What is left to do with a task whose details are all there.
Launch(c) ==
  [task |-> [c EXCEPT !.phase = IF c.required /\ c.confirmed # "yes" THEN "awaiting_confirmation"
                                ELSE "ready_to_execute"],
   action |-> IF c.timing = "immediate" THEN "execute" ELSE "schedule"]

Ask(c, phase) == [task |-> [c EXCEPT !.phase = phase], action |-> "ask"]

\* resolve_turn on a reply to the question for details, and to that for a time.
Detailed(c) ==
  LET done == [c EXCEPT !.missing = FALSE]
  IN {Ask(c, "collecting_requirements"),
      IF c.timing = "unknown" THEN Ask(done, "awaiting_timing")
      ELSE Launch([done EXCEPT !.confirmed = IF c.required THEN @ ELSE "yes"])}

Timed(c) ==
  {Ask(c, "awaiting_timing")} \cup
  {Launch([c EXCEPT !.timing = t]) : t \in {"immediate", "later"}}

\* A text read afresh: the timing, what is missing and the risk are the model's word.
Reading == [timing : Timing, risky : BOOLEAN]

Read(c, reading, missing) ==
  [c EXCEPT !.chat = FALSE, !.timing = reading.timing, !.missing = missing,
            !.required = reading.risky, !.confirmed = "open"]

\* A task that needs a confirmation asks for it, and its action is confirm all the same.
Settled(c) ==
  IF c.timing = "unknown" THEN Ask(c, "awaiting_timing")
  ELSE IF c.required
  THEN [task |-> [c EXCEPT !.phase = "awaiting_confirmation"], action |-> "confirm"]
  ELSE Launch([c EXCEPT !.confirmed = "yes"])

Understood(c) ==
  {Ask([c EXCEPT !.chat = TRUE, !.timing = "unknown", !.missing = FALSE], "general_chat")}
  \cup {Ask(Read(c, reading, TRUE), "collecting_requirements") : reading \in Reading}
  \cup {Settled(Read(c, reading, FALSE)) : reading \in Reading}

Resolutions(c, text) ==
  IF IsAnswer(c, text)
  THEN {[task |-> [c EXCEPT !.phase = IF text \in Yes THEN "ready_to_execute" ELSE "cancelled",
                            !.confirmed = IF text \in Yes THEN "yes" ELSE "no"],
         action |-> "confirm"]}
  ELSE IF IsRunControl(c, text) /\ c.phase \in {"awaiting_user_action", "executing", "failed"}
  THEN {[task |-> c, action |-> "run_control"]}
  ELSE IF c.missing /\ text # "request" THEN Detailed(c)
  ELSE IF c.phase = "awaiting_timing" THEN Timed(c)
  ELSE Understood(c)

Starting(c) == talk' = [talk EXCEPT !.at = "start", !.task = c]

\* A run that is set going again may tell.
Sets(r, s) ==
  runs' = [runs EXCEPT ![r].state = s,
                       ![r].owed = IF s = "running" /\ @ = "lost" THEN "none" ELSE @]

\* confirm_intent finds the run by the intent, and looks at no state.
Confirm(c) ==
  /\ \E r \in Run : FirstOf(r, c.intent, runs) /\ Sets(r, "running")
  /\ Starting(c) /\ legacy' = AsLegacy(c) /\ UNCHANGED <<task, blind>>

Decline(c) ==
  /\ IF c.run = NoRun THEN UNCHANGED runs
     ELSE \E r \in Run : FirstOf(r, c.intent, runs) /\ Sets(r, "cancelled")
  /\ Save([c EXCEPT !.phase = "cancelled"], runs')

\* mutate_run_state and approve_sensitive_action; a 409 ends the turn without a write.
Control(c, action) ==
  /\ legacy' = AsLegacy(c) /\ UNCHANGED <<task, blind>>
  /\ IF ~Allowed(runs[c.run].state, action) THEN talk' = Idle /\ UNCHANGED runs
     ELSE /\ Starting(c)
          /\ Sets(c.run, CASE action = "pause" -> "paused" [] action = "stop" -> "cancelled"
                           [] OTHER -> "running")

\* A new run needs a browser and a plan, which are waited for.
Resolve ==
  /\ talk.at = "model" /\ UNCHANGED <<demand, deeds>>
  /\ \E r \in Resolutions(talk.task, talk.text) :
       LET c == r.task IN
       CASE r.action = "ask" -> Save(c, runs) /\ UNCHANGED runs
         [] r.action = "run_control" -> Control(c, RunAction(talk.text))
         [] r.action = "confirm" /\ c.confirmed = "no" -> Decline(c)
         [] r.action = "confirm" /\ c.confirmed # "no" /\ c.run # NoRun -> Confirm(c)
         [] OTHER -> /\ talk' = [talk EXCEPT !.at = "browser", !.task = c, !.action = r.action]
                     /\ legacy' = AsLegacy(c) /\ UNCHANGED <<task, blind, runs>>

\* The models, the browser or the plan failed: the turn ends without a write.
Fail ==
  /\ talk.at # "idle" /\ talk' = Idle
  /\ UNCHANGED <<task, legacy, demand, runs, blind, deeds>>

\* _select_browser_session found none, and the user wants their own.
NoBrowser ==
  /\ talk.at = "browser" /\ talk.task.timing = "immediate"
  /\ Save([talk.task EXCEPT !.phase = "awaiting_user_action"], runs)
  /\ UNCHANGED <<demand, runs, deeds>>

\* A schedule that is yet to be confirmed is not made.
Schedule ==
  /\ talk.at = "browser" /\ talk.task.timing # "immediate"
  /\ IF talk.action = "schedule" /\ talk.task.phase = "awaiting_confirmation"
     THEN Save(talk.task, runs)
     ELSE Save([talk.task EXCEPT !.phase = "scheduled"], runs)
  /\ UNCHANGED <<demand, runs, deeds>>

\* resolve_execution: the run of a task that needs a confirmation waits for it, which
\* the action confirm gives right away.  The chat's runs are never the other engine's.
CreateRun(r) ==
  /\ talk.at = "browser" /\ talk.task.timing = "immediate" /\ IsNext(r)
  /\ UNCHANGED <<demand, deeds>>
  /\ LET c       == [talk.task EXCEPT !.run = r]
         created == WithRun(r, c.intent, FALSE,
                            IF c.required THEN "awaiting_confirmation" ELSE "running")
     IN IF c.required /\ talk.action = "execute"
        THEN runs' = created /\ Save(c, created)
        ELSE /\ IF ~c.required THEN runs' = created
                ELSE \E q \in Run : /\ FirstOf(q, c.intent, created)
                                    /\ runs' = [created EXCEPT ![q].state = "running"]
             /\ Starting(c) /\ UNCHANGED <<task, blind, legacy>>

Finish ==
  /\ talk.at = "start" /\ Save(talk.task, runs)
  /\ UNCHANGED <<demand, runs, deeds>>

-----------------------------------------------------------------------------
(* Beside the turn: a computer-use request (handle_computer_use_request).  *)

\* It knows no intent of old, and takes no lock.  One at a time, as a bound.
Demand ==
  /\ ~demand.waits /\ Loadable /\ Counted
  /\ \E c \in IF task.phase # "none" THEN {task}
              ELSE {FreshTask(i) : i \in {j \in Intent : NewIntent(j)}} :
       /\ task' = c /\ blind' = (blind /\ c = task) /\ demand' = [waits |-> TRUE, task |-> c]
  /\ UNCHANGED <<legacy, talk, runs>>

\* The end of a request.  Its copy is written with the run it names, unasked.
Answers(c) ==
  /\ demand.waits /\ demand' = NoRequest
  /\ task' = c /\ UNCHANGED <<legacy, talk, deeds>>

\* The timing is unclear, or there is no browser; or models or browsers failed.
TurnedDown ==
  /\ \/ \E p \in {"collecting_requirements", "awaiting_user_action"} :
          Answers([demand.task EXCEPT !.phase = p]) /\ blind' = TRUE
     \/ demand.waits /\ demand' = NoRequest /\ UNCHANGED <<task, legacy, talk, blind, deeds>>
  /\ UNCHANGED runs

PutOff ==
  /\ Answers([demand.task EXCEPT !.phase = "scheduled", !.run = NoRun])
  /\ blind' = FALSE /\ UNCHANGED runs

Engage(r) ==
  /\ IsNext(r) /\ runs' = WithRun(r, demand.task.intent, TRUE, "running")
  /\ Answers([demand.task EXCEPT !.phase = "executing", !.run = r]) /\ blind' = FALSE

-----------------------------------------------------------------------------
(* Beside the turn: readers that write, and the runs.                      *)

\* get_conversation_session_state and get_conversation_state write what they sync.
Refresh ==
  /\ task.run # NoRun /\ Loadable /\ task' = Synced(task, runs) /\ blind' = FALSE
  /\ UNCHANGED <<legacy, talk, demand, runs, deeds>>

\* delete_conversation forgets the task and keeps the intent.
Delete ==
  /\ task.phase # "none" /\ task' = NoTask /\ blind' = FALSE
  /\ UNCHANGED <<legacy, talk, demand, runs, deeds>>

\* The runs by themselves: an outcome is owed a message, a planner's halt is not.
AtWork(r) == runs[r].state = "running" /\ runs[r].owed = "none"

Ends(r, s) ==
  /\ AtWork(r) /\ ~runs[r].engine /\ Counted
  /\ runs' = [runs EXCEPT ![r].state = s, ![r].owed = s]
  /\ UNCHANGED <<task, legacy, talk, demand, blind>>

Halts(r, halt) ==
  /\ runs[r].state = "running" /\ ~runs[r].engine /\ Counted
  /\ \E s \in {"waiting_for_human", "failed"} :
       runs' = [runs EXCEPT ![r].state = s, ![r].halt = halt]
  /\ UNCHANGED <<task, legacy, talk, demand, blind>>

\* publish_assistant_run_update: a task that has no run yet takes any run's message.  One
\* that cannot be loaded makes it raise, which the executor takes for a failure of the run.
Tell(r) ==
  /\ runs[r].owed \in Outcome
  /\ runs' = IF Loadable THEN [runs EXCEPT ![r].owed = "none"]
             ELSE [runs EXCEPT ![r].state = "failed", ![r].owed = "lost"]
  /\ IF task.phase = "none" \/ ~Loadable \/ task.run \notin {NoRun, r} THEN UNCHANGED <<task, blind>>
     ELSE /\ task' = [task EXCEPT !.phase = IF runs[r].owed \in EndPhase THEN runs[r].owed
                                            ELSE "awaiting_user_action"]
          /\ blind' = FALSE
  /\ UNCHANGED <<legacy, talk, demand, deeds>>

\* The runs of the other engine: _persist_assistant_outcome asks for no run of the task,
\* and comes before the run's own state.
Succeeds(r) ==
  /\ AtWork(r) /\ runs[r].engine /\ Loadable
  /\ runs' = [runs EXCEPT ![r].state = "completed"]
  /\ IF task.phase = "none" THEN UNCHANGED <<task, blind>>
     ELSE task' = [task EXCEPT !.phase = "completed"] /\ blind' = (task.run # r)
  /\ UNCHANGED <<legacy, talk, demand, deeds>>

\* The row is spoilt and the run stays as it is, or the row was spoilt already.  Without
\* a row the run fails, as it does of an exception, which the conversation is not told.
Loses(r) ==
  /\ AtWork(r) /\ runs[r].engine
  /\ \/ /\ task.phase # "none" /\ runs' = [runs EXCEPT ![r].owed = "lost"]
        /\ task' = [task EXCEPT !.phase = "needs_attention"] /\ blind' = TRUE
     \/ /\ runs' = [runs EXCEPT ![r].state = "failed", ![r].owed = "lost"]
        /\ UNCHANGED <<task, blind>>
  /\ UNCHANGED <<legacy, talk, demand, deeds>>

\* The user acts on the run elsewhere.
UserActs(r) ==
  /\ \/ Allowed(runs[r].state, "pause") /\ Sets(r, "paused")
     \/ Allowed(runs[r].state, "stop") /\ Sets(r, "cancelled")
     \/ Allowed(runs[r].state, "resume") /\ Sets(r, "running")
     \/ Allowed(runs[r].state, "retry") /\ Sets(r, "running")
  /\ Counted
  /\ UNCHANGED <<task, legacy, talk, demand, blind>>

Next ==
  \/ \E text \in Text : Begin(text)
  \/ Resolve \/ Fail \/ NoBrowser \/ Schedule \/ Finish \/ Refresh \/ Delete
  \/ Demand \/ TurnedDown \/ PutOff
  \/ \E r \in Run :
       \/ CreateRun(r) \/ Engage(r) \/ Tell(r) \/ Succeeds(r) \/ Loses(r) \/ UserActs(r)
       \/ \E s \in Outcome : Ends(r, s)
       \/ \E halt \in {"confirm", "reply", "hard"} : Halts(r, halt)

Spec == Init /\ [][Next]_vars

-----------------------------------------------------------------------------
\* A run told its conversation what came of it, and nothing happened to the run since:
\* the conversation's task says so, however long a turn held an older copy of it.  Two
\* writers of the row look at no run of it, and the row they leave is not spoken of: a
\* computer-use request that is turned down, and a run of that engine that ends.  (For
\* a run that a planner once halted it does not hold: the halt is shown forever.)
OutcomeIsShown ==
  task.run # NoRun /\ ~blind =>
    LET row == runs[task.run] IN
    row.state \in Outcome /\ row.owed = "none" /\ row.halt = "none" =>
      task.phase = PhaseOfRun(row)
=============================================================================
