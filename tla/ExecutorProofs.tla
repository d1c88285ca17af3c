--------------------------- MODULE ExecutorProofs ---------------------------
(***************************************************************************)
(* Theorems about the parts that MCExecutor composes, for any tabs, pages, *)
(* tasks, executions, turns and runs.                                      *)
(***************************************************************************)
EXTENDS MCExecutor, Sequences, WellFoundedInduction, TLAPS

-----------------------------------------------------------------------------
(* ComputerUse: the run's state is run here, its tasks' places are task,   *)
(* and the conversation's phase is talk.                                   *)

\* Who is at work on the run is its one recorded task, and after a stop of a run that the
\* backend executes itself the task has been cancelled.
OneTask == \A t \in Computer!Task : task[t] \notin {"none", "done"} => slot = t

StoppedIsCut ==
  mode = "server_runner" /\ run = "cancelled" =>
    \A t \in Computer!Task : task[t] \notin {"none", "done"} => t \in cut

UseInv == Computer!TypeOK /\ OneTask /\ StoppedIsCut

LEMMA UseStates ==
  /\ {"queued", "starting", "running", "paused", "cancelled", "reconciling", "human_controlling",
      "failed", "completed"} \subseteq Computer!RunState
  /\ "cancelled" \notin Computer!ACTION_ALLOWED_STATES["resume"]
  /\ "cancelled" \notin Computer!TakeoverCandidates
  /\ ~Computer!Allowed("cancelled", "pause") /\ ~Computer!Allowed("cancelled", "interrupt")
BY DEF Computer!RunState, Computer!TERMINAL_STATES, Computer!HoldsBrowserSession,
       Computer!ACTION_ALLOWED_STATES, Computer!TakeoverCandidates, Computer!Allowed

LEMMA UseInit == Computer!Init => UseInv
BY DEF Computer!Init, UseInv, OneTask, StoppedIsCut, Computer!TypeOK, Computer!Request,
       Computer!Task, Computer!NoTask, Computer!Target

LEMMA UseStill == UseInv /\ UNCHANGED computerVars => UseInv'
BY DEF UseInv, OneTask, StoppedIsCut, Computer!TypeOK, computerVars

\* start_computer_use_run leaves one task, whatever else the step writes.
LEMMA StartKeeps ==
  ASSUME UseInv, Computer!Start, UNCHANGED cut
  PROVE  /\ slot' \in Computer!Task \cup {Computer!NoTask}
         /\ task' \in [Computer!Task -> Computer!Waits \cup {"none", "done"}]
         /\ OneTask'
<1>1. CASE Computer!Live
  BY <1>1 DEF Computer!Start, UseInv, Computer!TypeOK, OneTask
<1>2. CASE ~Computer!Live
  <2>1. PICK t \in Computer!Task :
          task[t] = "none" /\ slot' = t /\ task' = [task EXCEPT ![t] = "begin"]
    BY <1>2 DEF Computer!Start
  <2>2. \A u \in Computer!Task : task[u] \in {"none", "done"}
    <3>1. SUFFICES ASSUME NEW u \in Computer!Task, task[u] \notin {"none", "done"}  PROVE FALSE
      OBVIOUS
    <3>2. slot = u /\ u # Computer!NoTask
      BY <3>1 DEF UseInv, OneTask, Computer!Task, Computer!NoTask
    <3>3. QED  BY <1>2, <3>1, <3>2 DEF Computer!Live, Computer!Done
  <2>3. QED  BY <2>1, <2>2 DEF UseInv, Computer!TypeOK, OneTask, Computer!Waits
<1>3. QED  BY <1>1, <1>2

\* A step of the user's that starts nothing.
LEMMA UserKeeps == UseInv /\ Computer!User => UseInv'
<1> SUFFICES ASSUME UseInv, Computer!User  PROVE UseInv'
  OBVIOUS
<1> USE UseStates
<1>1. Computer!TypeOK /\ OneTask /\ StoppedIsCut
  BY DEF UseInv
<1>2. Computer!Cancelled \subseteq Computer!Task /\ cut \subseteq Computer!Cancelled
  BY <1>1 DEF Computer!TypeOK, Computer!Cancelled, Computer!Live
<1>3. \A t \in Computer!Task : task[t] \notin {"none", "done"} => t \in Computer!Cancelled
  BY <1>1 DEF OneTask, Computer!Cancelled, Computer!Live, Computer!Done, Computer!Task,
              Computer!NoTask
<1>4. CASE Computer!Pause
  <2>1. /\ run' = "paused" /\ UNCHANGED <<ask, mode, browser, talk, named, slot, task>>
        /\ cut' \in {cut, Computer!Cancelled} /\ inflight' \in {inflight, inflight \cup {"pause"}}
    BY <1>4 DEF Computer!Pause, Computer!Interrupts, Computer!Writes, Computer!runVars
  <2>2. Computer!TypeOK'
    BY <1>1, <1>2, <2>1 DEF Computer!TypeOK
  <2>3. QED  BY <1>1, <2>1, <2>2 DEF UseInv, OneTask, StoppedIsCut
<1>5. CASE Computer!Stop
  <2>1. /\ run' = "cancelled" /\ UNCHANGED <<ask, mode, browser, talk, named, slot, task>>
        /\ cut' \in {cut, Computer!Cancelled} /\ inflight' \in {inflight, inflight \cup {"stop"}}
        /\ mode = "server_runner" => cut' = Computer!Cancelled
    BY <1>5 DEF Computer!Stop, Computer!Interrupts, Computer!Writes, Computer!runVars
  <2>2. Computer!TypeOK'
    BY <1>1, <1>2, <2>1 DEF Computer!TypeOK
  <2>3. QED  BY <1>1, <1>3, <2>1, <2>2 DEF UseInv, OneTask, StoppedIsCut
<1>6. CASE Computer!Reconcile
  <2>1. /\ run' = "reconciling" /\ UNCHANGED <<ask, mode, browser, talk, named, cut, inflight>>
        /\ Computer!Start
    BY <1>6 DEF Computer!Reconcile, Computer!Writes, Computer!runVars
  <2>2. Computer!TypeOK' /\ OneTask'
    BY <1>1, <2>1, StartKeeps DEF Computer!TypeOK
  <2>3. QED  BY <2>1, <2>2 DEF UseInv, StoppedIsCut
<1>7. CASE Computer!Retry
  <2>1. /\ run' = "starting" /\ UNCHANGED <<ask, mode, talk, named, cut, inflight>>
        /\ browser' \in {browser, TRUE}
    BY <1>7 DEF Computer!Retry
  <2>2. Computer!Start \/ UNCHANGED <<slot, task>>
    BY <1>7 DEF Computer!Retry
  <2>3. /\ slot' \in Computer!Task \cup {Computer!NoTask}
        /\ task' \in [Computer!Task -> Computer!Waits \cup {"none", "done"}]
        /\ OneTask'
    BY <1>1, <2>1, <2>2, StartKeeps DEF Computer!TypeOK, OneTask
  <2>4. browser' \in BOOLEAN
    BY <1>1, <2>1 DEF Computer!TypeOK
  <2>5. Computer!TypeOK'
    BY <1>1, <2>1, <2>3, <2>4 DEF Computer!TypeOK
  <2>6. QED  BY <2>1, <2>3, <2>5 DEF UseInv, StoppedIsCut
<1>8. CASE Computer!Interrupt \/ Computer!Takeover
  <2>1. /\ run' \in {"paused", "human_controlling"}
        /\ UNCHANGED <<ask, mode, browser, talk, named, slot, task, cut, inflight>>
    BY <1>8 DEF Computer!Interrupt, Computer!Takeover, Computer!Writes, Computer!runVars
  <2>2. Computer!TypeOK'
    BY <1>1, <2>1 DEF Computer!TypeOK
  <2>3. QED  BY <1>1, <2>1, <2>2 DEF UseInv, OneTask, StoppedIsCut
<1>9. ASSUME NEW op \in {"pause", "stop"}, Computer!RuntimeAnswers(op)  PROVE UseInv'
  <2>1. /\ cut' = Computer!Cancelled /\ inflight' = inflight \ {op}
        /\ UNCHANGED <<ask, mode, browser, talk, run, named, slot, task>>
    BY <1>9 DEF Computer!RuntimeAnswers, Computer!runVars
  <2>2. Computer!TypeOK'
    BY <1>1, <1>2, <2>1 DEF Computer!TypeOK
  <2>3. QED  BY <1>1, <1>2, <2>1, <2>2 DEF UseInv, OneTask, StoppedIsCut
<1>10. QED  BY <1>4, <1>5, <1>6, <1>7, <1>8, <1>9 DEF Computer!User

\* A task that goes on, or ends, is the recorded one.
LEMMA TaskKeeps == ASSUME UseInv, NEW t \in Computer!Task, Computer!Engine(t)  PROVE UseInv'
<1> USE UseStates
<1>1. Computer!TypeOK /\ OneTask /\ StoppedIsCut
  BY DEF UseInv
<1>2. CASE Computer!CleanUp(t)
  <2>1. /\ task[t] = "done" /\ task' = [task EXCEPT ![t] = "none"]
        /\ slot' = (IF slot = t THEN Computer!NoTask ELSE slot)
        /\ UNCHANGED <<ask, mode, browser, talk, run, named, cut, inflight>>
    BY <1>2 DEF Computer!CleanUp, Computer!runVars
  <2>2. Computer!TypeOK'
    BY <1>1, <2>1 DEF Computer!TypeOK
  <2>3. OneTask' /\ StoppedIsCut'
    BY <1>1, <2>1 DEF Computer!TypeOK, OneTask, StoppedIsCut
  <2>4. QED  BY <2>2, <2>3 DEF UseInv
<1>3. CASE Computer!CutOff(t)
  <2>1. PICK w \in {"dying", "done"} :
          /\ task' = [task EXCEPT ![t] = w]
          /\ w = "dying" => cut' = cut
          /\ w = "done" => cut' = cut \ {t}
    <3>1. CASE task[t] = "engine"
      BY <1>3, <3>1 DEF Computer!CutOff, Computer!Goes
    <3>2. CASE task[t] # "engine"
      BY <1>3, <3>2 DEF Computer!CutOff, Computer!Ends, Computer!Goes
    <3>3. QED  BY <3>1, <3>2
  <2>2. /\ task[t] \notin {"none", "done"} /\ t \in cut
        /\ UNCHANGED <<ask, mode, browser, talk, run, named, slot, inflight>>
    BY <1>3 DEF Computer!CutOff, Computer!Done, Computer!runVars
  <2>3. Computer!TypeOK'
    BY <1>1, <2>1, <2>2 DEF Computer!TypeOK, Computer!Waits
  <2>4. OneTask' /\ StoppedIsCut'
    BY <1>1, <2>1, <2>2 DEF Computer!TypeOK, OneTask, StoppedIsCut
  <2>5. QED  BY <2>3, <2>4 DEF UseInv
<1>4. CASE \E w \in {"begin", "browser", "engine", "sync"} : Computer!Runs(t, w)
  <2>1. task[t] \notin {"none", "done"} /\ t \notin cut
    BY <1>4 DEF Computer!Runs
  <2>2. slot = t /\ ~(mode = "server_runner" /\ run = "cancelled")
    BY <1>1, <2>1 DEF OneTask, StoppedIsCut
  <2>3. PICK w \in {"browser", "engine", "sync", "done", task[t]} :
          task' = [task EXCEPT ![t] = w] /\ cut' \in {cut, cut \ {t}}
    <3>1. UNCHANGED <<task, cut>> => task' = [task EXCEPT ![t] = task[t]] /\ cut' = cut
      BY <1>1 DEF Computer!TypeOK
    <3>2. QED
      BY <2>1, <3>1 DEF Computer!Engine, Computer!Begin, Computer!NoPlan, Computer!Rehydrate,
         Computer!Acts, Computer!Succeeds, Computer!Raised, Computer!GivesUp, Computer!Completes,
         Computer!CutOff, Computer!CleanUp, Computer!Drive, Computer!Goes, Computer!Ends,
         Computer!Outcome, Computer!Dies
  <2>4. /\ run' \in {run, "running", "failed", "completed"} /\ UNCHANGED <<ask, mode, slot, inflight>>
        /\ browser' \in {browser, TRUE} /\ named' \in BOOLEAN
        /\ talk' \in {talk, "needs_attention", "completed"}
    BY <1>1, <2>1 DEF Computer!Engine, Computer!Begin, Computer!NoPlan, Computer!Rehydrate,
       Computer!Acts, Computer!Succeeds, Computer!Raised, Computer!GivesUp, Computer!Completes,
       Computer!CutOff, Computer!CleanUp, Computer!Drive, Computer!Outcome, Computer!Dies,
       Computer!runVars, Computer!TypeOK
  <2>5. Computer!TypeOK'
    BY ZenonT(40), <1>1, <2>3, <2>4 DEF Computer!TypeOK, Computer!Waits
  <2>6. OneTask'
    BY <1>1, <2>1, <2>3, <2>4 DEF Computer!TypeOK, OneTask
  <2>7. StoppedIsCut'
    BY <1>1, <2>2, <2>4 DEF StoppedIsCut
  <2>8. QED  BY <2>5, <2>6, <2>7 DEF UseInv
<1>5. QED
  BY <1>2, <1>3, <1>4 DEF Computer!Engine, Computer!Begin, Computer!NoPlan, Computer!Rehydrate,
     Computer!Acts, Computer!Succeeds, Computer!Raised, Computer!GivesUp, Computer!Completes

LEMMA UseStep == UseInv /\ Computer!Next => UseInv'
<1> SUFFICES ASSUME UseInv, Computer!Next  PROVE UseInv'
  OBVIOUS
<1>1. Computer!TypeOK /\ OneTask /\ StoppedIsCut
  BY DEF UseInv
<1>2. CASE Computer!User \/ \E t \in Computer!Task : Computer!Engine(t)
  BY <1>2, UserKeeps, TaskKeeps
<1>3. CASE Computer!Ask \/ Computer!Intake \/ Computer!NoBrowser \/ Computer!Schedule
  <2>1. UNCHANGED <<run, mode, browser, named, slot, task, cut, inflight>>
    BY <1>3 DEF Computer!Ask, Computer!Intake, Computer!NoBrowser, Computer!Schedule
  <2>2. /\ talk' \in {talk, "collecting_requirements", "awaiting_user_action", "scheduled"}
        /\ ask' \in Computer!Request
    BY ZenonT(40), <1>1, <1>3 DEF Computer!Ask, Computer!Intake, Computer!NoBrowser, Computer!Schedule,
       Computer!Over, Computer!TypeOK, Computer!Request
  <2>3. Computer!TypeOK'
    BY <1>1, <2>1, <2>2 DEF Computer!TypeOK
  <2>4. QED  BY <1>1, <2>1, <2>3 DEF UseInv, OneTask, StoppedIsCut
<1>4. CASE Computer!CreateRun
  <2>1. /\ run' = "queued" /\ talk' = "executing" /\ Computer!Start
        /\ UNCHANGED <<browser, named, cut, inflight>>
    BY <1>4 DEF Computer!CreateRun
  <2>2. mode' \in {"local_runner", "server_runner"}
    BY <1>4 DEF Computer!CreateRun, Computer!Chosen
  <2>3. ask' \in Computer!Request
    BY <1>1, <1>4 DEF Computer!CreateRun, Computer!Over, Computer!TypeOK, Computer!Request
  <2>4. Computer!TypeOK' /\ OneTask'
    BY <1>1, <2>1, <2>2, <2>3, StartKeeps, UseStates DEF Computer!TypeOK
  <2>5. QED  BY <2>1, <2>4 DEF UseInv, StoppedIsCut
<1>5. CASE Computer!BrowserGone
  BY <1>1, <1>5 DEF Computer!BrowserGone, UseInv, OneTask, StoppedIsCut, Computer!TypeOK
<1>6. CASE Computer!Crash
  <2>1. /\ slot' = Computer!NoTask /\ task' = [t \in Computer!Task |-> "none"] /\ cut' = {}
        /\ inflight' = {} /\ UNCHANGED <<ask, mode, browser, talk, run, named>>
    BY <1>6 DEF Computer!Crash, Computer!runVars
  <2>2. Computer!TypeOK'
    BY <1>1, <2>1 DEF Computer!TypeOK
  <2>3. QED  BY <2>1, <2>2 DEF UseInv, OneTask, StoppedIsCut
<1>7. CASE Computer!Rewritten
  <2>1. talk' \in {"none", "open"} /\ UNCHANGED <<ask, mode, browser, run, named, slot, task, cut, inflight>>
    BY <1>7 DEF Computer!Rewritten, Computer!runVars
  <2>2. QED  BY <1>1, <2>1 DEF UseInv, OneTask, StoppedIsCut, Computer!TypeOK
<1>8. QED  BY <1>2, <1>3, <1>4, <1>5, <1>6, <1>7 DEF Computer!Next

LEMMA UseInvIsEnough == UseInv => Computer!TypeOK /\ Computer!OneEngine
BY DEF UseInv, OneTask, Computer!OneEngine, Computer!Done

\* A task that writes an outcome was not cancelled.
StopsStick ==
  mode = "server_runner" /\ run = "cancelled" => run' \notin {"completed", "failed"}

LEMMA StopStep == UseInv /\ Computer!Next => StopsStick
<1> SUFFICES ASSUME UseInv, Computer!Next, mode = "server_runner", run = "cancelled"
    PROVE  run' \notin {"completed", "failed"}
  BY DEF StopsStick
<1>1. CASE run' \in {run, "queued", "starting", "paused", "reconciling", "human_controlling", "cancelled"}
  BY <1>1
<1>2. CASE \E t \in Computer!Task, w \in {"begin", "browser", "engine", "sync"} : Computer!Runs(t, w)
  BY <1>2 DEF UseInv, StoppedIsCut, Computer!Runs
<1>3. QED
  BY <1>1, <1>2 DEF Computer!Next, Computer!User, Computer!Engine, Computer!Ask, Computer!Intake,
     Computer!NoBrowser, Computer!Schedule, Computer!CreateRun, Computer!BrowserGone, Computer!Crash,
     Computer!Pause, Computer!Stop, Computer!Reconcile, Computer!Retry, Computer!Interrupt,
     Computer!Takeover, Computer!RuntimeAnswers, Computer!Interrupts, Computer!Writes,
     Computer!Begin, Computer!NoPlan, Computer!Rehydrate, Computer!Acts, Computer!Succeeds,
     Computer!Raised, Computer!GivesUp, Computer!Completes, Computer!CutOff, Computer!CleanUp,
     Computer!Dies, Computer!Rewritten

-----------------------------------------------------------------------------
(* RunVerdict.                                                             *)

\* A success in the observation was seen by this attempt; a run that is finished while its
\* stream goes on is one the backend gave up on, and a completed one is executed no more.
SeenIsSeen   == obs.text = "sent" => seen
OverIsFailed == phase = "stream" /\ (deaf \/ state \in Verdicts!Terminal) =>
                  state = "failed" /\ incident = "persisted"
CompletedIsOver == state = "completed" => phase = "idle"

VerdictInv == Verdicts!TypeOK /\ SeenIsSeen /\ OverIsFailed /\ CompletedIsOver
              /\ Verdicts!CompletedIsSeen /\ Verdicts!CompletedClears

LEMMA VerdictInit == Verdicts!Init => VerdictInv
<1> SUFFICES ASSUME Verdicts!Init  PROVE VerdictInv
  OBVIOUS
<1>1. 0 \in 0..MaxAttempt /\ 0 \in 0..MaxEvent
  BY BoundAssumption
<1>2. Verdicts!NoEnding \in Verdicts!Ending
  BY DEF Verdicts!NoEnding, Verdicts!Ending, Verdicts!Saying
<1>3. Verdicts!TypeOK
  BY <1>1, <1>2 DEF Verdicts!Init, Verdicts!TypeOK, Verdicts!Terminal, Verdicts!Page, Verdicts!NoText
<1>4. QED
  BY <1>3 DEF Verdicts!Init, VerdictInv, SeenIsSeen, OverIsFailed, CompletedIsOver,
     Verdicts!CompletedIsSeen, Verdicts!CompletedClears, Verdicts!Terminal, Verdicts!NoText

LEMMA VerdictStill == VerdictInv /\ UNCHANGED verdictVars => VerdictInv'
BY DEF VerdictInv, SeenIsSeen, OverIsFailed, CompletedIsOver, Verdicts!TypeOK,
   Verdicts!CompletedIsSeen, Verdicts!CompletedClears, verdictVars

LEMMA VerdictInvIsEnough == VerdictInv => Verdicts!TypeOK /\ Verdicts!VerdictSound
BY DEF VerdictInv, OverIsFailed, Verdicts!VerdictSound, Verdicts!DeafIsFailed

\* The steps of an attempt, to the end of its stream.
LEMMA AttemptKeeps ==
  ASSUME VerdictInv, Verdicts!StartAttempt  PROVE VerdictInv'
<1>1. Verdicts!TypeOK
  BY DEF VerdictInv
<1>2. attempt' \in 0..MaxAttempt /\ 0 \in 0..MaxEvent
  BY <1>1, BoundAssumption DEF Verdicts!StartAttempt, Verdicts!TypeOK
<1>3. Verdicts!NoEnding \in Verdicts!Ending
  BY DEF Verdicts!NoEnding, Verdicts!Ending, Verdicts!Saying
<1>4. obs' = [page |-> live, text |-> "none"] /\ acted' = 0 /\ ending' = Verdicts!NoEnding
  BY DEF Verdicts!StartAttempt, Verdicts!NoText
<1>5. surface' \in {"none", "blocker", "other"} /\ latest' \in Verdicts!Page \cup {Verdicts!NoText}
  BY <1>1 DEF Verdicts!StartAttempt, Verdicts!Interpreted, Verdicts!TypeOK
<1>6. /\ state' = "running" /\ phase' = "stream" /\ deaf' = FALSE /\ reported' = "none" /\ seen' = FALSE
      /\ UNCHANGED <<live, incident>>
  BY DEF Verdicts!StartAttempt
<1>7. Verdicts!TypeOK'
  BY <1>1, <1>2, <1>3, <1>4, <1>5, <1>6 DEF Verdicts!TypeOK, Verdicts!NoText
<1>8. QED
  BY <1>4, <1>6, <1>7 DEF VerdictInv, SeenIsSeen, OverIsFailed, CompletedIsOver,
     Verdicts!CompletedIsSeen, Verdicts!CompletedClears, Verdicts!Terminal

LEMMA ObservedTyped ==
  ASSUME VerdictInv, NEW action, NEW shown \in Verdicts!Page, NEW brings \in BOOLEAN,
         action = "snapshot" => brings,
         NEW o \in Verdicts!Observed(action, shown, brings)
  PROVE  /\ o \in [page : Verdicts!Page, text : Verdicts!Page \cup {Verdicts!NoText}]
         /\ o.text = "sent" => obs.text = "sent" \/ (brings /\ shown = "sent")
         /\ Verdicts!Remembered(o) \in Verdicts!Page \cup {Verdicts!NoText}
         /\ \A text : Verdicts!Interpreted(text) \in {"none", "blocker", "other"}
<1>1. PICK text \in {obs.text, "none", shown} :
        /\ o = [page |-> shown, text |-> text]
        /\ text = shown /\ text # obs.text => brings \/ text = "none"
  BY DEF Verdicts!Observed, Verdicts!NoText
<1>2. text \in Verdicts!Page \cup {Verdicts!NoText}
  BY DEF VerdictInv, Verdicts!TypeOK, Verdicts!NoText
<1>3. o \in [page : Verdicts!Page, text : Verdicts!Page \cup {Verdicts!NoText}]
  BY <1>1, <1>2
<1>4. Verdicts!Remembered(o) \in Verdicts!Page \cup {Verdicts!NoText}
  BY <1>1, <1>2 DEF Verdicts!Remembered, VerdictInv, Verdicts!TypeOK
<1>5. QED  BY <1>1, <1>3, <1>4 DEF Verdicts!Interpreted

LEMMA ToolKeeps ==
  ASSUME VerdictInv, NEW action \in Verdicts!Action, NEW shown \in Verdicts!Page,
         NEW brings \in BOOLEAN, Verdicts!ToolFinished(action, shown, brings)
  PROVE  VerdictInv'
<1>1. Verdicts!TypeOK
  BY DEF VerdictInv
<1>2. /\ phase = "stream" /\ live' = shown /\ UNCHANGED <<phase, attempt, ending>>
      /\ seen' = (seen \/ (brings /\ shown = "sent")) /\ (action = "snapshot" => brings)
  BY DEF Verdicts!ToolFinished
<1>3. acted' \in 0..MaxEvent
  BY <1>1, BoundAssumption DEF Verdicts!ToolFinished, Verdicts!TypeOK
<1>4. state # "completed"
  BY <1>2 DEF VerdictInv, CompletedIsOver
<1>5. seen' \in BOOLEAN /\ (seen => seen')
  BY <1>1, <1>2 DEF Verdicts!TypeOK
<1>6. CASE state \in Verdicts!Terminal
  <2>1. deaf' = TRUE /\ UNCHANGED <<state, obs, surface, latest, incident, reported>>
    BY <1>6 DEF Verdicts!ToolFinished, Verdicts!Ignored
  <2>2. Verdicts!TypeOK'
    BY <1>1, <1>2, <1>3, <1>5, <2>1 DEF Verdicts!TypeOK
  <2>3. QED
    BY <1>2, <1>4, <1>5, <1>6, <2>1, <2>2 DEF VerdictInv, SeenIsSeen, OverIsFailed, CompletedIsOver,
       Verdicts!CompletedIsSeen, Verdicts!CompletedClears
<1>7. CASE state \notin Verdicts!Terminal
  <2>1. PICK o \in Verdicts!Observed(action, shown, brings) : Verdicts!ToolReported(action, o)
    BY <1>7 DEF Verdicts!ToolFinished
  <2>2. /\ obs' = o /\ latest' = Verdicts!Remembered(o) /\ UNCHANGED reported
        /\ surface' \in {surface, Verdicts!Interpreted(Verdicts!Remembered(o))}
    BY <2>1 DEF Verdicts!ToolReported
  <2>3. /\ incident' \in {incident, "persisted", "soft"} /\ deaf' \in BOOLEAN
        /\ deaf' => state' = "failed" /\ incident' = "persisted"
        /\ ~deaf' => state' = state
    BY <2>1 DEF Verdicts!ToolReported
  <2>4. /\ o \in [page : Verdicts!Page, text : Verdicts!Page \cup {Verdicts!NoText}]
        /\ o.text = "sent" => obs.text = "sent" \/ (brings /\ shown = "sent")
        /\ latest' \in Verdicts!Page \cup {Verdicts!NoText}
        /\ surface' \in {"none", "blocker", "other"}
    BY <1>1, <1>2, <2>2, ObservedTyped DEF Verdicts!TypeOK
  <2>5. state' \in {"queued", "running", "waiting_for_human"} \cup Verdicts!Terminal
    BY <1>1, <2>3 DEF Verdicts!TypeOK, Verdicts!Terminal
  <2>6. Verdicts!TypeOK'
    BY <1>1, <1>2, <1>3, <1>5, <2>2, <2>3, <2>4, <2>5 DEF Verdicts!TypeOK
  <2>7. QED
    BY <1>2, <1>4, <1>7, <2>2, <2>3, <2>4, <2>6 DEF VerdictInv, SeenIsSeen, OverIsFailed, CompletedIsOver,
       Verdicts!CompletedIsSeen, Verdicts!CompletedClears
<1>8. QED  BY <1>6, <1>7

LEMMA SnapshotKeeps ==
  ASSUME VerdictInv, Verdicts!SnapshotSeen  PROVE VerdictInv'
<1>1. Verdicts!TypeOK
  BY DEF VerdictInv
<1>2. PICK o \in Verdicts!Observed("none", live, TRUE) : obs' = o
  BY DEF Verdicts!SnapshotSeen
<1>3. /\ phase = "stream" /\ state \notin Verdicts!Terminal
      /\ latest' = Verdicts!Remembered(o) /\ surface' = Verdicts!Interpreted(latest')
      /\ seen' = (seen \/ live = "sent")
      /\ UNCHANGED <<state, phase, attempt, live, tracker, incident, deaf, reported, ending>>
  BY <1>2 DEF Verdicts!SnapshotSeen
<1>4. acted' \in 0..MaxEvent
  BY <1>1, BoundAssumption DEF Verdicts!SnapshotSeen, Verdicts!TypeOK
<1>5. /\ o \in [page : Verdicts!Page, text : Verdicts!Page \cup {Verdicts!NoText}]
      /\ o.text = "sent" => obs.text = "sent" \/ live = "sent"
      /\ latest' \in Verdicts!Page \cup {Verdicts!NoText}
      /\ surface' \in {"none", "blocker", "other"}
  <2>1. live \in Verdicts!Page
    BY <1>1 DEF Verdicts!TypeOK
  <2>2. /\ o \in [page : Verdicts!Page, text : Verdicts!Page \cup {Verdicts!NoText}]
        /\ o.text = "sent" => obs.text = "sent" \/ (TRUE /\ live = "sent")
        /\ Verdicts!Remembered(o) \in Verdicts!Page \cup {Verdicts!NoText}
        /\ \A text : Verdicts!Interpreted(text) \in {"none", "blocker", "other"}
    BY <2>1, ObservedTyped
  <2>3. QED  BY <1>3, <2>2
<1>6. seen' \in BOOLEAN
  BY <1>1, <1>3 DEF Verdicts!TypeOK
<1>7. Verdicts!TypeOK'
  BY <1>1, <1>2, <1>3, <1>4, <1>5, <1>6 DEF Verdicts!TypeOK
<1>8. QED
  BY <1>2, <1>3, <1>5, <1>7 DEF VerdictInv, SeenIsSeen, OverIsFailed, CompletedIsOver,
     Verdicts!CompletedIsSeen, Verdicts!CompletedClears, Verdicts!Terminal

\* What the end of an attempt may write.
Verdict ==
  \/ phase' \in {"failure", "live", "again", "idle"} /\ UNCHANGED <<state, incident>>
  \/ phase' = "idle" /\ state' \in {"failed", "waiting_for_human"}
     /\ incident' \in {incident, "blocker", "reported", "unverified"}
  \/ Verdicts!Complete

LEMMA VerdictKeeps ==
  ASSUME VerdictInv, Verdict, phase # "idle", UNCHANGED Verdicts!Rest,
         live' \in Verdicts!Page, ending' \in Verdicts!Ending, seen' \in BOOLEAN, seen => seen',
         Verdicts!Complete => seen' \/ (live' = "blank" /\ ending'.says = "success")
  PROVE  VerdictInv'
<1>1. Verdicts!TypeOK /\ state # "completed"
  BY DEF VerdictInv, CompletedIsOver
<1>2. /\ state' \in {"queued", "running", "waiting_for_human"} \cup Verdicts!Terminal
      /\ phase' \in {"idle", "failure", "live", "again"}
      /\ incident' \in {"none", "soft", "persisted", "blocker", "reported", "unverified"}
      /\ state' = "completed" => incident' = "none" /\ phase' = "idle" /\ Verdicts!Complete
  BY <1>1 DEF Verdict, Verdicts!Complete, Verdicts!EndsAs, Verdicts!TypeOK, Verdicts!Terminal
<1>3. Verdicts!TypeOK'
  BY <1>1, <1>2 DEF Verdicts!TypeOK, Verdicts!Rest
<1>4. QED
  BY <1>2, <1>3 DEF VerdictInv, SeenIsSeen, OverIsFailed, CompletedIsOver, Verdicts!Rest,
     Verdicts!CompletedIsSeen, Verdicts!CompletedClears

\* The success that a verdict rests on is in the last snapshot or in the browser.
LEMMA EndKeeps ==
  ASSUME VerdictInv, NEW e \in Verdicts!Ending, Verdicts!StreamEnds(e)  PROVE VerdictInv'
<1>1. /\ phase = "stream" /\ ending' = e /\ UNCHANGED <<live, seen>> /\ UNCHANGED Verdicts!Rest
      /\ Verdict
  BY DEF Verdicts!StreamEnds, Verdict, Verdicts!Decide, Verdicts!Verify, Verdicts!Unresolved,
     Verdicts!EndsAs
<1>2. Verdicts!Complete => obs.text = "sent" \/ state = "completed"
  BY <1>1 DEF Verdicts!StreamEnds, Verdicts!Decide, Verdicts!Verify, Verdicts!Unresolved,
     Verdicts!EndsAs, Verdicts!Complete
<1>3. Verdicts!Complete => seen'
  BY <1>1, <1>2 DEF VerdictInv, SeenIsSeen, CompletedIsOver
<1>4. live' \in Verdicts!Page /\ seen' \in BOOLEAN
  BY <1>1 DEF VerdictInv, Verdicts!TypeOK
<1>5. QED  BY <1>1, <1>3, <1>4, VerdictKeeps

LEMMA CheckKeeps ==
  ASSUME VerdictInv, Verdicts!FailureChecked \/ Verdicts!LiveChecked \/ Verdicts!CheckedAgain
  PROVE  VerdictInv'
<1>1. /\ phase \in {"failure", "live", "again"} /\ seen' = (seen \/ live = "sent")
      /\ UNCHANGED Verdicts!Rest /\ UNCHANGED <<live, ending>>
  BY DEF Verdicts!FailureChecked, Verdicts!LiveChecked, Verdicts!CheckedAgain
<1>2. Verdict
  BY DEF Verdicts!FailureChecked, Verdicts!LiveChecked, Verdicts!CheckedAgain, Verdict,
     Verdicts!Unverified, Verdicts!Verify, Verdicts!Unresolved, Verdicts!EndsAs
<1>3. VerdictInv => state # "completed"
  BY <1>1 DEF VerdictInv, CompletedIsOver
<1>4. Verdicts!Complete => \/ obs.text = "sent" \/ live = "sent"
                           \/ live = "blank" /\ ending.says = "success"
  <2>1. Verdicts!Verify /\ Verdicts!Complete => obs.text = "sent"
    BY <1>3 DEF Verdicts!Verify, Verdicts!Complete, Verdicts!EndsAs
  <2>2. ~(Verdicts!Unresolved(ending) /\ Verdicts!Complete) /\ ~(Verdicts!Unverified /\ Verdicts!Complete)
    BY DEF Verdicts!Unresolved, Verdicts!Unverified, Verdicts!Complete, Verdicts!EndsAs
  <2>3. Verdicts!ShowsSuccess => \/ obs.text = "sent" \/ live = "sent"
                                 \/ live = "blank" /\ ending.says = "success"
    BY DEF Verdicts!ShowsSuccess, Verdicts!ShownText
  <2>4. CASE Verdicts!FailureChecked
    BY <2>1, <2>2, <2>4 DEF Verdicts!FailureChecked
  <2>5. CASE Verdicts!LiveChecked
    BY <1>3, <2>2, <2>3, <2>5 DEF Verdicts!LiveChecked, Verdicts!Complete, Verdicts!EndsAs
  <2>6. CASE Verdicts!CheckedAgain
    BY <2>2, <2>3, <2>6 DEF Verdicts!CheckedAgain
  <2>7. QED  BY <2>4, <2>5, <2>6
<1>5. live' \in Verdicts!Page /\ ending' \in Verdicts!Ending /\ seen' \in BOOLEAN
  BY <1>1 DEF VerdictInv, Verdicts!TypeOK
<1>6. Verdicts!Complete => seen' \/ (live' = "blank" /\ ending'.says = "success")
  BY <1>1, <1>4 DEF VerdictInv, SeenIsSeen
<1>7. QED  BY <1>1, <1>2, <1>5, <1>6, VerdictKeeps

LEMMA VerdictStep == VerdictInv /\ Verdicts!Next => VerdictInv'
<1> SUFFICES ASSUME VerdictInv, Verdicts!Next  PROVE VerdictInv'
  OBVIOUS
<1>1. Verdicts!TypeOK
  BY DEF VerdictInv
<1>2. CASE \E what \in {"person", "failed"} : Verdicts!IncidentReported(what)
  <2>1. /\ reported' \in {"person", "failed"} /\ phase = "stream"
        /\ UNCHANGED <<state, phase, attempt, acted, live, obs, surface, latest, tracker,
                       incident, deaf, ending, seen>>
    BY <1>2 DEF Verdicts!IncidentReported
  <2>2. Verdicts!TypeOK'
    BY <1>1, <2>1 DEF Verdicts!TypeOK
  <2>3. QED  BY <2>1, <2>2 DEF VerdictInv, SeenIsSeen, OverIsFailed, CompletedIsOver,
               Verdicts!CompletedIsSeen, Verdicts!CompletedClears
<1>3. CASE Verdicts!RuntimeWaits
  <2>1. /\ state' = "waiting_for_human" /\ phase = "stream" /\ state \notin Verdicts!Terminal
        /\ UNCHANGED <<phase, attempt, acted, live, obs, surface, latest, tracker,
                       incident, deaf, reported, ending, seen>>
    BY <1>3 DEF Verdicts!RuntimeWaits
  <2>2. Verdicts!TypeOK'
    BY <1>1, <2>1 DEF Verdicts!TypeOK
  <2>3. QED  BY <2>1, <2>2 DEF VerdictInv, SeenIsSeen, OverIsFailed, CompletedIsOver,
               Verdicts!CompletedIsSeen, Verdicts!CompletedClears, Verdicts!Terminal
<1>4. CASE Verdicts!PageChanges
  <2>1. /\ live' \in Verdicts!Page /\ phase # "idle" /\ UNCHANGED <<state, phase, incident, ending, seen>>
        /\ UNCHANGED Verdicts!Rest
    BY <1>4 DEF Verdicts!PageChanges
  <2>2. state # "completed"
    BY <2>1 DEF VerdictInv, CompletedIsOver
  <2>3. Verdicts!TypeOK'
    BY <1>1, <2>1 DEF Verdicts!TypeOK, Verdicts!Rest
  <2>4. QED  BY <2>1, <2>2, <2>3 DEF VerdictInv, SeenIsSeen, OverIsFailed, CompletedIsOver,
               Verdicts!CompletedIsSeen, Verdicts!CompletedClears, Verdicts!Rest
<1>5. CASE Verdicts!Breaks
  <2>1. Verdict /\ phase # "idle" /\ UNCHANGED Verdicts!Rest /\ UNCHANGED <<live, ending, seen>>
        /\ ~Verdicts!Complete
    BY <1>5 DEF Verdicts!Breaks, Verdict, Verdicts!EndsAs, Verdicts!Complete
  <2>2. live' \in Verdicts!Page /\ ending' \in Verdicts!Ending /\ seen' \in BOOLEAN
    BY <1>1, <2>1 DEF Verdicts!TypeOK
  <2>3. QED  BY <2>1, <2>2, VerdictKeeps
<1>6. QED
  BY <1>2, <1>3, <1>4, <1>5, AttemptKeeps, ToolKeeps, SnapshotKeeps, EndKeeps, CheckKeeps
  DEF Verdicts!Next

-----------------------------------------------------------------------------
(* HookedRun: its place in the loop is hook here.                          *)

\* Between the judgement and the action the page is the one that was judged.
JudgedIsClear == hook = "plan" => ~Hooked!Interrupted

HookedInv == Hooked!TypeOK /\ JudgedIsClear

\* What an action that is about to be done must not be.
StepIsSighted ==
  act' # Hooked!Nothing /\ act' # act =>
    /\ act'.planned /\ act'.step = lastStep => before # look.text
    /\ progress /\ ~request.signsIn => look.text \notin Gates

LEMMA HookedInit == Hooked!Init => HookedInv
<1> SUFFICES ASSUME Hooked!Init  PROVE HookedInv
  OBVIOUS
<1>1. 0 \in 0..MaxTurn
  BY BoundAssumption
<1>2. Hooked!Nothing \in Hooked!Named
  BY DEF Hooked!Nothing, Hooked!Named
<1>3. hook = "look" /\ outcome = "open" /\ misses \in 0..1
  BY DEF Hooked!Init
<1>4. (hook = "over") = (outcome # "open") /\ outcome \in Hooked!Outcomes \cup {"open"}
  BY <1>3
<1>5. Hooked!TypeOK
  BY <1>1, <1>2, <1>3, <1>4 DEF Hooked!Init, Hooked!TypeOK
<1>6. QED  BY <1>5 DEF Hooked!Init, HookedInv, JudgedIsClear

LEMMA HookedStill == HookedInv /\ UNCHANGED hookedVars => HookedInv'
BY DEF HookedInv, JudgedIsClear, Hooked!TypeOK, Hooked!Interrupted, Hooked!Changed, hookedVars

LEMMA LookHasText == ASSUME Hooked!TypeOK  PROVE look.text \in Looks \cup {NoLook}
BY DEF Hooked!TypeOK, Hooked!Look, Hooked!NoGlance

LEMMA ChoicesAreNamed == Hooked!Choices \subseteq Hooked!Named
<1>1. Hooked!Planned \subseteq Hooked!Named /\ Hooked!StepActions \subseteq Hooked!Named
      /\ Hooked!CatalogActions \subseteq Hooked!Named
  BY DEF Hooked!Planned, Hooked!StepActions, Hooked!CatalogActions, Hooked!Named
<1>2. Hooked!NamedControl \subseteq Hooked!Named
  <2>1. [step : Steps, planned : {FALSE}] \subseteq Hooked!Named
    BY DEF Hooked!Named
  <2>2. Hooked!Nothing \in Hooked!Named
    BY DEF Hooked!Named, Hooked!Nothing
  <2>3. QED  BY <2>1, <2>2 DEF Hooked!NamedControl
<1>3. QED  BY <1>1, <1>2 DEF Hooked!Choices

LEMMA HookedStep == HookedInv /\ Hooked!Next => HookedInv' /\ StepIsSighted
<1> SUFFICES ASSUME HookedInv, Hooked!Next  PROVE HookedInv' /\ StepIsSighted
  OBVIOUS
<1>1. Hooked!TypeOK
  BY DEF HookedInv
<1>2. Hooked!Nothing \in Hooked!Named
  BY DEF Hooked!Nothing, Hooked!Named
<1>3. CASE Hooked!TakeLook
  <2>1. turn' \in 0..MaxTurn
    BY <1>1, <1>3, BoundAssumption DEF Hooked!TakeLook, Hooked!TypeOK
  <2>2. /\ look' \in Hooked!Look \cup {Hooked!NoGlance} /\ recovery' = "none"
        /\ UNCHANGED <<request, before, act, lastStep, progress, misses>>
        /\ \/ hook' \in {"narrow", "focus"} /\ outcome' = outcome /\ hook = "look"
           \/ hook' = "over" /\ outcome' = "EXECUTION_FAILED"
    BY <1>1, <1>3 DEF Hooked!TakeLook, Hooked!Over, Hooked!TypeOK
  <2>3. Hooked!TypeOK'
    BY <1>1, <2>1, <2>2 DEF Hooked!TypeOK, Hooked!Outcomes
  <2>4. QED  BY <2>2, <2>3 DEF HookedInv, JudgedIsClear, StepIsSighted
<1>4. CASE Hooked!Focus \/ Hooked!Narrow \/ Hooked!NarrowResults
  <2>1. /\ look' \in Hooked!Look \cup {Hooked!NoGlance}
        /\ hook \in {"focus", "narrow", "results"} /\ hook' \in {"narrow", "results", "judge"}
        /\ UNCHANGED <<request, turn, before, act, lastStep, progress, misses, recovery, outcome>>
    BY <1>1, <1>4 DEF Hooked!Focus, Hooked!Narrow, Hooked!NarrowResults, Hooked!Scoped, Hooked!TypeOK
  <2>2. Hooked!TypeOK'
    BY <1>1, <2>1 DEF Hooked!TypeOK
  <2>3. QED  BY <2>1, <2>2 DEF HookedInv, JudgedIsClear, StepIsSighted
<1>5. CASE Hooked!Judge
  <2>1. /\ UNCHANGED <<request, turn, look, before, act, lastStep, progress, misses, recovery>>
        /\ \/ hook' = "over" /\ outcome' \in Hooked!Outcomes
           \/ hook' = "plan" /\ hook = "judge" /\ outcome' = outcome /\ ~Hooked!Interrupted
    BY <1>5 DEF Hooked!Judge, Hooked!Over, Hooked!Outcomes
  <2>2. Hooked!TypeOK'
    BY <1>1, <2>1 DEF Hooked!TypeOK, Hooked!Outcomes
  <2>3. QED  BY <2>1, <2>2 DEF HookedInv, JudgedIsClear, StepIsSighted, Hooked!Interrupted, Hooked!Changed
<1>6. CASE Hooked!Plan
  <2>1. hook = "plan" /\ UNCHANGED <<request, turn, look, before, lastStep, progress, recovery>>
    BY <1>6 DEF Hooked!Plan
  <2>2. \/ hook' = "over" /\ outcome' \in Hooked!Outcomes /\ UNCHANGED <<act, misses>>
        \/ hook' = "look" /\ outcome' = outcome /\ misses' = 1 /\ UNCHANGED act
        \/ /\ hook' = "act" /\ outcome' = outcome /\ misses' = 0
           /\ act' \in Hooked!Choices /\ ~Hooked!Stalled(act')
    <3>1. CASE ~request.verified /\ ~look.refs /\ Hooked!Over("COMPLETED") /\ UNCHANGED <<act, misses>>
      BY <3>1 DEF Hooked!Over, Hooked!Outcomes
    <3>2. CASE ~(~request.verified /\ ~look.refs /\ Hooked!Over("COMPLETED") /\ UNCHANGED <<act, misses>>)
      <4>1. PICK a \in Hooked!Choices :
              IF a = Hooked!Nothing
              THEN /\ IF misses = 1 THEN Hooked!Over("OBSERVATION_EXHAUSTED") /\ UNCHANGED misses
                      ELSE hook' = "look" /\ misses' = 1 /\ UNCHANGED outcome
                   /\ UNCHANGED act
              ELSE IF Hooked!Stalled(a) THEN Hooked!Over("ACTION_STALLED") /\ UNCHANGED <<act, misses>>
              ELSE act' = a /\ hook' = "act" /\ misses' = 0 /\ UNCHANGED outcome
        BY <1>6, <3>2 DEF Hooked!Plan
      <4>2. QED  BY <4>1 DEF Hooked!Over, Hooked!Outcomes
    <3>3. QED  BY <3>1, <3>2
  <2>3. act' \in Hooked!Named
    BY <1>1, <2>2, ChoicesAreNamed DEF Hooked!TypeOK
  <2>4. Hooked!TypeOK'
    BY <1>1, <2>1, <2>2, <2>3 DEF Hooked!TypeOK, Hooked!Outcomes
  <2>5. ~Hooked!Interrupted
    BY <2>1 DEF HookedInv, JudgedIsClear
  <2>6. ASSUME act' # Hooked!Nothing, act' # act, act'.planned, act'.step = lastStep
        PROVE  before # look.text
    <3>1. act' \in Hooked!Choices /\ ~Hooked!Stalled(act')
      BY <2>2, <2>6
    <3>2. act'.step # NoStep
      <4>1. act' \in Hooked!Planned \cup Hooked!StepActions \cup Hooked!CatalogActions
        BY <2>6, <3>1 DEF Hooked!Choices, Hooked!NamedControl
      <4>2. QED
        BY <4>1, StepAssumption DEF Hooked!Planned, Hooked!StepActions, Hooked!CatalogActions
    <3>3. act'.step \in Steps
      BY <1>1, <2>6, <3>2 DEF Hooked!TypeOK
    <3>4. Hooked!Changed
      BY <2>6, <3>1, <3>3 DEF Hooked!Stalled
    <3>5. QED  BY <3>4 DEF Hooked!Changed
  <2>7. progress /\ ~request.signsIn => look.text \notin Gates
    BY <2>5 DEF Hooked!Interrupted
  <2>8. StepIsSighted
    BY <2>6, <2>7 DEF StepIsSighted
  <2>9. QED  BY <2>2, <2>4, <2>8 DEF HookedInv, JudgedIsClear
<1>7. CASE Hooked!Done
  <2>1. /\ hook = "act" /\ hook' = "look" /\ act' = Hooked!Nothing /\ progress' = TRUE
        /\ before' = look.text /\ lastStep' \in Steps \cup {NoStep}
        /\ UNCHANGED <<request, turn, look, misses, recovery, outcome>>
    BY <1>7 DEF Hooked!Done
  <2>2. Hooked!TypeOK'
    BY <1>1, <1>2, <2>1, LookHasText DEF Hooked!TypeOK
  <2>3. QED  BY <2>1, <2>2 DEF HookedInv, JudgedIsClear, StepIsSighted
<1>8. CASE Hooked!TurnedDown
  <2>1. /\ act' = Hooked!Nothing /\ before' \in {before, look.text}
        /\ recovery' \in {recovery, "asked", "observed"} /\ hook = "act"
        /\ UNCHANGED <<request, turn, look, lastStep, progress, misses>>
        /\ \/ hook' = "look" /\ outcome' = outcome
           \/ hook' = "over" /\ outcome' \in Hooked!Outcomes
    BY <1>8 DEF Hooked!TurnedDown, Hooked!Over, Hooked!Outcomes
  <2>2. Hooked!TypeOK'
    BY <1>1, <1>2, <2>1, LookHasText DEF Hooked!TypeOK, Hooked!Outcomes
  <2>3. QED  BY <2>1, <2>2 DEF HookedInv, JudgedIsClear, StepIsSighted
<1>9. CASE Hooked!Throws \/ Hooked!Spent
  <2>1. /\ hook' = "over" /\ outcome' \in Hooked!Outcomes /\ act' \in {act, Hooked!Nothing}
        /\ UNCHANGED <<request, turn, look, before, lastStep, progress, misses, recovery>>
    BY <1>9 DEF Hooked!Throws, Hooked!Spent, Hooked!Over, Hooked!Outcomes
  <2>2. Hooked!TypeOK'
    BY <1>1, <1>2, <2>1 DEF Hooked!TypeOK, Hooked!Outcomes
  <2>3. QED  BY <2>1, <2>2 DEF HookedInv, JudgedIsClear, StepIsSighted
<1>10. QED  BY <1>3, <1>4, <1>5, <1>6, <1>7, <1>8, <1>9 DEF Hooked!Next

-----------------------------------------------------------------------------
(* PromptRun: its terminal incident is grounded here.                      *)

\* What is younger than the last mutating action came after it.
FreshIsLooked == fresh => looked

PromptInv == Prompt!TypeOK /\ FreshIsLooked

\* What an execution that completes has seen.
CompletionIsSeen ==
  Prompt!Completes => /\ ~grounded
                      /\ mutating => looked \/ (result.text = "channel" /\ count.channel = 2)

LEMMA PromptInit == Prompt!Init => PromptInv
<1> SUFFICES ASSUME Prompt!Init  PROVE PromptInv
  OBVIOUS
<1>1. 0 \in 0..MaxEvent /\ 0 \in 0..MaxExecution /\ 0 \in 0..1 /\ 0 \in 0..2
  BY BoundAssumption
<1>2. Prompt!NoResult \in Prompt!Result
  BY DEF Prompt!NoResult, Prompt!Result, Prompt!Text
<1>3. count \in [observation : 0..1, tool : 0..1, channel : 0..2]
  BY <1>1 DEF Prompt!Init
<1>4. Prompt!TypeOK
  BY <1>1, <1>2, <1>3 DEF Prompt!Init, Prompt!TypeOK, Prompt!Purpose, Prompt!Verdict, Prompt!Seen
<1>5. QED  BY <1>4 DEF Prompt!Init, PromptInv, FreshIsLooked

LEMMA PromptStill == PromptInv /\ UNCHANGED promptVars => PromptInv'
BY DEF PromptInv, FreshIsLooked, Prompt!TypeOK, promptVars

\* An event is remembered, and what that leaves in the memory.
Remembers ==
  \E op \in {"mutating", "reading", "snapshot", "none"}, shown \in PageId \cup {NoPage},
     listed \in Prompt!Seen, planned \in BOOLEAN : Prompt!Remember(op, shown, listed, planned)

LEMMA RememberKeeps ==
  ASSUME PromptInv, Remembers
  PROVE  /\ last' \in [page : PageId \cup {NoPage}, refs : Prompt!Seen]
         /\ byPage' \in [PageId -> Prompt!Seen]
         /\ {mutating', fresh', pending', looked'} \subseteq BOOLEAN
         /\ FreshIsLooked'
<1>1. PICK op \in {"mutating", "reading", "snapshot", "none"}, shown \in PageId \cup {NoPage},
           listed \in Prompt!Seen, planned \in BOOLEAN : Prompt!Remember(op, shown, listed, planned)
  BY DEF Remembers
<1>2. Prompt!TypeOK /\ FreshIsLooked
  BY DEF PromptInv
<1>3. PICK known \in [page : PageId \cup {NoPage}, refs : Prompt!Seen] :
        known = IF shown = NoPage THEN last ELSE [page |-> shown, refs |-> byPage[shown]]
  BY <1>2 DEF Prompt!TypeOK
<1>4. PICK share \in Prompt!MayShare(known, shown), keep \in BOOLEAN :
        /\ keep => listed # "unseen"
        /\ IF keep THEN Prompt!Keep(Prompt!Merged(known, share, shown, listed)) ELSE UNCHANGED <<last, byPage>>
        /\ pending' = IF keep /\ listed # "none" THEN FALSE ELSE pending \/ planned
        /\ fresh' = Prompt!FreshAfter(op, keep)
  BY <1>1, <1>3 DEF Prompt!Remember, Prompt!MayReplace
<1>5. PICK v \in [page : PageId \cup {NoPage}, refs : Prompt!Seen] :
        v = Prompt!Merged(known, share, shown, listed)
  <2>1. Prompt!Merged(known, share, shown, listed) \in [page : PageId \cup {NoPage}, refs : Prompt!Seen]
    BY DEF Prompt!Merged
  <2>2. QED  BY <2>1
<1>6. /\ last' \in {last, v} /\ byPage' \in {byPage, [byPage EXCEPT ![v.page] = v.refs]}
      /\ v.page = NoPage => byPage' = byPage
  BY <1>4, <1>5 DEF Prompt!Keep
<1>7. last' \in [page : PageId \cup {NoPage}, refs : Prompt!Seen] /\ byPage' \in [PageId -> Prompt!Seen]
  BY <1>2, <1>6 DEF Prompt!TypeOK
<1>8. mutating' \in BOOLEAN /\ looked' = (IF op = "mutating" THEN FALSE ELSE looked \/ listed # "unseen")
  BY <1>1, <1>2 DEF Prompt!Remember, Prompt!TypeOK
<1>9. pending' \in BOOLEAN /\ fresh' \in BOOLEAN /\ looked' \in BOOLEAN
  BY <1>2, <1>4, <1>8 DEF Prompt!FreshAfter, Prompt!TypeOK
<1>10. FreshIsLooked'
  BY <1>2, <1>4, <1>8 DEF Prompt!FreshAfter, FreshIsLooked
<1>11. QED  BY <1>7, <1>8, <1>9, <1>10

\* What a judgement may write.
Judged ==
  \/ /\ call' = "idle" /\ purpose' = "first" /\ UNCHANGED <<transcript, count>>
     /\ verdict' \in {"failed", "unverified", "ungrounded", "transient", "completed"}
     /\ verdict' = "completed" =>
          /\ ~grounded
          /\ mutating => fresh \/ (result.text = "channel" /\ count.channel = 2)
  \/ /\ call' \in Prompt!Purpose /\ purpose' = call' /\ verdict' = verdict
     /\ DOMAIN transcript' = DOMAIN transcript
     /\ count' \in [observation : 0..1, tool : 0..1, channel : 0..2]

LEMMA CountKeeps ==
  ASSUME Prompt!TypeOK, NEW why \in {"observation", "tool", "channel"},
         count[why] < (IF why = "channel" THEN 2 ELSE 1), Prompt!Counted(why)
  PROVE  count' \in [observation : 0..1, tool : 0..1, channel : 0..2]
<1>1. PICK c \in [observation : 0..1, tool : 0..1, channel : 0..2] : c = count
  BY DEF Prompt!TypeOK
<1>2. CASE why = "observation"
  <2>1. c.observation + 1 \in 0..1
    BY <1>1, <1>2
  <2>2. count' = [c EXCEPT !.observation = c.observation + 1]
    BY <1>1, <1>2 DEF Prompt!Counted
  <2>3. QED  BY <2>1, <2>2
<1>3. CASE why = "tool"
  <2>1. c.tool + 1 \in 0..1
    BY <1>1, <1>3
  <2>2. count' = [c EXCEPT !.tool = c.tool + 1]
    BY <1>1, <1>3 DEF Prompt!Counted
  <2>3. QED  BY <2>1, <2>2
<1>4. CASE why = "channel"
  <2>1. c.channel + 1 \in 0..2
    BY <1>1, <1>4
  <2>2. count' = [c EXCEPT !.channel = c.channel + 1]
    BY <1>1, <1>4 DEF Prompt!Counted
  <2>3. QED  BY <2>1, <2>2
<1>5. QED  BY <1>2, <1>3, <1>4

LEMMA JudgeWrites ==
  ASSUME PromptInv, Prompt!JudgeFirst \/ Prompt!JudgeSecond
  PROVE  Judged /\ grounded' \in BOOLEAN
<1>1. Prompt!TypeOK
  BY DEF PromptInv
<1>2. PICK w \in {"failed", "completed", "unverified"} :
        w = Prompt!Ended(result) /\ (w = "completed" => (mutating => fresh))
  BY DEF Prompt!Ended, Prompt!Observed
<1>3. grounded \in BOOLEAN /\ grounded' \in BOOLEAN
  <2>1. grounded \in BOOLEAN
    BY <1>1 DEF Prompt!TypeOK
  <2>2. CASE Prompt!JudgeFirst
    BY <2>1, <2>2 DEF Prompt!JudgeFirst, Prompt!Ungrounded
  <2>3. CASE Prompt!JudgeSecond
    BY <2>1, <2>3 DEF Prompt!JudgeSecond, Prompt!Ungrounded
  <2>4. QED  BY <2>1, <2>2, <2>3
<1>4. count \in [observation : 0..1, tool : 0..1, channel : 0..2]
  BY <1>1 DEF Prompt!TypeOK
<1>5. CASE Prompt!JudgeSecond
  <2>1. \/ Prompt!Return("failed") \/ Prompt!Return("ungrounded") \/ Prompt!Return("transient")
        \/ Prompt!Return(w) /\ ~grounded
    BY <1>2, <1>3, <1>5 DEF Prompt!JudgeSecond, Prompt!Ungrounded
  <2>2. QED  BY <1>2, <1>3, <2>1 DEF Prompt!Return, Judged
<1>6. CASE Prompt!JudgeFirst
  <2>1. CASE grounded
    BY <1>3, <1>6, <2>1 DEF Prompt!JudgeFirst, Prompt!Return, Judged
  <2>2. CASE ~grounded /\ pending /\ w # "completed"
    <3>1. CASE count.observation < 1
      <4>1. Prompt!RecoverObservation
        BY <1>2, <1>6, <2>2, <3>1 DEF Prompt!JudgeFirst
      <4>2. count' \in [observation : 0..1, tool : 0..1, channel : 0..2]
        BY <1>1, <3>1, <4>1, CountKeeps DEF Prompt!RecoverObservation
      <4>3. QED  BY <1>3, <4>1, <4>2 DEF Prompt!RecoverObservation, Prompt!Again, Judged, Prompt!Purpose
    <3>2. CASE ~(count.observation < 1)
      BY <1>2, <1>3, <1>6, <2>2, <3>2 DEF Prompt!JudgeFirst, Prompt!Ungrounded, Prompt!Return, Judged
    <3>3. QED  BY <3>1, <3>2
  <2>3. CASE ~grounded /\ ~(pending /\ w # "completed")
    <3>1. IF Prompt!ToolRecovery /\ w # "completed" THEN Prompt!RecoverTool
          ELSE IF result.text = "channel"
            THEN IF count.channel >= 2 THEN Prompt!Return(IF result.ok THEN "completed" ELSE "failed")
                 ELSE Prompt!RecoverChannel
          ELSE IF result.text = "transient" THEN Prompt!RetryTransient
          ELSE IF result.text = "refusal" THEN Prompt!RetryRefusal
          ELSE Prompt!Return(w)
      BY <1>2, <1>6, <2>3 DEF Prompt!JudgeFirst
    <3>2. CASE Prompt!ToolRecovery /\ Prompt!RecoverTool
      <4>1. count' \in [observation : 0..1, tool : 0..1, channel : 0..2]
        BY <1>1, <3>2, CountKeeps DEF Prompt!ToolRecovery, Prompt!RecoverTool
      <4>2. QED  BY <1>3, <3>2, <4>1 DEF Prompt!RecoverTool, Prompt!Again, Judged, Prompt!Purpose
    <3>3. CASE /\ result.text = "channel" /\ count.channel >= 2
               /\ Prompt!Return(IF result.ok THEN "completed" ELSE "failed")
      <4>1. count.channel = 2
        BY <1>4, <3>3
      <4>2. verdict' \in {"completed", "failed"}
        BY <3>3 DEF Prompt!Return
      <4>3. QED  BY <1>3, <2>3, <3>3, <4>1, <4>2 DEF Prompt!Return, Judged
    <3>4. CASE ~(count.channel >= 2) /\ Prompt!RecoverChannel
      <4>1. count.channel < 2
        BY <1>4, <3>4
      <4>2. count' \in [observation : 0..1, tool : 0..1, channel : 0..2]
        BY <1>1, <3>4, <4>1, CountKeeps DEF Prompt!RecoverChannel
      <4>3. QED  BY <1>3, <3>4, <4>2 DEF Prompt!RecoverChannel, Prompt!Again, Judged, Prompt!Purpose
    <3>5. CASE Prompt!RetryTransient \/ Prompt!RetryRefusal
      BY <1>3, <1>4, <3>5 DEF Prompt!RetryTransient, Prompt!RetryRefusal, Prompt!Again, Judged, Prompt!Purpose
    <3>6. CASE Prompt!Return(w)
      BY <1>2, <1>3, <2>3, <3>6 DEF Prompt!Return, Judged
    <3>7. QED  BY <3>1, <3>2, <3>3, <3>4, <3>5, <3>6
  <2>4. QED  BY <2>1, <2>2, <2>3
<1>7. QED  BY <1>3, <1>5, <1>6

LEMMA PromptStep == PromptInv /\ Prompt!Next => PromptInv' /\ CompletionIsSeen
<1> SUFFICES ASSUME PromptInv, Prompt!Next  PROVE PromptInv' /\ CompletionIsSeen
  OBVIOUS
<1>1. Prompt!TypeOK /\ FreshIsLooked
  BY DEF PromptInv
<1>2. Prompt!NoResult \in Prompt!Result
  BY DEF Prompt!NoResult, Prompt!Result, Prompt!Text
<1>3. CASE Prompt!ToolEnds
  <2>1. Remembers
    BY <1>3 DEF Prompt!ToolEnds, Remembers
  <2>2. /\ events' \in 0..MaxEvent /\ DOMAIN transcript' = DOMAIN transcript
        /\ UNCHANGED <<call, purpose, result, grounded, count, zombie, verdict, executions>>
    BY <1>1, <1>3, BoundAssumption DEF Prompt!ToolEnds, Prompt!TypeOK
  <2>3. Prompt!TypeOK' /\ FreshIsLooked'
    BY <1>1, <2>1, <2>2, RememberKeeps DEF Prompt!TypeOK
  <2>4. QED  BY <2>2, <2>3 DEF PromptInv, CompletionIsSeen, Prompt!Completes
<1>4. CASE Prompt!LateEvent
  <2>1. Remembers
    <3>1. PICK op \in {"mutating", "snapshot"}, listed \in {"none", "page"},
               shown \in {NoPage}, planned \in {FALSE} : Prompt!Remember(op, shown, listed, planned)
      BY ZenonT(40), <1>4 DEF Prompt!LateEvent, Prompt!Remember
    <3>2. op \in {"mutating", "reading", "snapshot", "none"} /\ listed \in Prompt!Seen
          /\ planned \in BOOLEAN /\ shown \in PageId \cup {NoPage}
      BY DEF Prompt!Seen
    <3>3. QED  BY <3>1, <3>2 DEF Remembers
  <2>2. /\ events' \in 0..MaxEvent
        /\ UNCHANGED <<call, purpose, result, grounded, count, transcript, zombie, verdict, executions>>
    BY <1>1, <1>4, BoundAssumption DEF Prompt!LateEvent, Prompt!TypeOK
  <2>3. Prompt!TypeOK' /\ FreshIsLooked'
    BY <1>1, <2>1, <2>2, RememberKeeps DEF Prompt!TypeOK
  <2>4. QED  BY <2>2, <2>3 DEF PromptInv, CompletionIsSeen, Prompt!Completes
<1>5. CASE Prompt!Execute
  <2>1. /\ executions' \in 0..MaxExecution /\ call' = "first" /\ purpose' = "first" /\ verdict' = "none"
        /\ DOMAIN transcript' = DOMAIN transcript
        /\ UNCHANGED <<result, grounded, count, zombie, events>>
        /\ UNCHANGED <<last, byPage, mutating, fresh, pending, looked>>
    BY <1>1, <1>5, BoundAssumption DEF Prompt!Execute, Prompt!TypeOK, Prompt!memory
  <2>2. Prompt!TypeOK'
    BY <1>1, <2>1 DEF Prompt!TypeOK, Prompt!Purpose, Prompt!Verdict
  <2>3. QED  BY <1>1, <2>1, <2>2 DEF PromptInv, FreshIsLooked, CompletionIsSeen, Prompt!Completes
<1>6. CASE Prompt!ProcessReturns \/ Prompt!ProcessTimesOut \/ Prompt!Aborted \/ Prompt!ZombieDies
  <2>1. /\ call' \in {call, "idle", "judge"} /\ purpose' \in {purpose, "first"}
        /\ result' \in Prompt!Result /\ zombie' \in BOOLEAN /\ verdict' \in {verdict, "failed"}
        /\ UNCHANGED <<grounded, count, transcript, events, executions>>
        /\ UNCHANGED <<last, byPage, mutating, fresh, pending, looked>>
    BY <1>1, <1>2, <1>6 DEF Prompt!ProcessReturns, Prompt!ProcessTimesOut, Prompt!Aborted,
       Prompt!ZombieDies, Prompt!TypeOK, Prompt!memory
  <2>2. Prompt!TypeOK'
    BY <1>1, <2>1 DEF Prompt!TypeOK, Prompt!Purpose, Prompt!Verdict
  <2>3. QED  BY <1>1, <2>1, <2>2 DEF PromptInv, FreshIsLooked, CompletionIsSeen, Prompt!Completes
<1>7. CASE Prompt!Judge
  <2>1. /\ Prompt!JudgeFirst \/ Prompt!JudgeSecond
        /\ result' = Prompt!NoResult /\ UNCHANGED <<zombie, events, executions>>
        /\ UNCHANGED <<last, byPage, mutating, fresh, pending, looked>>
    BY <1>7 DEF Prompt!Judge, Prompt!memory
  <2>2. Judged /\ grounded' \in BOOLEAN
    BY <2>1, JudgeWrites
  <2>3. Prompt!TypeOK'
    BY <1>1, <1>2, <2>1, <2>2 DEF Prompt!TypeOK, Judged, Prompt!Purpose, Prompt!Verdict
  <2>4. CompletionIsSeen
    BY <1>1, <2>2 DEF Judged, CompletionIsSeen, Prompt!Completes, FreshIsLooked
  <2>5. QED  BY <1>1, <2>1, <2>3, <2>4 DEF PromptInv, FreshIsLooked
<1>8. CASE Prompt!RuntimeStops
  <2>1. 0 \in 0..1 /\ 0 \in 0..2
    OBVIOUS
  <2>2. count' \in [observation : 0..1, tool : 0..1, channel : 0..2]
    BY <1>8, <2>1 DEF Prompt!RuntimeStops
  <2>3. Prompt!TypeOK'
    BY <1>1, <1>2, <1>8, <2>2 DEF Prompt!RuntimeStops, Prompt!TypeOK, Prompt!Purpose, Prompt!Verdict,
       Prompt!Seen
  <2>4. QED  BY <1>8, <2>3 DEF Prompt!RuntimeStops, PromptInv, FreshIsLooked, CompletionIsSeen,
               Prompt!Completes
<1>9. QED  BY <1>3, <1>4, <1>5, <1>6, <1>7, <1>8 DEF Prompt!Next

-----------------------------------------------------------------------------
(* ComputerEngine: its place in the loop is loop, its action doing and its *)
(* result got here.                                                        *)

\* Of some tabs there is a first and a last.
LEMMA FirstTabIn ==
  ASSUME NEW T \in SUBSET (0..LastTab), T # {}
  PROVE  \E x \in T : \A y \in T : x =< y
<1>1. T \subseteq Nat
  BY BoundAssumption
<1>2. PICK x \in T : \A y \in T : ~(<<y, x>> \in OpToRel(<, Nat))
  BY <1>1, NatLessThanWellFounded, WFMin
<1>3. \A y \in T : x =< y
  <2>1. TAKE y \in T
  <2>2. <<y, x>> \in Nat \X Nat
    BY <1>1
  <2>3. ~(y < x)
    BY <1>2, <2>2 DEF OpToRel
  <2>4. QED  BY <1>1, <2>3
<1>4. QED  BY <1>3

LEMMA LastTabIn ==
  ASSUME NEW T \in SUBSET (0..LastTab), T # {}
  PROVE  \E x \in T : \A y \in T : x >= y
<1> DEFINE U == {i \in 0..LastTab : LastTab - i \in T}
<1>1. U \in SUBSET (0..LastTab) /\ U # {}
  <2>1. PICK t \in T : TRUE
    OBVIOUS
  <2>2. LastTab - t \in U
    BY BoundAssumption
  <2>3. QED  BY <2>2
<1>2. PICK x \in U : \A y \in U : x =< y
  BY <1>1, FirstTabIn
<1>3. LastTab - x \in T
  BY <1>2
<1>4. ASSUME NEW y \in T  PROVE LastTab - x >= y
  <2>1. LastTab - y \in U
    BY BoundAssumption
  <2>2. x =< LastTab - y
    BY <1>2, <2>1
  <2>3. QED  BY <1>2, <2>2, BoundAssumption
<1>5. QED  BY <1>3, <1>4

LEMMA MaxIn == ASSUME NEW T \in SUBSET (0..LastTab), T # {}  PROVE Engine!Max(T) \in T
BY LastTabIn DEF Engine!Max

LEMMA MinIn == ASSUME NEW T \in SUBSET (0..LastTab), T # {}  PROVE Engine!Min(T) \in T
BY FirstTabIn DEF Engine!Min

\* A navigate that arrived did so in one tab, that is open, and only until the loop has
\* settled; a loop that goes on has steps left.
ArrivedIsOpen ==
  /\ loop \notin {"settle", "over"} => there = {}
  /\ there \subseteq Engine!Open(tabs)
  /\ \A i, j \in there : i = j
StepsAreLeft == loop # "over" => Len(trail) < MaxStep

EngineInv == Engine!TypeOK /\ ArrivedIsOpen /\ StepsAreLeft

\* Where a navigate that arrived leads the loop.
ArrivalIsFollowed ==
  loop = "settle" /\ there # {} /\ ~Engine!WantsResults /\ loop' \in {"look", "over"} /\ got' # "raised"
    => page' \in there \/ tabs[Engine!Max(there)] = "error"

LEMMA EngineInit == Engine!Init => EngineInv
<1> SUFFICES ASSUME Engine!Init  PROVE EngineInv
  OBVIOUS
<1>1. 0 \in Engine!Tab /\ 1 \in 1..LastModel /\ 1 \in 1..LastSize /\ 0 < MaxStep /\ 0 =< MaxStep
  BY BoundAssumption DEF Engine!Tab
<1>2. Engine!FirstAsked \in [model : 1..LastModel, size : 1..LastSize]
  BY <1>1 DEF Engine!FirstAsked
<1>3. Len(trail) = 0 /\ trail \in Seq({"there", "filter", "move", "other"})
  BY DEF Engine!Init
<1>4. Engine!TypeOK
  BY <1>1, <1>2, <1>3 DEF Engine!Init, Engine!TypeOK, Engine!Shown
<1>5. QED  BY <1>1, <1>3, <1>4 DEF Engine!Init, EngineInv, ArrivedIsOpen, StepsAreLeft

LEMMA EngineStill == EngineInv /\ UNCHANGED engineVars => EngineInv'
BY DEF EngineInv, ArrivedIsOpen, StepsAreLeft, Engine!TypeOK, Engine!Open, engineVars

\* Choosing a tab chooses one.
LEMMA ChoiceIsTab ==
  ASSUME NEW s \in [Engine!Tab -> Engine!Shown \cup {"closed"}], NEW p \in Engine!Tab,
         NEW preferred \in SUBSET Engine!Tab
  PROVE  /\ Engine!SelectActive(s, p, preferred) \in Engine!Tab
         /\ Engine!SelectRelevant(s, p) \in Engine!Tab
         /\ Engine!First(s) \in Engine!Tab
<1>1. \A T \in SUBSET Engine!Tab : T # {} => Engine!Max(T) \in Engine!Tab /\ Engine!Min(T) \in Engine!Tab
  BY MaxIn, MinIn DEF Engine!Tab
<1>2. Engine!Open(s) \in SUBSET Engine!Tab
  BY DEF Engine!Open
<1>3. ASSUME NEW T \in SUBSET Engine!Tab  PROVE Engine!SelectActive(s, p, T) \in Engine!Tab
  BY <1>1, <1>2 DEF Engine!SelectActive
<1>4. Engine!SelectRelevant(s, p) \in Engine!Tab
  <2>1. PICK q \in Engine!Tab : q = Engine!SelectActive(s, p, {})
    BY <1>3
  <2>2. /\ Engine!Showing(s, "listing") \in SUBSET Engine!Tab
        /\ (Engine!Showing(s, "plain") \cup Engine!Showing(s, "error")) \in SUBSET Engine!Tab
    BY DEF Engine!Showing
  <2>3. QED  BY <1>1, <2>1, <2>2 DEF Engine!SelectRelevant
<1>5. Engine!First(s) \in Engine!Tab
  <2>1. 0 \in Engine!Tab
    BY BoundAssumption DEF Engine!Tab
  <2>2. QED  BY <1>1, <1>2, <2>1 DEF Engine!First
<1>6. QED  BY <1>3, <1>4, <1>5

\* Steps that record none: the trail stays, and no tab is one that a navigate reached.
LEMMA StepKeeps ==
  ASSUME EngineInv, UNCHANGED <<wants, trail>>, loop # "over", there' = {},
         loop' \in {"look", "model", "act", "settle", "over"},
         tabs' \in [Engine!Tab -> Engine!Shown \cup {"closed"}], page' \in Engine!Tab,
         asked' \in [model : 1..LastModel, size : 1..LastSize],
         doing' \in Engine!Kind \cup {"none"},
         got' \in {"open", "results", "said_so", "opened", "step_limit_reached", "raised"}
  PROVE  EngineInv'
<1>1. Engine!TypeOK'
  BY DEF EngineInv, Engine!TypeOK
<1>2. QED  BY <1>1 DEF EngineInv, ArrivedIsOpen, StepsAreLeft

LEMMA SanitizedIsKind == ASSUME NEW a \in Engine!Answer  PROVE Engine!Sanitized(a) \in Engine!Kind
<1>1. a.kind \in Engine!Kind \cup {"unknown"}
  BY DEF Engine!Answer
<1>2. "press" \in Engine!Kind /\ "wait" \in Engine!Kind
  BY DEF Engine!Kind
<1>3. a.kind = "unknown" => Engine!Unusable(a)
  BY DEF Engine!Unusable
<1>4. QED  BY <1>1, <1>2, <1>3 DEF Engine!Sanitized

\* The step is done; a navigate may have arrived.
LEMMA ApplyKeeps == ASSUME EngineInv, Engine!Apply  PROVE EngineInv'
<1>1. /\ Engine!TypeOK /\ there = {} /\ loop = "act" /\ loop' = "settle"
      /\ UNCHANGED <<wants, asked, doing, trail, got>>
      /\ page' \in {page, Engine!SelectActive(tabs', page, there')}
  BY DEF EngineInv, ArrivedIsOpen, Engine!Apply
<1>2. page \in Engine!Tab /\ tabs \in [Engine!Tab -> Engine!Shown \cup {"closed"}]
  BY <1>1 DEF Engine!TypeOK
<1>3. CASE Engine!Navigates
  <2>1. PICK i \in {page} \cup (Engine!Tab \ Engine!Open(tabs)), k \in Engine!Shown :
          tabs' = [tabs EXCEPT ![i] = k] /\ there' \in {{}, {i}}
    BY <1>3 DEF Engine!Navigates
  <2>2. i \in Engine!Tab /\ k # "closed"
    BY <1>2, <2>1 DEF Engine!Shown
  <2>3. tabs' \in [Engine!Tab -> Engine!Shown \cup {"closed"}] /\ there' \in SUBSET Engine!Tab
    BY <1>2, <2>1, <2>2
  <2>4. page' \in Engine!Tab
    BY <1>1, <1>2, <2>3, ChoiceIsTab
  <2>5. Engine!TypeOK'
    BY <1>1, <2>3, <2>4 DEF Engine!TypeOK
  <2>6. ArrivedIsOpen'
    BY <1>1, <1>2, <2>1, <2>2 DEF ArrivedIsOpen, Engine!Open
  <2>7. QED  BY <1>1, <2>5, <2>6 DEF EngineInv, StepsAreLeft
<1>4. CASE Engine!Effect
  <2>1. there' = {}
    BY <1>4 DEF Engine!Effect
  <2>2. tabs' \in [Engine!Tab -> Engine!Shown \cup {"closed"}]
    <3>1. CASE UNCHANGED tabs
      BY <1>2, <3>1
    <3>2. CASE ~(UNCHANGED tabs)
      <4>1. PICK k \in Engine!Shown \cup {"closed"} :
              \/ tabs' = [tabs EXCEPT ![page] = k]
              \/ \E i \in Engine!Tab \ Engine!Open(tabs), new \in Engine!Shown :
                   tabs' = [tabs EXCEPT ![page] = k, ![i] = new]
        BY <1>4, <3>2 DEF Engine!Effect
      <4>2. QED  BY <1>2, <4>1
    <3>3. QED  BY <3>1, <3>2
  <2>3. page' \in Engine!Tab
    BY <1>1, <1>2, <2>1, <2>2, ChoiceIsTab
  <2>4. QED  BY <1>1, <2>1, <2>2, <2>3, StepKeeps DEF Engine!TypeOK
<1>5. QED  BY <1>3, <1>4 DEF Engine!Apply

\* The step is recorded, and the tab the navigate asked for is the one in hand.
LEMMA SettleKeeps == ASSUME EngineInv, Engine!Settle  PROVE EngineInv' /\ ArrivalIsFollowed
<1>1. Engine!TypeOK /\ ArrivedIsOpen /\ StepsAreLeft
  BY DEF EngineInv
<1>2. page \in Engine!Tab /\ tabs \in [Engine!Tab -> Engine!Shown \cup {"closed"}] /\ there \in SUBSET Engine!Tab
  BY <1>1 DEF Engine!TypeOK
<1>3. 0 \in Engine!Tab /\ "error" \in Engine!Shown
  BY BoundAssumption DEF Engine!Tab, Engine!Shown
<1>4. Engine!Connected(tabs) \in [Engine!Tab -> Engine!Shown \cup {"closed"}]
  BY <1>2, <1>3 DEF Engine!Connected
<1>5. PICK s \in [Engine!Tab -> Engine!Shown \cup {"closed"}] :
        s = IF doing = "navigate" THEN Engine!Connected(tabs) ELSE tabs
  BY <1>2, <1>4
<1>6. PICK p \in Engine!Tab : p = IF doing = "navigate" THEN Engine!First(s) ELSE page
  BY <1>2, ChoiceIsTab
<1>7. PICK q \in Engine!Tab : q = Engine!SelectActive(s, p, there)
  BY <1>2, ChoiceIsTab
<1>8. /\ loop = "settle" /\ tabs' = s /\ page' = Engine!SelectRelevant(s, q) /\ there' = {}
      /\ doing' = "none" /\ UNCHANGED <<wants, asked>>
  BY <1>5, <1>6, <1>7 DEF Engine!Settle, Engine!Settled
<1>9. PICK step \in {"there", "filter", "move", "other"} : trail' = Append(trail, step)
  BY DEF Engine!Settle, Engine!Step
<1>10. page' \in Engine!Tab
  BY <1>2, <1>8, ChoiceIsTab
<1>11. /\ Len(trail) < MaxStep /\ Len(trail) \in Nat
       /\ trail' \in Seq({"there", "filter", "move", "other"}) /\ Len(trail') = Len(trail) + 1
  BY <1>1, <1>8, <1>9 DEF StepsAreLeft, Engine!TypeOK
<1>12. /\ \/ loop' = "over"
          \/ loop' = "look" /\ Len(trail') # MaxStep
       /\ got' \in {got, "results", "opened", "step_limit_reached"}
  BY DEF Engine!Settle, Engine!Finish, Engine!Goes
<1>13. Len(trail') =< MaxStep /\ (loop' # "over" => Len(trail') < MaxStep)
  BY SMTT(30), <1>11, <1>12, BoundAssumption
<1>14. Engine!TypeOK'
  BY <1>1, <1>8, <1>10, <1>11, <1>12, <1>13 DEF Engine!TypeOK
<1>15. EngineInv'
  BY <1>8, <1>13, <1>14 DEF EngineInv, ArrivedIsOpen, StepsAreLeft
<1>16. ASSUME there # {}, ~Engine!WantsResults, tabs[Engine!Max(there)] # "error"  PROVE page' \in there
  <2>1. PICK i \in there : there = {i}
    BY <1>1, <1>16 DEF ArrivedIsOpen
  <2>2. Engine!Max(there) = i /\ i \in Engine!Tab /\ i \in Engine!Open(tabs)
    BY <1>1, <1>2, <2>1, MaxIn DEF ArrivedIsOpen, Engine!Tab
  <2>3. s = tabs
    BY <1>5, <2>2 DEF Engine!Connected
  <2>4. q = i
    BY <1>7, <1>16, <2>2, <2>3 DEF Engine!SelectActive
  <2>5. i \in Engine!Open(s) \ Engine!Showing(s, "error")
    BY <1>16, <2>2, <2>3 DEF Engine!Showing
  <2>6. Engine!SelectActive(s, i, {}) = i
    BY <2>5 DEF Engine!SelectActive
  <2>7. page' = i
    BY <1>8, <1>16, <2>4, <2>6 DEF Engine!SelectRelevant
  <2>8. QED  BY <2>7
<1>17. QED  BY <1>15, <1>16 DEF ArrivalIsFollowed

LEMMA EngineStep == EngineInv /\ Engine!Next => EngineInv' /\ ArrivalIsFollowed
<1> SUFFICES ASSUME EngineInv, Engine!Next  PROVE EngineInv' /\ ArrivalIsFollowed
  OBVIOUS
<1>1. Engine!TypeOK /\ ArrivedIsOpen /\ StepsAreLeft
  BY DEF EngineInv
<1>2. page \in Engine!Tab /\ tabs \in [Engine!Tab -> Engine!Shown \cup {"closed"}] /\ there \in SUBSET Engine!Tab
      /\ {} \in SUBSET Engine!Tab
  BY <1>1 DEF Engine!TypeOK
<1>3. Engine!FirstAsked \in [model : 1..LastModel, size : 1..LastSize]
  <2>1. 1 \in 1..LastModel /\ 1 \in 1..LastSize
    BY BoundAssumption
  <2>2. QED  BY <2>1 DEF Engine!FirstAsked
<1>4. CASE Engine!Raises
  <2>1. /\ loop # "over" /\ loop' = "over" /\ got' = "raised" /\ asked' = Engine!FirstAsked
        /\ UNCHANGED <<wants, tabs, there, page, doing, trail>>
    BY <1>4 DEF Engine!Raises, Engine!Finish
  <2>2. Engine!TypeOK'
    BY <1>1, <1>3, <2>1 DEF Engine!TypeOK
  <2>3. QED  BY <1>1, <2>1, <2>2 DEF EngineInv, ArrivedIsOpen, StepsAreLeft, ArrivalIsFollowed, Engine!Open
<1>5. CASE Engine!Connect
  <2>1. /\ loop = "connect" /\ loop' = "look" /\ page' = Engine!First(tabs)
        /\ tabs' = Engine!Connected(tabs) /\ UNCHANGED <<wants, there, asked, doing, trail, got>>
    BY <1>5 DEF Engine!Connect
  <2>2. page' \in Engine!Tab
    BY <1>2, <2>1, ChoiceIsTab
  <2>3. tabs' \in [Engine!Tab -> Engine!Shown \cup {"closed"}]
    BY <1>2, <2>1, BoundAssumption DEF Engine!Connected, Engine!Tab, Engine!Shown
  <2>4. EngineInv'
    BY <1>1, <2>1, <2>2, <2>3, StepKeeps DEF Engine!TypeOK, ArrivedIsOpen
  <2>5. QED  BY <2>1, <2>4 DEF ArrivalIsFollowed
<1>6. CASE Engine!Look
  <2>1. /\ loop = "look" /\ loop' \in {"over", "model"} /\ got' \in {got, "results"}
        /\ page' = Engine!SelectRelevant(tabs, page)
        /\ UNCHANGED <<wants, tabs, there, asked, doing, trail>>
    BY <1>6 DEF Engine!Look, Engine!Finish
  <2>2. page' \in Engine!Tab
    BY <1>2, <2>1, ChoiceIsTab
  <2>3. EngineInv'
    BY <1>1, <2>1, <2>2, StepKeeps DEF Engine!TypeOK, ArrivedIsOpen
  <2>4. QED  BY <2>1, <2>3 DEF ArrivalIsFollowed
<1>7. CASE Engine!Decide
  <2>1. PICK a \in Engine!Answer : doing' = Engine!Sanitized(a)
    BY <1>7 DEF Engine!Decide
  <2>2. /\ loop = "model" /\ loop' \in {"over", "act"} /\ got' \in {got, "said_so"}
        /\ asked' = Engine!FirstAsked /\ UNCHANGED <<wants, tabs, there, page, trail>>
    BY <1>7 DEF Engine!Decide, Engine!Finish
  <2>3. EngineInv'
    BY <1>1, <1>3, <2>1, <2>2, StepKeeps, SanitizedIsKind DEF Engine!TypeOK, ArrivedIsOpen
  <2>4. QED  BY <2>2, <2>3 DEF ArrivalIsFollowed
<1>8. CASE Engine!Apply
  BY <1>8, ApplyKeeps DEF ArrivalIsFollowed, Engine!Apply
<1>9. CASE Engine!Settle
  BY <1>9, SettleKeeps
<1>10. CASE Engine!Drifts
  <2>1. PICK i \in Engine!Open(tabs), k \in Engine!Shown \cup {"closed"} : tabs' = [tabs EXCEPT ![i] = k]
    BY <1>10 DEF Engine!Drifts
  <2>2. loop = "model" /\ UNCHANGED <<wants, loop, there, page, asked, doing, trail, got>>
    BY <1>10 DEF Engine!Drifts
  <2>3. tabs' \in [Engine!Tab -> Engine!Shown \cup {"closed"}]
    BY <1>2, <2>1
  <2>4. EngineInv'
    BY <1>1, <1>2, <2>2, <2>3, StepKeeps DEF Engine!TypeOK, ArrivedIsOpen
  <2>5. QED  BY <2>2, <2>4 DEF ArrivalIsFollowed
<1>11. ASSUME NEW long \in BOOLEAN, Engine!Refused(long)  PROVE EngineInv' /\ ArrivalIsFollowed
  <2>1. loop = "model" /\ UNCHANGED <<wants, loop, tabs, there, page, doing, trail, got>>
    BY <1>11 DEF Engine!Refused
  <2>2. PICK m \in 1..LastModel, z \in 1..LastSize : asked = [model |-> m, size |-> z]
    BY <1>1 DEF Engine!TypeOK
  <2>3. asked' \in [model : 1..LastModel, size : 1..LastSize]
    <3>1. CASE long /\ z < LastSize
      <4>1. asked' = [asked EXCEPT !.size = z + 1] /\ z + 1 \in 1..LastSize
        BY <1>11, <2>2, <3>1, BoundAssumption DEF Engine!Refused
      <4>2. QED  BY <2>2, <4>1
    <3>2. CASE ~(long /\ z < LastSize)
      <4>1. m < LastModel /\ asked' = [model |-> m + 1, size |-> 1]
        BY <1>11, <2>2, <3>2 DEF Engine!Refused
      <4>2. m + 1 \in 1..LastModel /\ 1 \in 1..LastSize
        BY <4>1, BoundAssumption
      <4>3. QED  BY <4>1, <4>2
    <3>3. QED  BY <3>1, <3>2
  <2>4. EngineInv'
    BY <1>1, <1>2, <2>1, <2>3, StepKeeps DEF Engine!TypeOK, ArrivedIsOpen
  <2>5. QED  BY <2>1, <2>4 DEF ArrivalIsFollowed
<1>12. QED  BY <1>4, <1>5, <1>6, <1>7, <1>8, <1>9, <1>10, <1>11 DEF Engine!Next

-----------------------------------------------------------------------------
(* DirectedRun.                                                            *)

\* From a sync to the look or the click that it is for, unless a tab moves in between.
LooksWhereMeant == at \in {"look", "again", "click"} /\ ~astray => url[front] = meant

SomeTab == Directed!Open # {}

DirectedInv == Directed!TypeOK /\ SomeTab /\ LooksWhereMeant

LEMMA DirectedInit == Directed!Init => DirectedInv
<1> SUFFICES ASSUME Directed!Init  PROVE DirectedInv
  OBVIOUS
<1>1. 0 \in Directed!Tab /\ 0 \in 0..MaxIteration /\ 0 \in 0..MaxMove
  BY BoundAssumption DEF Directed!Tab
<1>2. DOMAIN registry = {}
  BY DEF Directed!Init
<1>3. Directed!TypeOK
  BY <1>1, <1>2 DEF Directed!Init, Directed!TypeOK
<1>4. SomeTab
  BY <1>1 DEF Directed!Init, SomeTab, Directed!Open
<1>5. QED  BY <1>3, <1>4 DEF Directed!Init, DirectedInv, LooksWhereMeant

LEMMA DirectedStill == DirectedInv /\ UNCHANGED directedVars => DirectedInv'
BY DEF DirectedInv, SomeTab, LooksWhereMeant, Directed!TypeOK, Directed!Open, directedVars

LEMMA DirectedInvIsEnough == DirectedInv => Directed!TypeOK /\ Directed!PageIsKept
BY DEF DirectedInv, LooksWhereMeant, Directed!TypeOK, Directed!PageIsKept, Directed!OnTheMeantPage,
       Directed!RefIsKnown

LEMMA FirstIn == ASSUME NEW T \in SUBSET (0..LastTab), T # {}  PROVE Directed!First(T) \in T
BY FirstTabIn DEF Directed!First

LEMMA OpenTabs ==
  ASSUME DirectedInv
  PROVE  /\ Directed!Open \in SUBSET (0..LastTab) /\ Directed!First(Directed!Open) \in Directed!Open
         /\ \A t \in Directed!Open : url[t] \in Url
BY FirstIn DEF DirectedInv, SomeTab, Directed!TypeOK, Directed!Open, Directed!Tab

\* What the registry is when it is one.
Registry(reg) == DOMAIN reg \subseteq Ref /\ \A r \in DOMAIN reg : reg[r] \in Directed!Entry

\* The command line goes to a tab that shows the page meant, if there is one.
LEMMA SwitchKeeps ==
  ASSUME DirectedInv, Directed!SwitchTab, UNCHANGED <<url, active>>
  PROVE  /\ front' \in Directed!Tab /\ meant' \in Url \cup {Closed} /\ astray' \in BOOLEAN
         /\ ~astray' => url[front'] = meant'
         /\ Directed!SyncTab => Registry(registry') /\ DOMAIN registry' = DOMAIN registry
<1>1. /\ Directed!TypeOK
      /\ Directed!Open \in SUBSET (0..LastTab) /\ \A t \in Directed!Open : url[t] \in Url
  BY OpenTabs DEF DirectedInv
<1>2. CASE active = NoRef
  <2>1. meant' = Closed /\ front' = front /\ astray' = \A t \in Directed!Open : url[t] # meant'
    BY <1>2 DEF Directed!SwitchTab, Directed!NoMatch
  <2>2. astray' = TRUE
    BY <2>1 DEF Directed!Open
  <2>3. Directed!SyncTab => registry' = registry
    BY <1>2 DEF Directed!SyncTab, Directed!NoMatch
  <2>4. QED  BY <1>1, <2>1, <2>2, <2>3 DEF Directed!TypeOK, Registry
<1>3. CASE active # NoRef
  <2>1. active \in DOMAIN registry /\ registry[active] \in Directed!Entry
    BY <1>1, <1>3 DEF Directed!TypeOK
  <2>2. PICK e \in Directed!Entry : e = registry[active]
    BY <2>1
  <2>3. /\ meant' = e.url /\ meant' \in Url /\ astray' \in BOOLEAN
        /\ ~astray' => \E t \in Directed!Open : url[t] = e.url
    BY <1>3, <2>2 DEF Directed!SwitchTab, Directed!Entry
  <2>4. CASE Directed!Matched(e) = {}
    <3>1. Directed!NoMatch /\ front' = front /\ (Directed!SyncTab => registry' = registry)
      BY <2>2, <2>4 DEF Directed!NoMatch, Directed!SwitchTab, Directed!SyncTab
    <3>2. astray'
      BY <2>3, <2>4 DEF Directed!Matched
    <3>3. QED  BY <1>1, <2>3, <3>1, <3>2 DEF Directed!TypeOK, Registry
  <2>5. CASE Directed!Matched(e) # {}
    <3>1. Directed!Matched(e) \subseteq Directed!Open
      BY DEF Directed!Matched, Directed!IndexMatch
    <3>2. PICK t \in Directed!Matched(e) : t = Directed!MatchedTab
      <4>1. Directed!First(Directed!Matched(e)) \in Directed!Matched(e)
        BY <1>1, <2>5, <3>1, FirstIn
      <4>2. Directed!IndexMatch(e) \cap Directed!Matched(e) # {} =>
              Directed!First(Directed!IndexMatch(e) \cap Directed!Matched(e)) \in Directed!Matched(e)
        BY <1>1, <3>1, FirstIn
      <4>3. QED  BY <2>2, <4>1, <4>2 DEF Directed!MatchedTab
    <3>3. /\ front' = t
          /\ Directed!SyncTab => registry' = [registry EXCEPT ![active] = [url |-> url[t], index |-> t]]
      BY <1>3, <2>2, <2>5, <3>2 DEF Directed!SwitchTab, Directed!SyncTab, Directed!NoMatch
    <3>4. t \in Directed!Tab /\ url[t] \in Url
      BY <1>1, <3>1, <3>2 DEF Directed!Tab
    <3>5. [url |-> url[t], index |-> t] \in Directed!Entry
      BY <3>4 DEF Directed!Entry
    <3>6. Directed!SyncTab => Registry(registry') /\ DOMAIN registry' = DOMAIN registry
      BY <1>1, <3>3, <3>5 DEF Directed!TypeOK, Registry
    <3>7. ~astray' => url[t] = e.url
      BY <2>3, <3>2 DEF Directed!Matched
    <3>8. QED  BY <2>3, <3>3, <3>4, <3>6, <3>7
  <2>6. QED  BY <2>4, <2>5
<1>4. QED  BY <1>2, <1>3

\* The sync over the developer tools rewrites entries and may add one.
LEMMA SyncedKeeps ==
  ASSUME DirectedInv
  PROVE  Registry(Directed!SyncedRegistry) /\ DOMAIN registry \subseteq DOMAIN Directed!SyncedRegistry
<1>1. /\ Directed!TypeOK /\ Directed!Open # {} /\ Registry(registry)
      /\ Directed!Open \in SUBSET (0..LastTab) /\ \A t \in Directed!Open : url[t] \in Url
  BY OpenTabs DEF DirectedInv, SomeTab, Directed!TypeOK, Registry
<1>2. \A ref : Directed!TargetTab(ref) \in Directed!Open
  <2>1. TAKE ref
  <2>2. PICK same \in SUBSET Directed!Open :
          same = {t \in Directed!Open : ref # NoRef /\ url[t] = registry[ref].url}
    OBVIOUS
  <2>3. Directed!First(IF same # {} THEN same ELSE Directed!Open) \in Directed!Open
    BY <1>1, FirstIn
  <2>4. QED  BY <2>2, <2>3 DEF Directed!TargetTab
<1>3. ASSUME NEW u \in Url  PROVE [url |-> u, index |-> Directed!NoTab] \in Directed!Entry
  BY DEF Directed!Entry
<1>4. PICK reg : /\ Registry(reg) /\ DOMAIN reg = DOMAIN registry
                 /\ Directed!SyncedRegistry = Directed!Discovered(reg)
  <2>1. CASE active = NoRef
    BY <1>1, <2>1 DEF Directed!SyncedRegistry
  <2>2. CASE active # NoRef
    <3>1. PICK t \in Directed!Open : t = Directed!TargetTab(active)
      BY <1>2
    <3>2. [url |-> url[t], index |-> Directed!NoTab] \in Directed!Entry
      BY <1>1, <1>3
    <3>3. /\ Registry([registry EXCEPT ![active] = [url |-> url[t], index |-> Directed!NoTab]])
          /\ DOMAIN [registry EXCEPT ![active] = [url |-> url[t], index |-> Directed!NoTab]] = DOMAIN registry
      BY <1>1, <3>2 DEF Registry
    <3>4. QED  BY <2>2, <3>1, <3>3 DEF Directed!SyncedRegistry
  <2>3. QED  BY <2>1, <2>2
<1>5. Registry(Directed!Discovered(reg)) /\ DOMAIN reg \subseteq DOMAIN Directed!Discovered(reg)
  <2>1. PICK new \in SUBSET Url :
          new = {u \in {url[t] : t \in Directed!Open} : \A r \in DOMAIN reg : reg[r].url # u}
    BY <1>1
  <2>2. CASE new = {} \/ Ref \ DOMAIN reg = {}
    BY <1>4, <2>1, <2>2 DEF Directed!Discovered
  <2>3. CASE ~(new = {} \/ Ref \ DOMAIN reg = {})
    <3>1. PICK u \in new : u = CHOOSE v \in new : TRUE
      BY <2>3
    <3>2. PICK r \in Ref \ DOMAIN reg : r = CHOOSE f \in Ref \ DOMAIN reg : TRUE
      BY <2>3
    <3>3. Directed!Discovered(reg) =
            [q \in DOMAIN reg \cup {r} |->
              IF q = r THEN [url |-> u, index |-> Directed!NoTab] ELSE reg[q]]
      BY <2>1, <2>3, <3>1, <3>2 DEF Directed!Discovered
    <3>4. [url |-> u, index |-> Directed!NoTab] \in Directed!Entry
      BY <1>3, <2>1, <3>1
    <3>5. QED  BY <1>4, <3>2, <3>3, <3>4 DEF Registry
  <2>4. QED  BY <2>2, <2>3
<1>6. QED  BY <1>4, <1>5

LEMMA DirectedStep == DirectedInv /\ Directed!Next => DirectedInv'
<1> SUFFICES ASSUME DirectedInv, Directed!Next  PROVE DirectedInv'
  OBVIOUS
<1>1. /\ Directed!TypeOK /\ SomeTab /\ LooksWhereMeant
      /\ Directed!First(Directed!Open) \in Directed!Open /\ Directed!Open \in SUBSET (0..LastTab)
      /\ \A t \in Directed!Open : url[t] \in Url
  BY OpenTabs DEF DirectedInv
<1>2. CASE Directed!Prepare
  <2>1. at' = "observe" /\ UNCHANGED <<url, moves, round, front, plannedOn, meant, failed, astray>>
    BY <1>2 DEF Directed!Prepare, Directed!Tabs
  <2>2. Registry(registry') /\ active' \in DOMAIN registry' \cup {NoRef}
    <3>1. CASE registry = [r \in {} |-> 0]
      <4>1. PICK r \in Ref, t \in Directed!Open :
              registry' = [q \in {r} |-> [url |-> url[t], index |-> t]] /\ active' \in {r, NoRef}
        BY <1>1, <1>2, <3>1 DEF Directed!Prepare
      <4>2. [url |-> url[t], index |-> t] \in Directed!Entry
        BY <1>1, <4>1 DEF Directed!Entry, Directed!Tab
      <4>3. QED  BY <4>1, <4>2 DEF Registry
    <3>2. CASE registry # [r \in {} |-> 0]
      BY <1>1, <1>2, <3>2 DEF Directed!Prepare, Directed!TypeOK, Registry
    <3>3. QED  BY <3>1, <3>2
  <2>3. Directed!TypeOK'
    BY <1>1, <2>1, <2>2 DEF Directed!TypeOK, Registry
  <2>4. QED  BY <1>1, <2>1, <2>3 DEF DirectedInv, SomeTab, LooksWhereMeant, Directed!Open
<1>3. CASE Directed!Observe \/ Directed!Refresh \/ Directed!After
  <2>1. /\ Directed!SwitchTab /\ at' \in {"look", "again", "resync"}
        /\ UNCHANGED <<url, moves, active, plannedOn, failed>>
        /\ Directed!SyncTab \/ registry' = registry
    BY <1>3 DEF Directed!Observe, Directed!Refresh, Directed!After, Directed!Tabs, Directed!SyncTab
  <2>2. round' \in 0..MaxIteration
    BY <1>1, <1>3, BoundAssumption DEF Directed!Observe, Directed!Refresh, Directed!After, Directed!TypeOK
  <2>3. /\ front' \in Directed!Tab /\ meant' \in Url \cup {Closed} /\ astray' \in BOOLEAN
        /\ ~astray' => url[front'] = meant'
        /\ Registry(registry') /\ DOMAIN registry' = DOMAIN registry
    BY <1>1, <2>1, SwitchKeeps DEF Directed!TypeOK, Registry
  <2>4. Directed!TypeOK'
    BY <1>1, <2>1, <2>2, <2>3 DEF Directed!TypeOK, Registry
  <2>5. QED  BY <1>1, <2>1, <2>3, <2>4 DEF DirectedInv, SomeTab, LooksWhereMeant, Directed!Open
<1>4. CASE Directed!SyncBefore \/ Directed!SyncAfter
  <2>1. /\ registry' = Directed!SyncedRegistry /\ at' \in {"tab", "patch"} /\ failed' \in {failed, FALSE}
        /\ UNCHANGED <<url, moves, round, front, active, plannedOn, meant, astray>>
    BY <1>4 DEF Directed!SyncBefore, Directed!SyncAfter, Directed!Tabs
  <2>2. Registry(registry') /\ DOMAIN registry \subseteq DOMAIN registry'
    BY <2>1, SyncedKeeps
  <2>3. Directed!TypeOK'
    BY <1>1, <2>1, <2>2 DEF Directed!TypeOK, Registry
  <2>4. QED  BY <1>1, <2>1, <2>3 DEF DirectedInv, SomeTab, LooksWhereMeant, Directed!Open
<1>5. CASE Directed!ViaRuntime \/ Directed!Click
  <2>1. PICK t \in Directed!Tab, u \in Url : url' \in {url, [url EXCEPT ![t] = u]}
    BY <1>1, <1>5 DEF Directed!ViaRuntime, Directed!Click, Directed!TypeOK, Directed!Open
  <2>2. /\ at' \in {"patch", "sync", "after"} /\ failed' \in BOOLEAN /\ astray' \in {astray, TRUE}
        /\ UNCHANGED <<round, front, registry, active, plannedOn, meant, moves>>
    BY <1>1, <1>5 DEF Directed!ViaRuntime, Directed!Click, Directed!TypeOK
  <2>3. Directed!TypeOK'
    BY <1>1, <2>1, <2>2 DEF Directed!TypeOK
  <2>4. SomeTab'
    BY <1>1, <2>1, ClosedAssumption DEF SomeTab, Directed!Open, Directed!TypeOK
  <2>5. QED  BY <2>2, <2>3, <2>4 DEF DirectedInv, LooksWhereMeant
<1>6. CASE Directed!TabMoves
  <2>1. PICK t \in Directed!Tab, u \in Url \cup {Closed} :
          url' = [url EXCEPT ![t] = u] /\ \E o \in Directed!Tab : url'[o] # Closed
    BY <1>6 DEF Directed!TabMoves
  <2>2. /\ astray' = TRUE /\ moves' \in 0..MaxMove
        /\ UNCHANGED <<at, round, front, registry, active, plannedOn, meant, failed>>
    BY <1>1, <1>6, BoundAssumption DEF Directed!TabMoves, Directed!TypeOK
  <2>3. Directed!TypeOK'
    BY <1>1, <2>1, <2>2 DEF Directed!TypeOK
  <2>4. SomeTab'
    BY <2>1 DEF SomeTab, Directed!Open
  <2>5. QED  BY <2>2, <2>3, <2>4 DEF DirectedInv, LooksWhereMeant
<1>7. CASE \/ Directed!Look \/ Directed!Plan \/ Directed!Retaken \/ Directed!Patch
           \/ Directed!StepRaises \/ Directed!Raises
  <2>1. /\ at' \in {"plan", "runtime", "idle", "patch", "observe"} \/ (at = "again" /\ at' = "click")
        /\ plannedOn' \in Url \cup {Closed} /\ failed' \in BOOLEAN
        /\ UNCHANGED <<url, moves, round, front, registry, active, meant, astray>>
    BY <1>1, <1>7 DEF Directed!Look, Directed!Plan, Directed!Retaken, Directed!Patch,
       Directed!StepRaises, Directed!Raises, Directed!HandedOver, Directed!Tabs, Directed!TypeOK
  <2>2. Directed!TypeOK'
    BY <1>1, <2>1 DEF Directed!TypeOK
  <2>3. QED  BY <1>1, <2>1, <2>2 DEF DirectedInv, SomeTab, LooksWhereMeant, Directed!Open
<1>8. QED  BY <1>2, <1>3, <1>4, <1>5, <1>6, <1>7 DEF Directed!Next, Directed!Work

-----------------------------------------------------------------------------
(* Conversation: its task is topic and its turn chat here.                 *)

\* A task's run was created; what it shows of a run that told its outcome; and what a run
\* may become: a run that ends owes what it became, and one that was halted stays so.
Created(t, rows) == t.run # Talk!NoRun => rows[t.run].state # "absent"
Shows(t, rows) ==
  t.run # Talk!NoRun =>
    /\ t.phase # "needs_attention"
    /\ rows[t.run].state \in Talk!Outcome /\ rows[t.run].owed = "none" /\ rows[t.run].halt = "none" =>
         t.phase = Talk!PhaseOfRun(rows[t.run])
Owes(row) ==
  row.state \in Talk!Outcome /\ row.owed \in Talk!Outcome /\ row.halt = "none" => row.owed = row.state
Becomes(new) ==
  /\ new.state # "absent"
  /\ new.state \in Talk!Outcome => new.halt # "none" \/ new.owed \in {new.state, "lost"}

TalkInv ==
  /\ Talk!TypeOK
  /\ legacy.run = Talk!NoRun /\ (topic.phase = "none" => topic.run = Talk!NoRun)
  /\ Created(topic, runs) /\ Created(chat.task, runs) /\ Created(demand.task, runs)
  /\ \A r \in Talk!Run : Owes(runs[r])
  /\ ~blind => Shows(topic, runs)

LEMMA TalkInvIsEnough == TalkInv => Talk!TypeOK /\ Talk!OutcomeIsShown
BY DEF TalkInv, Shows, Talk!OutcomeIsShown

LEMMA FreshIsTask ==
  /\ Talk!NoTask \in Talk!Task /\ Talk!NoTask.run = Talk!NoRun /\ Talk!NoTask.phase = "none"
  /\ 1 \in Talk!Intent
  /\ \A i \in Talk!Intent : /\ Talk!FreshTask(i) \in Talk!Task
                           /\ Talk!FreshTask(i).run = Talk!NoRun /\ Talk!FreshTask(i).phase # "none"
<1>1. 1 \in Talk!Intent
  BY BoundAssumption DEF Talk!Intent
<1>2. QED
  BY <1>1 DEF Talk!FreshTask, Talk!NoTask, Talk!Task, Talk!Stored, Talk!Phase, Talk!EndPhase,
     Talk!Timing, Talk!NoRun

LEMMA TalkInit == Talk!Init => TalkInv
<1> SUFFICES ASSUME Talk!Init  PROVE TalkInv
  OBVIOUS
<1> USE FreshIsTask
<1>1. 0 \in 0..MaxDeed
  BY BoundAssumption
<1>2. chat = [at |-> "idle", task |-> Talk!NoTask, text |-> "", action |-> "none"]
  BY DEF Talk!Init, Talk!Idle
<1>3. chat \in [at : {"idle", "model", "browser", "start"}, task : Talk!Task, text : Talk!Text,
                action : {"none", "execute", "schedule", "confirm"}]
  BY <1>2 DEF Talk!Text
<1>4. /\ runs \in [Talk!Run -> Talk!RunRow]
      /\ \A r \in Talk!Run : runs[r].owed = "none" /\ runs[r].state = "absent"
  BY DEF Talk!Init, Talk!RunRow
<1>5. /\ topic \in {Talk!NoTask, Talk!FreshTask(1)} /\ legacy = Talk!NoTask /\ deeds = 0
      /\ demand = [waits |-> FALSE, task |-> Talk!NoTask] /\ blind = FALSE
  BY DEF Talk!Init, Talk!NoRequest
<1>6. Talk!TypeOK
  BY <1>1, <1>3, <1>4, <1>5 DEF Talk!TypeOK
<1>7. QED  BY <1>2, <1>4, <1>5, <1>6 DEF TalkInv, Created, Shows, Owes, Talk!Outcome

LEMMA TalkStill == TalkInv /\ UNCHANGED talkVars => TalkInv'
BY DEF TalkInv, Created, Shows, Owes, Talk!TypeOK, talkVars

\* A task that is brought up to its run shows it, and what is kept of it names no run.
LEMMA SyncedShows ==
  ASSUME NEW c \in Talk!Task, NEW rows \in [Talk!Run -> Talk!RunRow], Created(c, rows),
         NEW s, s = Talk!Synced(c, rows)
  PROVE  /\ s \in Talk!Task /\ Created(s, rows) /\ Shows(s, rows) /\ s.run = c.run
         /\ s.phase = "none" => s.run = Talk!NoRun
<1>1. CASE c.run = Talk!NoRun
  BY <1>1 DEF Talk!Synced, Created, Shows
<1>2. CASE c.run # Talk!NoRun
  <2>1. c.run \in Talk!Run
    BY <1>2 DEF Talk!Task
  <2>2. PICK row \in Talk!RunRow : row = rows[c.run] /\ row.state # "absent"
    BY <1>2, <2>1 DEF Created
  <2>3. PICK ph \in Talk!Phase : ph = Talk!PhaseOfRun(row)
    BY <2>2 DEF Talk!PhaseOfRun, Talk!RunRow, Talk!Phase, Talk!EndPhase, Talk!Outcome
  <2>4. s = [c EXCEPT !.phase = ph]
    BY <1>2, <2>2, <2>3 DEF Talk!Synced
  <2>5. s \in Talk!Task /\ s.run = c.run /\ s.phase = ph
    BY <2>4 DEF Talk!Task, Talk!Stored
  <2>6. ph \notin {"none", "needs_attention"}
    BY DEF Talk!Phase, Talk!EndPhase
  <2>7. QED  BY <2>2, <2>3, <2>5, <2>6 DEF Created, Shows
<1>3. QED  BY <1>1, <1>2

LEMMA LegacyIsTask ==
  ASSUME NEW c \in Talk!Task  PROVE Talk!AsLegacy(c) \in Talk!Task /\ Talk!AsLegacy(c).run = Talk!NoRun
<1>1. PICK ph \in Talk!Phase \cup {"none"} :
        ph = IF c.chat THEN "collecting_requirements"
             ELSE IF c.phase = "awaiting_confirmation" THEN c.phase
             ELSE IF ~c.missing /\ (c.phase = "awaiting_timing" \/ c.timing = "unknown")
             THEN "awaiting_timing"
             ELSE "collecting_requirements"
  BY DEF Talk!Phase, Talk!EndPhase, Talk!Task, Talk!Stored
<1>2. Talk!AsLegacy(c) = [c EXCEPT !.run = Talk!NoRun, !.confirmed = "open", !.chat = FALSE, !.phase = ph]
  BY <1>1 DEF Talk!AsLegacy
<1>3. [c EXCEPT !.run = Talk!NoRun, !.confirmed = "open", !.chat = FALSE, !.phase = ph] \in Talk!Task
  BY DEF Talk!Task, Talk!Stored, Talk!NoRun
<1>4. QED  BY <1>2, <1>3 DEF Talk!Task

\* What a turn may make of its task leaves the run alone.
Outline == [task : Talk!Task, action : {"ask", "confirm", "execute", "schedule"}]

LEMMA AskIsOutline ==
  ASSUME NEW c \in Talk!Task, NEW ph \in Talk!Phase, NEW o, o = Talk!Ask(c, ph)
  PROVE  o \in Outline /\ o.task.run = c.run
BY DEF Outline, Talk!Ask, Talk!Task, Talk!Stored

LEMMA LaunchIsOutline ==
  ASSUME NEW c \in Talk!Task, NEW o, o = Talk!Launch(c)
  PROVE  o \in Outline /\ o.task.run = c.run
<1>1. PICK ph \in {"awaiting_confirmation", "ready_to_execute"} :
        ph = IF c.required /\ c.confirmed # "yes" THEN "awaiting_confirmation" ELSE "ready_to_execute"
  OBVIOUS
<1>2. PICK act0 \in {"execute", "schedule"} :
        act0 = IF c.timing = "immediate" THEN "execute" ELSE "schedule"
  OBVIOUS
<1>3. o = [task |-> [c EXCEPT !.phase = ph], action |-> act0]
  BY <1>1, <1>2 DEF Talk!Launch
<1>4. ph \in Talk!Phase
  BY <1>1 DEF Talk!Phase
<1>5. QED  BY <1>3, <1>4 DEF Outline, Talk!Task, Talk!Stored

\* The task a text is read for, and the replies to the questions for details and a time.
LEMMA ReadIsTask ==
  ASSUME NEW c \in Talk!Task, NEW g \in Talk!Reading, NEW missing \in BOOLEAN,
         NEW d, d = Talk!Read(c, g, missing)
  PROVE  d \in Talk!Task /\ d.run = c.run
BY DEF Talk!Read, Talk!Reading, Talk!Task

LEMMA SettledIsOutline ==
  ASSUME NEW c \in Talk!Task, NEW o, o = Talk!Settled(c)
  PROVE  o \in Outline /\ o.task.run = c.run
<1>1. {"awaiting_timing", "awaiting_confirmation"} \subseteq Talk!Phase
  BY DEF Talk!Phase
<1>2. CASE c.timing = "unknown"
  BY <1>1, <1>2, AskIsOutline DEF Talk!Settled
<1>3. CASE c.timing # "unknown" /\ c.required
  <2>1. o = [task |-> [c EXCEPT !.phase = "awaiting_confirmation"], action |-> "confirm"]
    BY <1>3 DEF Talk!Settled
  <2>2. QED  BY <1>1, <2>1 DEF Outline, Talk!Task, Talk!Stored
<1>4. CASE c.timing # "unknown" /\ ~c.required
  <2>1. PICK d \in Talk!Task : d = [c EXCEPT !.confirmed = "yes"] /\ d.run = c.run
    <3>1. [c EXCEPT !.confirmed = "yes"] \in Talk!Task /\ [c EXCEPT !.confirmed = "yes"].run = c.run
      BY DEF Talk!Task
    <3>2. QED  BY <3>1
  <2>2. o = Talk!Launch(d)
    BY <1>4, <2>1 DEF Talk!Settled
  <2>3. QED  BY <2>1, <2>2, LaunchIsOutline
<1>5. QED  BY <1>2, <1>3, <1>4

LEMMA DetailedIsOutline ==
  ASSUME NEW c \in Talk!Task, NEW o \in Talk!Detailed(c)
  PROVE  o \in Outline /\ o.task.run = c.run
<1>1. {"awaiting_timing", "collecting_requirements"} \subseteq Talk!Phase
  BY DEF Talk!Phase
<1>2. PICK done \in Talk!Task : done = [c EXCEPT !.missing = FALSE] /\ done.run = c.run
  <2>1. [c EXCEPT !.missing = FALSE] \in Talk!Task /\ [c EXCEPT !.missing = FALSE].run = c.run
    BY DEF Talk!Task
  <2>2. QED  BY <2>1
<1>3. PICK yes \in {"open", "yes", "no"} : yes = IF c.required THEN done.confirmed ELSE "yes"
  BY DEF Talk!Task
<1>4. PICK d \in Talk!Task : d = [done EXCEPT !.confirmed = yes] /\ d.run = c.run
  <2>1. [done EXCEPT !.confirmed = yes] \in Talk!Task /\ [done EXCEPT !.confirmed = yes].run = done.run
    BY DEF Talk!Task
  <2>2. QED  BY <1>2, <2>1
<1>5. o \in {Talk!Ask(c, "collecting_requirements"), Talk!Ask(done, "awaiting_timing"), Talk!Launch(d)}
  BY <1>2, <1>3, <1>4 DEF Talk!Detailed
<1>6. CASE o = Talk!Ask(c, "collecting_requirements")
  BY <1>1, <1>6, AskIsOutline
<1>7. CASE o = Talk!Ask(done, "awaiting_timing")
  BY <1>1, <1>2, <1>7, AskIsOutline
<1>8. CASE o = Talk!Launch(d)
  BY <1>4, <1>8, LaunchIsOutline
<1>9. QED  BY <1>5, <1>6, <1>7, <1>8

LEMMA TimedIsOutline ==
  ASSUME NEW c \in Talk!Task, NEW o \in Talk!Timed(c)
  PROVE  o \in Outline /\ o.task.run = c.run
<1>1. "awaiting_timing" \in Talk!Phase
  BY DEF Talk!Phase
<1>2. CASE o = Talk!Ask(c, "awaiting_timing")
  BY <1>1, <1>2, AskIsOutline
<1>3. CASE o # Talk!Ask(c, "awaiting_timing")
  <2>1. PICK t \in {"immediate", "later"} : o = Talk!Launch([c EXCEPT !.timing = t])
    BY <1>3 DEF Talk!Timed
  <2>2. PICK d \in Talk!Task : d = [c EXCEPT !.timing = t] /\ d.run = c.run
    <3>1. [c EXCEPT !.timing = t] \in Talk!Task /\ [c EXCEPT !.timing = t].run = c.run
      BY <2>1 DEF Talk!Task, Talk!Timing
    <3>2. QED  BY <3>1
  <2>3. QED  BY <2>1, <2>2, LaunchIsOutline
<1>4. QED  BY <1>2, <1>3

LEMMA UnderstoodIsOutline ==
  ASSUME NEW c \in Talk!Task, NEW o \in Talk!Understood(c)
  PROVE  o \in Outline /\ o.task.run = c.run
<1>1. {"general_chat", "collecting_requirements"} \subseteq Talk!Phase
  BY DEF Talk!Phase
<1>2. CASE o \in {Talk!Ask([c EXCEPT !.chat = TRUE, !.timing = "unknown", !.missing = FALSE],
                           "general_chat")}
  <2>1. PICK d \in Talk!Task : d = [c EXCEPT !.chat = TRUE, !.timing = "unknown", !.missing = FALSE]
                               /\ d.run = c.run
    <3>1. /\ [c EXCEPT !.chat = TRUE, !.timing = "unknown", !.missing = FALSE] \in Talk!Task
          /\ [c EXCEPT !.chat = TRUE, !.timing = "unknown", !.missing = FALSE].run = c.run
      BY DEF Talk!Task, Talk!Timing
    <3>2. QED  BY <3>1
  <2>2. o = Talk!Ask(d, "general_chat")
    BY <1>2, <2>1
  <2>3. QED  BY <1>1, <2>1, <2>2, AskIsOutline
<1>3. CASE o \in {Talk!Ask(Talk!Read(c, g, TRUE), "collecting_requirements") : g \in Talk!Reading}
  <2>1. PICK g \in Talk!Reading : o = Talk!Ask(Talk!Read(c, g, TRUE), "collecting_requirements")
    BY <1>3
  <2>2. PICK d \in Talk!Task : d = Talk!Read(c, g, TRUE) /\ d.run = c.run
    BY ReadIsTask
  <2>3. QED  BY ZenonT(40), <1>1, <2>1, <2>2, AskIsOutline
<1>4. CASE o \in {Talk!Settled(Talk!Read(c, g, FALSE)) : g \in Talk!Reading}
  <2>1. PICK g \in Talk!Reading : o = Talk!Settled(Talk!Read(c, g, FALSE))
    BY <1>4
  <2>2. PICK d \in Talk!Task : d = Talk!Read(c, g, FALSE) /\ d.run = c.run
    BY ReadIsTask
  <2>3. QED  BY <2>1, <2>2, SettledIsOutline
<1>5. QED  BY <1>2, <1>3, <1>4 DEF Talk!Understood

LEMMA ResolutionIsOutline ==
  ASSUME NEW c \in Talk!Task, NEW text, NEW o \in Talk!Resolutions(c, text)
  PROVE  \/ o \in Outline /\ o.task.run = c.run
         \/ o = [task |-> c, action |-> "run_control"] /\ c.run # Talk!NoRun
<1>1. CASE Talk!IsAnswer(c, text)
  <2>1. PICK ph \in Talk!Phase, w \in {"yes", "no"} :
          o = [task |-> [c EXCEPT !.phase = ph, !.confirmed = w], action |-> "confirm"]
    BY <1>1 DEF Talk!Resolutions, Talk!Phase, Talk!EndPhase
  <2>2. QED  BY <2>1 DEF Outline, Talk!Task, Talk!Stored
<1>2. CASE ~Talk!IsAnswer(c, text) /\ Talk!IsRunControl(c, text)
           /\ c.phase \in {"awaiting_user_action", "executing", "failed"}
  BY <1>2 DEF Talk!Resolutions, Talk!IsRunControl
<1>3. CASE ~Talk!IsAnswer(c, text) /\ ~(Talk!IsRunControl(c, text)
           /\ c.phase \in {"awaiting_user_action", "executing", "failed"})
  <2>1. o \in Talk!Detailed(c) \cup Talk!Timed(c) \cup Talk!Understood(c)
    BY <1>3 DEF Talk!Resolutions
  <2>2. QED  BY <2>1, DetailedIsOutline, TimedIsOutline, UnderstoodIsOutline
<1>4. QED  BY <1>1, <1>2, <1>3

\* What the runs do leaves the conversation's invariant, when its tasks stay as they are, and
\* when its task is brought up to its run.
LEMMA RunsKeep ==
  ASSUME TalkInv, runs' \in [Talk!Run -> Talk!RunRow],
         \A r \in Talk!Run : runs'[r] = runs[r] \/ Becomes(runs'[r])
  PROVE  /\ Created(topic, runs') /\ Created(chat.task, runs') /\ Created(demand.task, runs')
         /\ ~blind => Shows(topic, runs')
         /\ \A r \in Talk!Run : Owes(runs'[r])
         /\ \A r \in Talk!Run : runs[r].state # "absent" => runs'[r].state # "absent"
<1>1. /\ topic.run \in Talk!Run \cup {Talk!NoRun} /\ chat.task.run \in Talk!Run \cup {Talk!NoRun}
      /\ demand.task.run \in Talk!Run \cup {Talk!NoRun}
  BY DEF TalkInv, Talk!TypeOK, Talk!Task
<1>2. Created(topic, runs') /\ Created(chat.task, runs') /\ Created(demand.task, runs')
  BY <1>1 DEF TalkInv, Created, Becomes
<1>3. \A r \in Talk!Run : Owes(runs'[r])
  BY DEF TalkInv, Owes, Becomes, Talk!Outcome
<1>4. ~blind => Shows(topic, runs')
  BY <1>1 DEF TalkInv, Shows, Becomes, Talk!Outcome
<1>5. QED  BY <1>2, <1>3, <1>4 DEF Becomes

LEMMA RunIsSome == \A r \in Talk!Run : r # Talk!NoRun
BY BoundAssumption DEF Talk!Run, Talk!NoRun

\* One run's row is written.
LEMMA RowKeeps ==
  ASSUME TalkInv, NEW r \in Talk!Run, NEW row \in Talk!RunRow, Becomes(row),
         runs' = [runs EXCEPT ![r] = row]
  PROVE  /\ runs' \in [Talk!Run -> Talk!RunRow]
         /\ \A q \in Talk!Run : runs'[q] = runs[q] \/ Becomes(runs'[q])
<1>1. runs \in [Talk!Run -> Talk!RunRow]
  BY DEF TalkInv, Talk!TypeOK
<1>2. QED  BY <1>1

\* A run's state is set to one that is no outcome.
LEMMA SetKeeps ==
  ASSUME TalkInv, NEW r \in Talk!Run,
         NEW st \in {"awaiting_confirmation", "running", "paused", "cancelled"}, Talk!Sets(r, st)
  PROVE  /\ runs' \in [Talk!Run -> Talk!RunRow]
         /\ \A q \in Talk!Run : runs'[q] = runs[q] \/ Becomes(runs'[q])
<1>1. runs \in [Talk!Run -> Talk!RunRow]
  BY DEF TalkInv, Talk!TypeOK
<1>2. PICK ow \in Talk!Outcome \cup {"none", "lost"} :
        ow = IF st = "running" /\ runs[r].owed = "lost" THEN "none" ELSE runs[r].owed
  BY <1>1 DEF Talk!RunRow
<1>3. PICK row \in Talk!RunRow : row = [runs[r] EXCEPT !.state = st, !.owed = ow] /\ row.state = st
  <2>1. /\ [runs[r] EXCEPT !.state = st, !.owed = ow] \in Talk!RunRow
        /\ [runs[r] EXCEPT !.state = st, !.owed = ow].state = st
    BY <1>1 DEF Talk!RunRow
  <2>2. QED  BY <2>1
<1>4. runs' = [runs EXCEPT ![r] = row]
  BY <1>1, <1>2, <1>3 DEF Talk!Sets, Talk!RunRow
<1>5. Becomes(row)
  BY <1>3 DEF Becomes, Talk!Outcome
<1>6. QED  BY <1>4, <1>5, RowKeeps

\* A run is created.
LEMMA WithRunKeeps ==
  ASSUME TalkInv, NEW r \in Talk!Run, NEW i \in Talk!Intent, NEW engine \in BOOLEAN,
         NEW st \in {"awaiting_confirmation", "running"}, NEW rows, rows = Talk!WithRun(r, i, engine, st)
  PROVE  /\ rows \in [Talk!Run -> Talk!RunRow] /\ rows[r].state = st
         /\ \A q \in Talk!Run : rows[q] = runs[q] \/ Becomes(rows[q])
<1>1. runs \in [Talk!Run -> Talk!RunRow]
  BY DEF TalkInv, Talk!TypeOK
<1>2. PICK row \in Talk!RunRow :
        /\ row = [state |-> st, halt |-> "none", owed |-> "none", engine |-> engine, intent |-> i]
        /\ row.state = st
  <2>1. [state |-> st, halt |-> "none", owed |-> "none", engine |-> engine, intent |-> i] \in Talk!RunRow
    BY DEF Talk!RunRow
  <2>2. QED  BY <2>1
<1>3. rows = [runs EXCEPT ![r] = row]
  BY <1>2 DEF Talk!WithRun
<1>4. Becomes(row)
  BY <1>2 DEF Becomes, Talk!Outcome
<1>5. QED  BY <1>1, <1>2, <1>3, <1>4

LEMMA SaveKeeps ==
  ASSUME TalkInv, NEW c \in Talk!Task, NEW rows \in [Talk!Run -> Talk!RunRow], Created(c, rows),
         \A r \in Talk!Run : Owes(rows[r]), Created(demand.task, rows), runs' = rows,
         topic' = Talk!Synced(c, rows), legacy' = Talk!AsLegacy(Talk!Synced(c, rows)),
         chat' = Talk!Idle, UNCHANGED demand, blind' \in BOOLEAN, deeds' \in 0..MaxDeed
  PROVE  TalkInv'
<1>1. /\ topic' \in Talk!Task /\ Created(topic', rows) /\ Shows(topic', rows)
      /\ topic'.phase = "none" => topic'.run = Talk!NoRun
  BY SyncedShows
<1>2. legacy' \in Talk!Task /\ legacy'.run = Talk!NoRun
  BY <1>1, LegacyIsTask
<1>3. /\ chat' \in [at : {"idle", "model", "browser", "start"}, task : Talk!Task, text : Talk!Text,
                    action : {"none", "execute", "schedule", "confirm"}]
      /\ chat'.task.run = Talk!NoRun
  BY FreshIsTask DEF Talk!Idle, Talk!Text
<1>4. Talk!TypeOK'
  BY <1>1, <1>2, <1>3 DEF TalkInv, Talk!TypeOK
<1>5. QED  BY <1>1, <1>2, <1>3, <1>4 DEF TalkInv, Created, Shows

\* A turn goes on with a task of its own.
LEMMA TurnKeeps ==
  ASSUME TalkInv, runs' \in [Talk!Run -> Talk!RunRow],
         \A r \in Talk!Run : runs'[r] = runs[r] \/ Becomes(runs'[r]),
         UNCHANGED <<topic, demand, blind>>, legacy' \in Talk!Task, legacy'.run = Talk!NoRun,
         chat' \in [at : {"idle", "model", "browser", "start"}, task : Talk!Task, text : Talk!Text,
                    action : {"none", "execute", "schedule", "confirm"}],
         Created(chat'.task, runs'), deeds' \in 0..MaxDeed
  PROVE  TalkInv'
<1>1. /\ Created(topic, runs') /\ Created(demand.task, runs')
      /\ ~blind => Shows(topic, runs')
      /\ \A r \in Talk!Run : Owes(runs'[r])
  BY RunsKeep
<1>2. Talk!TypeOK'
  BY DEF TalkInv, Talk!TypeOK
<1>3. QED  BY <1>1, <1>2 DEF TalkInv, Created, Shows

\* A turn begins with a task of its own or with the one that was loaded.
LEMMA BeginKeeps == ASSUME TalkInv, NEW text \in Talk!Text, Talk!Begin(text)  PROVE TalkInv'
<1>1. Talk!TypeOK
  BY DEF TalkInv
<1>2. PICK c : /\ c \in {Talk!FreshTask(i) : i \in Talk!Intent} \cup {topic, legacy}
               /\ topic' = c /\ blind' = (blind /\ c = topic)
               /\ chat' = [at |-> "model", task |-> c, text |-> text, action |-> "none"]
  BY DEF Talk!Begin, Talk!Loaded
<1>3. UNCHANGED <<legacy, demand, runs>> /\ deeds' \in 0..MaxDeed /\ blind' \in BOOLEAN
  BY <1>1, <1>2, BoundAssumption DEF Talk!Begin, Talk!Counted, Talk!TypeOK
<1>4. c \in Talk!Task
  BY <1>1, <1>2, FreshIsTask DEF Talk!TypeOK
<1>5. /\ Created(c, runs) /\ (c # topic \/ ~blind => Shows(c, runs))
      /\ c.phase = "none" => c.run = Talk!NoRun
  BY <1>2, FreshIsTask DEF TalkInv, Created, Shows
<1>6. chat' \in [at : {"idle", "model", "browser", "start"}, task : Talk!Task, text : Talk!Text,
                 action : {"none", "execute", "schedule", "confirm"}]
      /\ chat'.task = c
  BY <1>2, <1>4
<1>7. Talk!TypeOK'
  BY <1>1, <1>2, <1>3, <1>4, <1>6 DEF Talk!TypeOK
<1>8. ~blind' => Shows(c, runs)
  BY <1>2, <1>5
<1>9. QED  BY <1>2, <1>3, <1>5, <1>6, <1>7, <1>8 DEF TalkInv, Created, Shows

\* A turn that saves its copy, over the runs as it leaves them.
LEMMA SaveStep ==
  ASSUME TalkInv, NEW c \in Talk!Task, NEW rows \in [Talk!Run -> Talk!RunRow], runs' = rows,
         \A r \in Talk!Run : runs'[r] = runs[r] \/ Becomes(runs'[r]),
         Created(c, rows), Talk!Save(c, rows), UNCHANGED <<demand, deeds>>
  PROVE  TalkInv'
<1>1. (\A r \in Talk!Run : Owes(rows[r])) /\ Created(demand.task, rows)
  BY RunsKeep
<1>2. deeds' \in 0..MaxDeed
  BY DEF TalkInv, Talk!TypeOK
<1>3. QED  BY <1>1, <1>2, SaveKeeps DEF Talk!Save

LEMMA ResolveKeeps == ASSUME TalkInv, Talk!Resolve  PROVE TalkInv'
<1>1. /\ Talk!TypeOK /\ Created(chat.task, runs) /\ chat.task \in Talk!Task
      /\ runs \in [Talk!Run -> Talk!RunRow] /\ deeds \in 0..MaxDeed
  BY DEF TalkInv, Talk!TypeOK
<1>2. UNCHANGED <<demand, deeds>>
  BY DEF Talk!Resolve
<1>3. PICK o \in Talk!Resolutions(chat.task, chat.text) :
        CASE o.action = "ask" -> Talk!Save(o.task, runs) /\ UNCHANGED runs
          [] o.action = "run_control" -> Talk!Control(o.task, Talk!RunAction(chat.text))
          [] o.action = "confirm" /\ o.task.confirmed = "no" -> Talk!Decline(o.task)
          [] o.action = "confirm" /\ o.task.confirmed # "no" /\ o.task.run # Talk!NoRun -> Talk!Confirm(o.task)
          [] OTHER -> /\ chat' = [chat EXCEPT !.at = "browser", !.task = o.task, !.action = o.action]
                      /\ legacy' = Talk!AsLegacy(o.task) /\ UNCHANGED <<topic, blind, runs>>
  BY DEF Talk!Resolve
<1>4. \/ o \in Outline /\ o.task.run = chat.task.run
      \/ o = [task |-> chat.task, action |-> "run_control"] /\ chat.task.run # Talk!NoRun
  BY <1>1, ResolutionIsOutline
<1>5. PICK c \in Talk!Task : c = o.task /\ c.run = chat.task.run
  BY <1>1, <1>4 DEF Outline
<1>6. Created(c, runs) /\ Talk!AsLegacy(c) \in Talk!Task /\ Talk!AsLegacy(c).run = Talk!NoRun
  BY <1>1, <1>5, LegacyIsTask DEF Created
<1>7. ASSUME Talk!Starting(c), runs' \in [Talk!Run -> Talk!RunRow],
             \A r \in Talk!Run : runs'[r] = runs[r] \/ Becomes(runs'[r]),
             legacy' = Talk!AsLegacy(c), UNCHANGED <<topic, blind>>
      PROVE  TalkInv'
  <2>1. /\ chat' \in [at : {"idle", "model", "browser", "start"}, task : Talk!Task, text : Talk!Text,
                      action : {"none", "execute", "schedule", "confirm"}]
        /\ chat'.task = c
    BY <1>1, <1>7 DEF Talk!Starting, Talk!TypeOK
  <2>2. Created(c, runs')
    BY <1>5, <1>7, RunsKeep DEF Created
  <2>3. QED  BY <1>1, <1>2, <1>6, <1>7, <2>1, <2>2, TurnKeeps
<1>8. CASE o.action = "ask"
  <2>1. Talk!Save(c, runs) /\ UNCHANGED runs
    BY <1>3, <1>5, <1>8
  <2>2. QED  BY <1>1, <1>2, <1>6, <2>1, SaveStep
<1>9. CASE o.action = "run_control"
  <2>1. /\ Talk!Control(c, Talk!RunAction(chat.text))
        /\ c.run \in Talk!Run
    BY <1>1, <1>3, <1>4, <1>5, <1>9 DEF Outline, Talk!Task
  <2>2. legacy' = Talk!AsLegacy(c) /\ UNCHANGED <<topic, blind>>
    BY <2>1 DEF Talk!Control
  <2>3. CASE chat' = Talk!Idle /\ UNCHANGED runs
    <3>1. /\ chat' \in [at : {"idle", "model", "browser", "start"}, task : Talk!Task, text : Talk!Text,
                        action : {"none", "execute", "schedule", "confirm"}]
          /\ chat'.task.run = Talk!NoRun
      BY <2>3, FreshIsTask DEF Talk!Idle, Talk!Text
    <3>2. Created(chat'.task, runs')
      BY <3>1 DEF Created
    <3>3. QED  BY <1>1, <1>2, <1>6, <2>2, <2>3, <3>1, <3>2, TurnKeeps
  <2>4. CASE ~(chat' = Talk!Idle /\ UNCHANGED runs)
    <3>1. PICK st \in {"paused", "cancelled", "running"} :
            Talk!Starting(c) /\ Talk!Sets(c.run, st)
      <4>1. PICK word : word = Talk!RunAction(chat.text)
        OBVIOUS
      <4>2. Talk!Starting(c) /\ Talk!Sets(c.run, CASE word = "pause" -> "paused" [] word = "stop" -> "cancelled"
                                                   [] OTHER -> "running")
        BY <2>1, <2>4, <4>1 DEF Talk!Control
      <4>3. QED  BY <4>2
    <3>2. QED  BY <1>7, <2>1, <2>2, <3>1, SetKeeps
  <2>5. QED  BY <2>3, <2>4
<1>10. CASE o.action = "confirm" /\ c.confirmed = "no"
  <2>1. Talk!Decline(c)
    BY <1>3, <1>5, <1>10
  <2>2. /\ runs' \in [Talk!Run -> Talk!RunRow]
        /\ \A q \in Talk!Run : runs'[q] = runs[q] \/ Becomes(runs'[q])
    <3>1. CASE runs' = runs
      BY <1>1, <3>1
    <3>2. CASE \E r \in Talk!Run : Talk!Sets(r, "cancelled")
      BY <3>2, SetKeeps
    <3>3. QED  BY <2>1, <3>1, <3>2 DEF Talk!Decline
  <2>3. PICK rows \in [Talk!Run -> Talk!RunRow] : rows = runs'
    BY <2>2
  <2>4. PICK d \in Talk!Task : d = [c EXCEPT !.phase = "cancelled"] /\ d.run = c.run
    <3>1. [c EXCEPT !.phase = "cancelled"] \in Talk!Task /\ [c EXCEPT !.phase = "cancelled"].run = c.run
      BY DEF Talk!Task, Talk!Stored, Talk!Phase, Talk!EndPhase
    <3>2. QED  BY <3>1
  <2>5. Talk!Save(d, rows)
    BY <2>1, <2>3, <2>4 DEF Talk!Decline, Talk!Save
  <2>6. Created(d, rows)
    BY <1>5, <2>2, <2>3, <2>4, RunsKeep DEF Created
  <2>7. QED  BY <1>1, <1>2, <2>2, <2>3, <2>5, <2>6, SaveStep
<1>11. CASE o.action = "confirm" /\ c.confirmed # "no" /\ c.run # Talk!NoRun
  <2>1. Talk!Confirm(c)
    BY <1>3, <1>5, <1>11
  <2>2. /\ Talk!Starting(c) /\ legacy' = Talk!AsLegacy(c) /\ UNCHANGED <<topic, blind>>
        /\ \E r \in Talk!Run : Talk!Sets(r, "running")
    BY <2>1 DEF Talk!Confirm
  <2>3. QED  BY <1>7, <2>2, SetKeeps
<1>12. CASE ~(o.action \in {"ask", "run_control"} \/ (o.action = "confirm" /\ (c.confirmed = "no" \/ c.run # Talk!NoRun)))
  <2>1. /\ chat' = [chat EXCEPT !.at = "browser", !.task = c, !.action = o.action]
        /\ legacy' = Talk!AsLegacy(c) /\ UNCHANGED <<topic, blind, runs>>
    BY <1>3, <1>5, <1>12
  <2>2. o.action \in {"confirm", "execute", "schedule"}
    BY <1>4, <1>12 DEF Outline
  <2>3. /\ chat' \in [at : {"idle", "model", "browser", "start"}, task : Talk!Task, text : Talk!Text,
                      action : {"none", "execute", "schedule", "confirm"}]
        /\ chat'.task = c
    BY <1>1, <2>1, <2>2 DEF Talk!TypeOK
  <2>4. QED  BY <1>1, <1>2, <1>6, <2>1, <2>3, TurnKeeps
<1>13. QED  BY <1>8, <1>9, <1>10, <1>11, <1>12

\* The rest of a turn.
LEMMA TurnStep ==
  ASSUME TalkInv, Talk!Fail \/ Talk!NoBrowser \/ Talk!Schedule \/ Talk!Finish
  PROVE  TalkInv'
<1>1. /\ Talk!TypeOK /\ Created(chat.task, runs) /\ chat.task \in Talk!Task
      /\ runs \in [Talk!Run -> Talk!RunRow]
  BY DEF TalkInv, Talk!TypeOK
<1>2. UNCHANGED <<demand, runs, deeds>>
  BY DEF Talk!Fail, Talk!NoBrowser, Talk!Schedule, Talk!Finish
<1>3. CASE Talk!Fail
  <2>1. chat' = Talk!Idle /\ UNCHANGED <<topic, legacy, blind>>
    BY <1>3 DEF Talk!Fail
  <2>2. /\ chat' \in [at : {"idle", "model", "browser", "start"}, task : Talk!Task, text : Talk!Text,
                      action : {"none", "execute", "schedule", "confirm"}]
        /\ chat'.task.run = Talk!NoRun
    BY <2>1, FreshIsTask DEF Talk!Idle, Talk!Text
  <2>3. Talk!TypeOK'
    BY <1>1, <1>2, <2>1, <2>2 DEF Talk!TypeOK
  <2>4. QED  BY <1>2, <2>1, <2>2, <2>3 DEF TalkInv, Created, Shows
<1>4. CASE ~Talk!Fail
  <2>1. PICK c \in Talk!Task : c.run = chat.task.run /\ Talk!Save(c, runs)
    <3>1. \A ph \in {"awaiting_user_action", "scheduled"} :
            [chat.task EXCEPT !.phase = ph] \in Talk!Task /\ [chat.task EXCEPT !.phase = ph].run = chat.task.run
      BY <1>1 DEF Talk!Task, Talk!Stored, Talk!Phase
    <3>2. CASE Talk!Save(chat.task, runs)
      BY <1>1, <3>2
    <3>3. CASE Talk!Save([chat.task EXCEPT !.phase = "awaiting_user_action"], runs)
      <4>1. PICK c \in Talk!Task : c = [chat.task EXCEPT !.phase = "awaiting_user_action"] /\ c.run = chat.task.run
        BY <3>1
      <4>2. Talk!Save(c, runs)
        BY <3>3, <4>1 DEF Talk!Save
      <4>3. QED  BY <4>1, <4>2 DEF Talk!Save
    <3>4. CASE Talk!Save([chat.task EXCEPT !.phase = "scheduled"], runs)
      <4>1. PICK c \in Talk!Task : c = [chat.task EXCEPT !.phase = "scheduled"] /\ c.run = chat.task.run
        BY <3>1
      <4>2. Talk!Save(c, runs)
        BY <3>4, <4>1 DEF Talk!Save
      <4>3. QED  BY <4>1, <4>2 DEF Talk!Save
    <3>5. QED  BY <1>4, <3>2, <3>3, <3>4 DEF Talk!NoBrowser, Talk!Schedule, Talk!Finish
  <2>2. Created(c, runs)
    BY <1>1, <2>1 DEF Created
  <2>3. QED  BY <1>1, <1>2, <2>1, <2>2, SaveStep
<1>5. QED  BY <1>3, <1>4

\* The turn's run is created, and begins at once unless it waits for a confirmation.
LEMMA CreateKeeps == ASSUME TalkInv, NEW r \in Talk!Run, Talk!CreateRun(r)  PROVE TalkInv'
<1>1. /\ Talk!TypeOK /\ chat.task \in Talk!Task /\ runs \in [Talk!Run -> Talk!RunRow]
  BY DEF TalkInv, Talk!TypeOK
<1>2. PICK c \in Talk!Task : c = [chat.task EXCEPT !.run = r] /\ c.run = r
  <2>1. [chat.task EXCEPT !.run = r] \in Talk!Task /\ [chat.task EXCEPT !.run = r].run = r
    BY <1>1 DEF Talk!Task
  <2>2. QED  BY <2>1
<1>3. PICK st \in {"awaiting_confirmation", "running"} :
        st = IF c.required THEN "awaiting_confirmation" ELSE "running"
  OBVIOUS
<1>4. c.intent \in Talk!Intent
  BY DEF Talk!Task
<1>5. PICK created \in [Talk!Run -> Talk!RunRow] :
        /\ created = Talk!WithRun(r, c.intent, FALSE, st) /\ created[r].state = st
        /\ \A q \in Talk!Run : created[q] = runs[q] \/ Becomes(created[q])
  <2>1. PICK rows : rows = Talk!WithRun(r, c.intent, FALSE, st)
    OBVIOUS
  <2>2. /\ rows \in [Talk!Run -> Talk!RunRow] /\ rows[r].state = st
        /\ \A q \in Talk!Run : rows[q] = runs[q] \/ Becomes(rows[q])
    BY ZenonT(40), <1>4, <2>1, WithRunKeeps
  <2>3. QED  BY <2>1, <2>2
<1>6. UNCHANGED <<demand, deeds>> /\ deeds' \in 0..MaxDeed
  BY <1>1 DEF Talk!CreateRun, Talk!TypeOK
<1>7. IF c.required /\ chat.action = "execute"
      THEN runs' = created /\ Talk!Save(c, created)
      ELSE /\ \/ runs' = created
              \/ \E q \in Talk!Run : /\ Talk!FirstOf(q, c.intent, created)
                                    /\ runs' = [created EXCEPT ![q].state = "running"]
           /\ Talk!Starting(c) /\ UNCHANGED <<topic, blind, legacy>>
  BY ZenonT(40), <1>2, <1>3, <1>5 DEF Talk!CreateRun
<1>8. CASE c.required /\ chat.action = "execute"
  <2>1. Created(c, created)
    BY <1>2, <1>5 DEF Created
  <2>2. QED  BY <1>5, <1>6, <1>7, <1>8, <2>1, SaveStep
<1>9. CASE ~(c.required /\ chat.action = "execute")
  <2>1. /\ runs' \in [Talk!Run -> Talk!RunRow] /\ runs'[r].state # "absent"
        /\ \A q \in Talk!Run : runs'[q] = runs[q] \/ Becomes(runs'[q])
    <3>1. CASE runs' = created
      BY <1>5, <3>1
    <3>2. CASE runs' # created
      <4>1. PICK q \in Talk!Run : runs' = [created EXCEPT ![q].state = "running"]
        BY <1>7, <1>9, <3>2
      <4>2. PICK begun \in Talk!RunRow :
              begun = [created[q] EXCEPT !.state = "running"] /\ begun.state = "running"
        <5>1. /\ [created[q] EXCEPT !.state = "running"] \in Talk!RunRow
              /\ [created[q] EXCEPT !.state = "running"].state = "running"
          BY ZenonT(40), <1>5 DEF Talk!RunRow
        <5>2. QED  BY <5>1
      <4>3. runs' = [created EXCEPT ![q] = begun] /\ Becomes(begun)
        BY <1>5, <4>1, <4>2 DEF Becomes, Talk!Outcome
      <4>4. QED  BY <1>5, <4>2, <4>3
    <3>3. QED  BY <3>1, <3>2
  <2>2. /\ chat' \in [at : {"idle", "model", "browser", "start"}, task : Talk!Task, text : Talk!Text,
                      action : {"none", "execute", "schedule", "confirm"}]
        /\ chat'.task = c /\ UNCHANGED <<topic, blind, legacy>>
    BY <1>1, <1>7, <1>9 DEF Talk!Starting, Talk!TypeOK
  <2>3. Created(chat'.task, runs')
    BY <1>2, <2>1, <2>2 DEF Created
  <2>4. legacy' \in Talk!Task /\ legacy'.run = Talk!NoRun
    BY <2>2 DEF TalkInv, Talk!TypeOK
  <2>5. QED  BY <1>6, <2>1, <2>2, <2>3, <2>4, TurnKeeps
<1>10. QED  BY <1>8, <1>9

\* A request: what it writes is the task it holds, and the row is not spoken of unless the run
\* it names is one that was just created.
LEMMA RequestKeeps ==
  ASSUME TalkInv,
         Talk!Demand \/ Talk!TurnedDown \/ Talk!PutOff \/ \E r \in Talk!Run : Talk!Engage(r)
  PROVE  TalkInv'
<1>1. /\ Talk!TypeOK /\ demand.task \in Talk!Task /\ topic \in Talk!Task
      /\ runs \in [Talk!Run -> Talk!RunRow] /\ deeds \in 0..MaxDeed
  BY DEF TalkInv, Talk!TypeOK
<1>2. /\ Talk!NoRequest \in [waits : BOOLEAN, task : Talk!Task]
      /\ Talk!NoRequest.task.run = Talk!NoRun
  BY FreshIsTask DEF Talk!NoRequest
<1>3. CASE Talk!Demand
  <2>1. PICK c : /\ c \in {Talk!FreshTask(i) : i \in Talk!Intent} \cup {topic}
                 /\ topic' = c /\ blind' = (blind /\ c = topic)
                 /\ demand' = [waits |-> TRUE, task |-> c]
    BY <1>3 DEF Talk!Demand
  <2>2. UNCHANGED <<legacy, chat, runs>> /\ deeds' \in 0..MaxDeed /\ blind' \in BOOLEAN
    BY <1>1, <1>3, <2>1, BoundAssumption DEF Talk!Demand, Talk!Counted, Talk!TypeOK
  <2>3. c \in Talk!Task
    BY <1>1, <2>1, FreshIsTask
  <2>4. /\ Created(c, runs) /\ (c # topic \/ ~blind => Shows(c, runs))
        /\ c.phase = "none" => c.run = Talk!NoRun
    BY <2>1, FreshIsTask DEF TalkInv, Created, Shows
  <2>5. Talk!TypeOK'
    BY <1>1, <2>1, <2>2, <2>3 DEF Talk!TypeOK
  <2>6. ~blind' => Shows(c, runs)
    BY <2>1, <2>4
  <2>7. QED  BY <2>1, <2>2, <2>4, <2>5, <2>6 DEF TalkInv, Created, Shows
<1>4. CASE Talk!TurnedDown
  <2>1. UNCHANGED <<legacy, chat, runs, deeds>> /\ demand' = Talk!NoRequest
    BY <1>4 DEF Talk!TurnedDown, Talk!Answers
  <2>2. CASE UNCHANGED <<topic, blind>>
    BY <1>1, <1>2, <2>1, <2>2 DEF TalkInv, Talk!TypeOK, Created, Shows
  <2>3. CASE ~UNCHANGED <<topic, blind>>
    <3>1. PICK ph \in {"collecting_requirements", "awaiting_user_action"} :
            topic' = [demand.task EXCEPT !.phase = ph] /\ blind' = TRUE
      BY <1>4, <2>3 DEF Talk!TurnedDown, Talk!Answers
    <3>2. topic' \in Talk!Task /\ topic'.run = demand.task.run /\ topic'.phase # "none"
      BY <1>1, <3>1 DEF Talk!Task, Talk!Stored, Talk!Phase
    <3>3. Talk!TypeOK'
      BY <1>1, <1>2, <2>1, <3>1, <3>2 DEF Talk!TypeOK
    <3>4. QED  BY <1>2, <2>1, <3>1, <3>2, <3>3 DEF TalkInv, Created
  <2>4. QED  BY <2>2, <2>3
<1>5. CASE Talk!PutOff
  <2>1. /\ UNCHANGED <<legacy, chat, runs, deeds>> /\ demand' = Talk!NoRequest /\ blind' = FALSE
        /\ topic' = [demand.task EXCEPT !.phase = "scheduled", !.run = Talk!NoRun]
    BY <1>5 DEF Talk!PutOff, Talk!Answers
  <2>2. topic' \in Talk!Task /\ topic'.run = Talk!NoRun
    BY <1>1, <2>1 DEF Talk!Task, Talk!Stored, Talk!Phase
  <2>3. Talk!TypeOK'
    BY <1>1, <1>2, <2>1, <2>2 DEF Talk!TypeOK
  <2>4. QED  BY <1>2, <2>1, <2>2, <2>3 DEF TalkInv, Created, Shows
<1>6. CASE \E r \in Talk!Run : Talk!Engage(r)
  <2>1. PICK r \in Talk!Run :
          /\ UNCHANGED <<legacy, chat, deeds>> /\ demand' = Talk!NoRequest /\ blind' = FALSE
          /\ topic' = [demand.task EXCEPT !.phase = "executing", !.run = r]
          /\ runs' = Talk!WithRun(r, demand.task.intent, TRUE, "running")
    BY <1>6 DEF Talk!Engage, Talk!Answers
  <2>2. topic' \in Talk!Task /\ topic'.run = r /\ topic'.phase = "executing"
    BY <1>1, <2>1 DEF Talk!Task, Talk!Stored, Talk!Phase
  <2>3. demand.task.intent \in Talk!Intent
    BY <1>1 DEF Talk!Task
  <2>4. /\ runs' \in [Talk!Run -> Talk!RunRow] /\ runs'[r].state = "running"
        /\ \A q \in Talk!Run : runs'[q] = runs[q] \/ Becomes(runs'[q])
    BY <2>1, <2>3, WithRunKeeps
  <2>5. Created(chat.task, runs') /\ \A q \in Talk!Run : Owes(runs'[q])
    BY <2>4, RunsKeep
  <2>6. Talk!TypeOK'
    BY <1>1, <1>2, <2>1, <2>2, <2>4 DEF Talk!TypeOK
  <2>7. QED  BY <1>2, <2>1, <2>2, <2>4, <2>5, <2>6 DEF TalkInv, Created, Shows, Talk!Outcome
<1>7. QED  BY <1>3, <1>4, <1>5, <1>6

\* The runs beside the turn: what they write of themselves.
LEMMA RunsStep ==
  ASSUME TalkInv, UNCHANGED <<topic, legacy, chat, demand, blind>>, deeds' \in 0..MaxDeed,
         runs' \in [Talk!Run -> Talk!RunRow],
         \A r \in Talk!Run : runs'[r] = runs[r] \/ Becomes(runs'[r])
  PROVE  TalkInv'
<1>1. /\ Created(topic, runs') /\ Created(chat.task, runs') /\ Created(demand.task, runs')
      /\ ~blind => Shows(topic, runs')
      /\ \A r \in Talk!Run : Owes(runs'[r])
  BY RunsKeep
<1>2. Talk!TypeOK'
  BY DEF TalkInv, Talk!TypeOK
<1>3. QED  BY <1>1, <1>2 DEF TalkInv, Created, Shows

LEMMA EndsKeeps == ASSUME TalkInv, NEW r \in Talk!Run, NEW st \in Talk!Outcome, Talk!Ends(r, st)  PROVE TalkInv'
<1>1. /\ Talk!TypeOK /\ runs \in [Talk!Run -> Talk!RunRow]
  BY DEF TalkInv, Talk!TypeOK
<1>2. /\ runs' = [runs EXCEPT ![r].state = st, ![r].owed = st]
      /\ UNCHANGED <<topic, legacy, chat, demand, blind>> /\ deeds' \in 0..MaxDeed
  BY <1>1, BoundAssumption DEF Talk!Ends, Talk!Counted, Talk!TypeOK
<1>3. PICK row \in Talk!RunRow : row = [runs[r] EXCEPT !.state = st, !.owed = st] /\ row.state = st /\ row.owed = st
  <2>1. /\ [runs[r] EXCEPT !.state = st, !.owed = st] \in Talk!RunRow
        /\ [runs[r] EXCEPT !.state = st, !.owed = st].state = st
        /\ [runs[r] EXCEPT !.state = st, !.owed = st].owed = st
    BY <1>1 DEF Talk!RunRow, Talk!Outcome
  <2>2. QED  BY <2>1
<1>4. runs' = [runs EXCEPT ![r] = row]
  BY <1>1, <1>2, <1>3
<1>5. Becomes(row)
  BY <1>3 DEF Becomes, Talk!Outcome
<1>6. QED  BY <1>2, <1>4, <1>5, RowKeeps, RunsStep

LEMMA HaltsKeeps ==
  ASSUME TalkInv, NEW r \in Talk!Run, NEW halt \in {"confirm", "reply", "hard"}, Talk!Halts(r, halt)
  PROVE  TalkInv'
<1>1. /\ Talk!TypeOK /\ runs \in [Talk!Run -> Talk!RunRow]
  BY DEF TalkInv, Talk!TypeOK
<1> PICK st \in {"waiting_for_human", "failed"} : runs' = [runs EXCEPT ![r].state = st, ![r].halt = halt]
  BY DEF Talk!Halts
<1>2. UNCHANGED <<topic, legacy, chat, demand, blind>> /\ deeds' \in 0..MaxDeed
  BY <1>1, BoundAssumption DEF Talk!Halts, Talk!Counted, Talk!TypeOK
<1>3. PICK row \in Talk!RunRow : row = [runs[r] EXCEPT !.state = st, !.halt = halt] /\ row.state = st /\ row.halt = halt
  <2>1. /\ [runs[r] EXCEPT !.state = st, !.halt = halt] \in Talk!RunRow
        /\ [runs[r] EXCEPT !.state = st, !.halt = halt].state = st
        /\ [runs[r] EXCEPT !.state = st, !.halt = halt].halt = halt
    BY <1>1 DEF Talk!RunRow, Talk!Outcome
  <2>2. QED  BY <2>1
<1>4. runs' = [runs EXCEPT ![r] = row]
  BY <1>1, <1>2, <1>3
<1>5. Becomes(row)
  BY <1>3 DEF Becomes, Talk!Outcome
<1>6. QED  BY <1>2, <1>4, <1>5, RowKeeps, RunsStep

\* A message of a run brings the task to the outcome that it tells.
LEMMA TellKeeps == ASSUME TalkInv, NEW r \in Talk!Run, Talk!Tell(r)  PROVE TalkInv'
<1>1. /\ Talk!TypeOK /\ runs \in [Talk!Run -> Talk!RunRow] /\ topic \in Talk!Task
      /\ Created(topic, runs) /\ Created(chat.task, runs) /\ chat.task \in Talk!Task
      /\ Created(demand.task, runs) /\ demand.task \in Talk!Task
  BY DEF TalkInv, Talk!TypeOK
<1>2. PICK row \in Talk!RunRow : row = runs[r] /\ row.owed \in Talk!Outcome
  BY <1>1 DEF Talk!Tell
<1>3. PICK sent \in Talk!RunRow :
        /\ sent = IF Talk!Loadable THEN [row EXCEPT !.owed = "none"]
                  ELSE [row EXCEPT !.state = "failed", !.owed = "lost"]
        /\ sent.owed \in {"none", "lost"} /\ sent.halt = row.halt /\ sent.state \in {row.state, "failed"}
        /\ IF Talk!Loadable THEN sent.owed = "none" /\ sent.state = row.state ELSE sent.owed = "lost"
  <2>1. CASE Talk!Loadable
    <3>1. /\ [row EXCEPT !.owed = "none"] \in Talk!RunRow
          /\ [row EXCEPT !.owed = "none"].owed = "none"
          /\ [row EXCEPT !.owed = "none"].state = row.state
          /\ [row EXCEPT !.owed = "none"].halt = row.halt
      BY DEF Talk!RunRow
    <3>2. QED  BY <2>1, <3>1
  <2>2. CASE ~Talk!Loadable
    <3>1. /\ [row EXCEPT !.state = "failed", !.owed = "lost"] \in Talk!RunRow
          /\ [row EXCEPT !.state = "failed", !.owed = "lost"].owed = "lost"
          /\ [row EXCEPT !.state = "failed", !.owed = "lost"].state = "failed"
          /\ [row EXCEPT !.state = "failed", !.owed = "lost"].halt = row.halt
      BY DEF Talk!RunRow, Talk!Outcome
    <3>2. QED  BY <2>2, <3>1
  <2>3. QED  BY <2>1, <2>2
<1>4. runs' = [runs EXCEPT ![r] = sent]
  <2>1. CASE Talk!Loadable
    <3>1. runs' = [runs EXCEPT ![r].owed = "none"] /\ sent = [runs[r] EXCEPT !.owed = "none"]
      BY <1>2, <1>3, <2>1 DEF Talk!Tell
    <3>2. QED  BY <1>1, <3>1
  <2>2. CASE ~Talk!Loadable
    <3>1. /\ runs' = [runs EXCEPT ![r].state = "failed", ![r].owed = "lost"]
          /\ sent = [runs[r] EXCEPT !.state = "failed", !.owed = "lost"]
      BY <1>2, <1>3, <2>2 DEF Talk!Tell
    <3>2. QED  BY <1>1, <3>1
  <2>3. QED  BY <2>1, <2>2
<1>5. runs' \in [Talk!Run -> Talk!RunRow] /\ \A q \in Talk!Run : runs'[q] = IF q = r THEN sent ELSE runs[q]
  BY <1>1, <1>4
<1>6. UNCHANGED <<legacy, chat, demand, deeds>> /\ blind' \in BOOLEAN
  BY <1>1 DEF Talk!Tell, Talk!TypeOK
<1>7. PICK ph \in Talk!Phase :
        /\ ph = IF row.owed \in Talk!EndPhase THEN row.owed ELSE "awaiting_user_action"
        /\ Talk!Loadable /\ row.state \in Talk!Outcome /\ row.halt = "none" => ph = Talk!PhaseOfRun(sent)
  <2>1. Owes(row)
    BY <1>2 DEF TalkInv
  <2>2. row.state \in Talk!Outcome /\ row.halt = "none" => row.owed = row.state
    BY <1>2, <2>1 DEF Owes
  <2>3. QED  BY <1>2, <1>3, <2>2 DEF Talk!Outcome, Talk!EndPhase, Talk!Phase, Talk!PhaseOfRun
<1>8. IF topic.phase = "none" \/ ~Talk!Loadable \/ topic.run \notin {Talk!NoRun, r}
      THEN UNCHANGED <<topic, blind>> ELSE topic' = [topic EXCEPT !.phase = ph] /\ blind' = FALSE
  BY <1>2, <1>7 DEF Talk!Tell
<1>9. [topic EXCEPT !.phase = ph] \in Talk!Task /\ [topic EXCEPT !.phase = ph].run = topic.run
      /\ [topic EXCEPT !.phase = ph].phase = ph
  BY <1>1 DEF Talk!Task, Talk!Stored
<1>10. topic' \in Talk!Task /\ topic'.run = topic.run /\ (topic'.phase = "none" => topic.phase = "none")
  BY <1>1, <1>8, <1>9 DEF Talk!Phase, Talk!EndPhase
<1>11. Talk!TypeOK'
  BY <1>1, <1>5, <1>6, <1>10 DEF Talk!TypeOK
<1>12. \A t \in Talk!Task : Created(t, runs) => Created(t, runs')
  BY <1>1, <1>2, <1>3, <1>5 DEF Created, Talk!Task
<1>13. \A q \in Talk!Run : Owes(runs'[q])
  BY <1>3, <1>5 DEF TalkInv, Owes, Talk!Outcome
<1>14. ~blind' => Shows(topic', runs')
  <2>1. CASE topic.run = r
    <3>1. CASE ~Talk!Loadable
      BY <1>1, <1>8, <2>1, <3>1, RunIsSome DEF TalkInv, Talk!Loadable, Shows
    <3>2. CASE Talk!Loadable
      <4>1. topic'.phase = ph
        BY <1>8, <1>9, <2>1, <3>2, RunIsSome DEF TalkInv
      <4>2. runs'[topic'.run] = sent
        BY <1>5, <1>10, <2>1
      <4>3. QED  BY <1>3, <1>7, <4>1, <4>2 DEF Shows, Talk!Phase, Talk!EndPhase
    <3>3. QED  BY <3>1, <3>2
  <2>2. CASE topic.run # r
    <3>1. CASE topic.run = Talk!NoRun
      BY <1>10, <3>1 DEF Shows
    <3>2. CASE topic.run # Talk!NoRun
      <4>1. /\ topic' = topic /\ blind' = blind /\ topic.run \in Talk!Run
            /\ runs'[topic.run] = runs[topic.run]
        BY <1>1, <1>5, <1>8, <2>2, <3>2 DEF Talk!Task
      <4>2. QED  BY <4>1 DEF TalkInv, Shows
    <3>3. QED  BY <3>1, <3>2
  <2>3. QED  BY <2>1, <2>2
<1>15. Created(topic', runs') /\ Created(chat'.task, runs') /\ Created(demand'.task, runs')
  BY <1>1, <1>6, <1>10, <1>12 DEF Created
<1>16. legacy'.run = Talk!NoRun /\ (topic'.phase = "none" => topic'.run = Talk!NoRun)
  BY <1>6, <1>10 DEF TalkInv
<1>17. QED  BY <1>11, <1>13, <1>14, <1>15, <1>16 DEF TalkInv

\* What a run of the other engine leaves of the row and of itself.
LEMMA SucceedsKeeps == ASSUME TalkInv, NEW r \in Talk!Run, Talk!Succeeds(r)  PROVE TalkInv'
<1>1. /\ Talk!TypeOK /\ runs \in [Talk!Run -> Talk!RunRow] /\ topic \in Talk!Task
      /\ chat.task \in Talk!Task /\ demand.task \in Talk!Task
  BY DEF TalkInv, Talk!TypeOK
<1>2. PICK row \in Talk!RunRow :
        /\ row = [runs[r] EXCEPT !.state = "completed"]
        /\ row.state = "completed" /\ row.owed = "none" /\ row.halt = runs[r].halt
  <2>1. /\ [runs[r] EXCEPT !.state = "completed"] \in Talk!RunRow
        /\ [runs[r] EXCEPT !.state = "completed"].state = "completed"
        /\ [runs[r] EXCEPT !.state = "completed"].owed = runs[r].owed
        /\ [runs[r] EXCEPT !.state = "completed"].halt = runs[r].halt
    BY <1>1 DEF Talk!RunRow, Talk!Outcome
  <2>2. QED  BY <2>1 DEF Talk!Succeeds, Talk!AtWork
<1>3. runs' = [runs EXCEPT ![r] = row] /\ UNCHANGED <<legacy, chat, demand, deeds>>
  BY <1>1, <1>2 DEF Talk!Succeeds
<1>4. runs' \in [Talk!Run -> Talk!RunRow] /\ \A q \in Talk!Run : runs'[q] = IF q = r THEN row ELSE runs[q]
  BY <1>1, <1>3
<1>5. \A t \in Talk!Task : Created(t, runs) => Created(t, runs')
  BY <1>1, <1>2, <1>4 DEF Created, Talk!Task
<1>6. \A q \in Talk!Run : Owes(runs'[q])
  BY <1>2, <1>4 DEF TalkInv, Owes, Talk!Outcome
<1>7. CASE topic.phase = "none"
  <2>1. UNCHANGED <<topic, blind>> /\ topic.run = Talk!NoRun
    BY <1>7 DEF Talk!Succeeds, TalkInv
  <2>2. Talk!TypeOK'
    BY <1>1, <1>3, <1>4, <2>1 DEF Talk!TypeOK
  <2>3. QED  BY <1>1, <1>3, <1>5, <1>6, <2>1, <2>2 DEF TalkInv, Shows
<1>8. CASE topic.phase # "none"
  <2>1. topic' = [topic EXCEPT !.phase = "completed"] /\ blind' = (topic.run # r)
    BY <1>8 DEF Talk!Succeeds
  <2>2. topic' \in Talk!Task /\ topic'.run = topic.run /\ topic'.phase = "completed"
    BY <1>1, <2>1 DEF Talk!Task, Talk!Stored, Talk!Phase, Talk!EndPhase
  <2>3. Talk!TypeOK'
    BY <1>1, <1>3, <1>4, <2>1, <2>2 DEF Talk!TypeOK
  <2>4. ~blind' => Shows(topic', runs')
    <3>1. row.halt = "none" => Talk!PhaseOfRun(row) = "completed"
      BY <1>2 DEF Talk!PhaseOfRun
    <3>2. ~blind' => topic'.run = r
      BY <2>1, <2>2
    <3>3. topic'.run = r => runs'[topic'.run] = row
      BY <1>4
    <3>4. topic'.phase # "needs_attention"
      BY <2>2
    <3>5. topic'.run = r => Shows(topic', runs')
      BY <2>2, <3>1, <3>3, <3>4 DEF Shows
    <3>6. QED  BY <3>2, <3>5
  <2>5. Created(topic', runs')
    BY <1>1, <1>5, <2>2 DEF TalkInv, Created
  <2>6. QED  BY <1>1, <1>3, <1>5, <1>6, <2>2, <2>3, <2>4, <2>5 DEF TalkInv
<1>9. QED  BY <1>7, <1>8

LEMMA LosesKeeps == ASSUME TalkInv, NEW r \in Talk!Run, Talk!Loses(r)  PROVE TalkInv'
<1>1. /\ Talk!TypeOK /\ runs \in [Talk!Run -> Talk!RunRow] /\ topic \in Talk!Task
  BY DEF TalkInv, Talk!TypeOK
<1>2. runs[r].state = "running" /\ UNCHANGED <<legacy, chat, demand, deeds>>
  BY DEF Talk!Loses, Talk!AtWork
<1>3. PICK st \in {"running", "failed"} :
        /\ runs' = [runs EXCEPT ![r].state = st, ![r].owed = "lost"]
        /\ \/ topic.phase # "none" /\ topic' = [topic EXCEPT !.phase = "needs_attention"] /\ blind' = TRUE
           \/ UNCHANGED <<topic, blind>>
  <2>1. runs' = [runs EXCEPT ![r].owed = "lost"] => runs' = [runs EXCEPT ![r].state = "running", ![r].owed = "lost"]
    BY ZenonT(40), <1>1, <1>2 DEF Talk!RunRow
  <2>2. QED  BY <2>1 DEF Talk!Loses
<1>4. PICK row \in Talk!RunRow :
        row = [runs[r] EXCEPT !.state = st, !.owed = "lost"] /\ row.state = st /\ row.owed = "lost"
  <2>1. /\ [runs[r] EXCEPT !.state = st, !.owed = "lost"] \in Talk!RunRow
        /\ [runs[r] EXCEPT !.state = st, !.owed = "lost"].state = st
        /\ [runs[r] EXCEPT !.state = st, !.owed = "lost"].owed = "lost"
    BY <1>1 DEF Talk!RunRow, Talk!Outcome
  <2>2. QED  BY <2>1
<1>5. runs' = [runs EXCEPT ![r] = row] /\ Becomes(row)
  BY <1>1, <1>3, <1>4 DEF Becomes
<1>6. CASE UNCHANGED <<topic, blind>>
  <2>1. deeds' \in 0..MaxDeed
    BY <1>1, <1>2 DEF Talk!TypeOK
  <2>2. QED  BY <1>2, <1>5, <1>6, <2>1, RowKeeps, RunsStep
<1>7. CASE topic.phase # "none" /\ topic' = [topic EXCEPT !.phase = "needs_attention"] /\ blind' = TRUE
  <2>1. topic' \in Talk!Task /\ topic'.run = topic.run /\ topic'.phase = "needs_attention"
    BY <1>1, <1>7 DEF Talk!Task, Talk!Stored
  <2>2. /\ runs' \in [Talk!Run -> Talk!RunRow] /\ Created(topic, runs') /\ Created(chat.task, runs')
        /\ Created(demand.task, runs') /\ \A q \in Talk!Run : Owes(runs'[q])
    BY <1>5, RowKeeps, RunsKeep
  <2>3. Talk!TypeOK'
    BY <1>1, <1>2, <1>7, <2>1, <2>2 DEF Talk!TypeOK
  <2>4. QED  BY <1>2, <1>7, <2>1, <2>2, <2>3 DEF TalkInv, Created
<1>8. QED  BY <1>3, <1>6, <1>7

LEMMA TalkStep == TalkInv /\ Talk!Next => TalkInv'
<1> SUFFICES ASSUME TalkInv, Talk!Next  PROVE TalkInv'
  OBVIOUS
<1>1. /\ Talk!TypeOK /\ runs \in [Talk!Run -> Talk!RunRow] /\ topic \in Talk!Task
  BY DEF TalkInv, Talk!TypeOK
<1>2. CASE Talk!Refresh
  <2>1. /\ topic' = Talk!Synced(topic, runs) /\ blind' = FALSE
        /\ UNCHANGED <<legacy, chat, demand, runs, deeds>>
    BY <1>2 DEF Talk!Refresh
  <2>2. /\ topic' \in Talk!Task /\ Created(topic', runs) /\ Shows(topic', runs)
        /\ topic'.phase = "none" => topic'.run = Talk!NoRun
    BY <1>1, <2>1, SyncedShows DEF TalkInv
  <2>3. Talk!TypeOK'
    BY <1>1, <2>1, <2>2 DEF Talk!TypeOK
  <2>4. QED  BY <2>1, <2>2, <2>3 DEF TalkInv, Created, Shows
<1>3. CASE Talk!Delete
  <2>1. topic' = Talk!NoTask /\ blind' = FALSE /\ UNCHANGED <<legacy, chat, demand, runs, deeds>>
    BY <1>3 DEF Talk!Delete
  <2>2. Talk!TypeOK'
    BY <1>1, <2>1, FreshIsTask DEF Talk!TypeOK
  <2>3. QED  BY <2>1, <2>2, FreshIsTask DEF TalkInv, Created, Shows
<1>4. ASSUME NEW r \in Talk!Run, Talk!UserActs(r)  PROVE TalkInv'
  <2>1. PICK st \in {"paused", "cancelled", "running"} : Talk!Sets(r, st)
    BY <1>4 DEF Talk!UserActs
  <2>2. UNCHANGED <<topic, legacy, chat, demand, blind>> /\ deeds' \in 0..MaxDeed
    BY <1>1, <1>4, BoundAssumption DEF Talk!UserActs, Talk!Counted, Talk!TypeOK
  <2>3. QED  BY <2>1, <2>2, SetKeeps, RunsStep
<1>5. CASE \E text \in Talk!Text : Talk!Begin(text)
  BY <1>5, BeginKeeps
<1>6. CASE Talk!Resolve
  BY <1>6, ResolveKeeps
<1>7. CASE Talk!Fail \/ Talk!NoBrowser \/ Talk!Schedule \/ Talk!Finish
  BY <1>7, TurnStep
<1>8. CASE \E r \in Talk!Run : Talk!CreateRun(r) \/ Talk!Tell(r) \/ Talk!Succeeds(r) \/ Talk!Loses(r)
  BY <1>8, CreateKeeps, TellKeeps, SucceedsKeeps, LosesKeeps
<1>9. CASE \E r \in Talk!Run, st \in Talk!Outcome : Talk!Ends(r, st)
  BY <1>9, EndsKeeps
<1>10. CASE \E r \in Talk!Run, halt \in {"confirm", "reply", "hard"} : Talk!Halts(r, halt)
  BY <1>10, HaltsKeeps
<1>11. CASE Talk!Demand \/ Talk!TurnedDown \/ Talk!PutOff \/ \E r \in Talk!Run : Talk!Engage(r)
  BY <1>11, RequestKeeps
<1>12. QED  BY <1>2, <1>3, <1>4, <1>5, <1>6, <1>7, <1>8, <1>9, <1>10, <1>11 DEF Talk!Next

-----------------------------------------------------------------------------
(* StepPlanner.                                                            *)

\* Once a round has brought the run's progress up to date no typed step is left, so only the
\* listing determines a step, and only such a step is directed.
FromListing ==
  /\ kind = "listing" /\ picks
  /\ plan.status = "action" /\ plan.step \in Planner!Click(results \cap Clickable)

PlannerInv ==
  /\ Planner!TypeOK
  /\ stage \notin {"look", "sync"} => typed = "none"
  /\ stage = "sync" => plan = Planner!NoPlan
  /\ stage \notin {"look", "act", "over"} => decided = "none"
  /\ plan.source # "typed"
  /\ plan.source = "listing" => FromListing
  /\ decided = "directed" => plan.source = "listing"
  /\ decided \notin {"ungrounded", "blocked"}

LEMMA NoPlanIsPlan == Planner!Nothing \in Planner!Step /\ Planner!NoPlan \in Planner!Plans
BY DEF Planner!Nothing, Planner!Step, Planner!NoPlan, Planner!Plans

LEMMA PlannerInit == Planner!Init => PlannerInv
BY NoPlanIsPlan DEF Planner!Init, PlannerInv, Planner!TypeOK, Planner!NoPlan, Planner!Surface

LEMMA PlannerStill == PlannerInv /\ UNCHANGED plannerVars => PlannerInv'
BY DEF PlannerInv, plannerVars, Planner!TypeOK, FromListing

LEMMA PlannerInvIsEnough == PlannerInv => Planner!TypeOK /\ Planner!OnlyListed
BY DEF PlannerInv, FromListing, Planner!OnlyListed

LEMMA AnswerIsStep == \A a \in Planner!Answers : a.step \in Planner!Step
BY DEF Planner!Answers, Planner!Usable

\* Without a typed step only a listed result is determined.
LEMMA DeterminedIsListed ==
  ASSUME PlannerInv, typed = "none", NEW s \in Planner!Determined
  PROVE  /\ kind = "listing" /\ picks /\ s \in Planner!Step
         /\ s \in Planner!Click(results \cap Clickable)
<1>1. s \in Planner!ListedSteps
  BY DEF Planner!Determined
<1>2. kind = "listing" /\ picks /\ s \in Planner!Click(results \cap Clickable)
  BY <1>1 DEF Planner!ListedSteps
<1>3. results \subseteq Element
  BY DEF PlannerInv, Planner!TypeOK
<1>4. s \in Planner!Pointing
  BY <1>2, <1>3 DEF Planner!Click, Planner!Pointing
<1>5. QED  BY <1>2, <1>4 DEF Planner!Step

LEMMA PlannerStep == PlannerInv /\ Planner!Next => PlannerInv'
<1> SUFFICES ASSUME PlannerInv, Planner!Next  PROVE PlannerInv'
  OBVIOUS
<1>1. CASE Planner!Look
  BY <1>1, NoPlanIsPlan DEF Planner!Look, PlannerInv, Planner!TypeOK, Planner!NoPlan,
                              Planner!Surface
<1>2. CASE Planner!Sync
  BY <1>2 DEF Planner!Sync, PlannerInv, Planner!TypeOK, Planner!NoPlan
<1>3. CASE Planner!Determine
  <2>1. PICK s \in Planner!Determined : plan' = [status |-> "action", step |-> s, source |-> "listing"]
    BY <1>3 DEF Planner!Determine, PlannerInv, Planner!Ruled
  <2>2. typed = "none"
    BY <1>3 DEF Planner!Determine, PlannerInv
  <2>3. /\ kind = "listing" /\ picks /\ s \in Planner!Step
        /\ s \in Planner!Click(results \cap Clickable)
    BY <2>2, DeterminedIsListed
  <2>4. plan' \in Planner!Plans
    BY <2>1, <2>3 DEF Planner!Plans
  <2>5. FromListing'
    BY <1>3, <2>1, <2>3 DEF Planner!Determine, Planner!Page, FromListing, Planner!Click
  <2>6. Planner!TypeOK'
    BY <1>3, <2>4 DEF Planner!Determine, Planner!Page, PlannerInv, Planner!TypeOK
  <2>7. QED  BY <1>3, <2>1, <2>5, <2>6 DEF Planner!Determine, PlannerInv
<1>4. CASE Planner!Ask \/ Planner!Invalid
  BY <1>4 DEF Planner!Ask, Planner!Invalid, Planner!Page, PlannerInv, Planner!TypeOK, FromListing
<1>5. CASE Planner!Answer
  <2>1. draft' \in Planner!Step
    BY <1>5, AnswerIsStep DEF Planner!Answer
  <2>2. QED
    BY <1>5, <2>1 DEF Planner!Answer, Planner!Page, PlannerInv, Planner!TypeOK, FromListing
<1>6. CASE Planner!Refined
  <2>1. draft' \in Planner!Step
    BY <1>6, AnswerIsStep DEF Planner!Refined, PlannerInv, Planner!TypeOK
  <2>2. QED
    BY <1>6, <2>1 DEF Planner!Refined, Planner!Page, PlannerInv, Planner!TypeOK, FromListing
<1>7. CASE Planner!Fallback
  BY <1>7, NoPlanIsPlan
     DEF Planner!Fallback, Planner!Page, PlannerInv, Planner!TypeOK, Planner!Told, FromListing
<1>8. CASE Planner!Gate
  <2>1. plan' \in Planner!Plans /\ plan'.source = "model"
    BY <1>8 DEF Planner!Gate, PlannerInv, Planner!TypeOK, Planner!Plans
  <2>2. QED  BY <1>8, <2>1 DEF Planner!Gate, Planner!Page, PlannerInv, Planner!TypeOK
<1>9. CASE Planner!Decide
  <2>1. typed = "none"
    BY <1>9 DEF Planner!Decide, PlannerInv
  <2>2. Planner!Directs => plan.source = "listing"
    BY <2>1 DEF Planner!Directs, PlannerInv
  <2>3. decided' = IF Planner!Directs THEN "directed" ELSE "handed"
    BY <1>9, <2>1 DEF Planner!Decide, Planner!Ruled
  <2>4. QED
    BY <1>9, <2>1, <2>2, <2>3
       DEF Planner!Decide, Planner!Page, PlannerInv, Planner!TypeOK, FromListing
<1>10. CASE Planner!Act
  BY <1>10 DEF Planner!Act, Planner!Page, PlannerInv, Planner!TypeOK, FromListing
<1>11. QED
  BY <1>1, <1>2, <1>3, <1>4, <1>5, <1>6, <1>7, <1>8, <1>9, <1>10 DEF Planner!Next

-----------------------------------------------------------------------------
(* The composition: one part moves at a time.                              *)

ExecutorInv ==
  /\ DirectedInv /\ VerdictInv /\ PromptInv /\ HookedInv
  /\ UseInv /\ EngineInv /\ TalkInv /\ PlannerInv

allVars == <<focus, directedVars, verdictVars, promptVars, hookedVars, computerVars, engineVars,
             talkVars, plannerVars>>

\* Which part this behaviour is one of.
OnePart ==
  focus \in {"directed", "verdict", "prompt", "hooked", "computer", "engine", "talk", "planner"}

LEMMA ExecutorInit == MCInit => ExecutorInv
BY DirectedInit, VerdictInit, PromptInit, HookedInit, UseInit, EngineInit, TalkInit,
   PlannerInit
   DEF MCInit, ExecutorInv

LEMMA ExecutorStep == ExecutorInv /\ [MCNext]_allVars => ExecutorInv'
<1> SUFFICES ASSUME ExecutorInv, [MCNext]_allVars  PROVE ExecutorInv'
  OBVIOUS
<1>1. DirectedInv'
  <2>1. Directed!Next \/ UNCHANGED directedVars
    BY DEF MCNext, allVars
  <2>2. QED  BY <2>1, DirectedStep, DirectedStill DEF ExecutorInv
<1>2. VerdictInv'
  <2>1. Verdicts!Next \/ UNCHANGED verdictVars
    BY DEF MCNext, allVars
  <2>2. QED  BY <2>1, VerdictStep, VerdictStill DEF ExecutorInv
<1>3. PromptInv'
  <2>1. Prompt!Next \/ UNCHANGED promptVars
    BY DEF MCNext, allVars
  <2>2. QED  BY <2>1, PromptStep, PromptStill DEF ExecutorInv
<1>4. HookedInv'
  <2>1. Hooked!Next \/ UNCHANGED hookedVars
    BY DEF MCNext, allVars
  <2>2. QED  BY <2>1, HookedStep, HookedStill DEF ExecutorInv
<1>5. UseInv'
  <2>1. Computer!Next \/ UNCHANGED computerVars
    BY DEF MCNext, allVars
  <2>2. QED  BY <2>1, UseStep, UseStill DEF ExecutorInv
<1>6. EngineInv'
  <2>1. Engine!Next \/ UNCHANGED engineVars
    BY DEF MCNext, allVars
  <2>2. QED  BY <2>1, EngineStep, EngineStill DEF ExecutorInv
<1>7. TalkInv'
  <2>1. Talk!Next \/ UNCHANGED talkVars
    BY DEF MCNext, allVars
  <2>2. QED  BY <2>1, TalkStep, TalkStill DEF ExecutorInv
<1>8. PlannerInv'
  <2>1. Planner!Next \/ UNCHANGED plannerVars
    BY DEF MCNext, allVars
  <2>2. QED  BY <2>1, PlannerStep, PlannerStill DEF ExecutorInv
<1>9. QED  BY <1>1, <1>2, <1>3, <1>4, <1>5, <1>6, <1>7, <1>8 DEF ExecutorInv

LEMMA ExecutorAlways == MCSpec => []ExecutorInv
<1>1. ExecutorInv /\ [MCNext]_allVars => ExecutorInv'
  BY ExecutorStep
<1>2. QED  BY <1>1, ExecutorInit, PTL DEF MCSpec, allVars

\* The steps the backend picks, the tabs of those it directs, the verdict's observations, the turns and
\* counters of both loops of the runtime, the tasks of the computer-use engine, its loop and
\* the conversation keep their types in every reachable state.
THEOREM ExecutorTypeCorrect == MCSpec => []TypeOK
<1>1. OnePart /\ ExecutorInv => TypeOK
  BY DirectedInvIsEnough, VerdictInvIsEnough, UseInvIsEnough, TalkInvIsEnough,
     PlannerInvIsEnough
     DEF OnePart, ExecutorInv, PromptInv, HookedInv, EngineInv, TypeOK
<1>2. MCInit => OnePart
  BY DEF MCInit, OnePart
<1>3. OnePart /\ [MCNext]_allVars => OnePart'
  BY DEF OnePart, MCNext, allVars
<1>4. QED  BY <1>1, <1>2, <1>3, ExecutorAlways, PTL DEF MCSpec, allVars

\* Unless a tab moved by itself, a directed command looks at, and clicks in, the page that its
\* active ref stood for, and the active ref stays one of the registry's, for any number of
\* tabs that open, close and navigate between the steps and any registry the syncs leave.  And
\* what is directed is a click on a result that the round's snapshot lists: no answer of a
\* model is, whatever controls there are and whatever the answers name.
THEOREM PageIsAlwaysKept == MCSpec => []PageIsKept
<1>1. ExecutorInv => PageIsKept
  BY DirectedInvIsEnough, PlannerInvIsEnough DEF ExecutorInv, PageIsKept
<1>2. QED  BY <1>1, ExecutorAlways, PTL

\* A run is completed only when this attempt saw the success in the browser or there was
\* nothing to see and the runtime said so, it then carries no incident, and a run the backend
\* gave up on stays failed to the end of its stream, whatever events, tools, snapshots and
\* terminal messages arrive in between.
THEOREM VerdictIsAlwaysSound == MCSpec => []VerdictSound
<1>1. ExecutorInv => VerdictSound
  BY VerdictInvIsEnough DEF ExecutorInv, VerdictSound
<1>2. QED  BY <1>1, ExecutorAlways, PTL

\* One task of the computer-use engine at most drives a run's browser, for any number of
\* tasks whose starts, cancellations and cleanups interleave.
THEOREM OneEngineAlways == MCSpec => []OneEngine
<1>1. ExecutorInv => OneEngine
  BY UseInvIsEnough DEF ExecutorInv, OneEngine
<1>2. QED  BY <1>1, ExecutorAlways, PTL

\* A conversation's task shows the outcome that its run told it, for any number of runs and
\* whatever older copy of the task a turn or a computer-use request holds across the outcome,
\* the user's actions, a deletion or another turn.  Excepted are a run that a planner once
\* halted, and a row that was last written by one who does not look at the run it names: a
\* request that is turned down, or a computer-use run that failed or is not the row's.
THEOREM OutcomeIsAlwaysShown == MCSpec => []OutcomeIsShown
<1>1. ExecutorInv => OutcomeIsShown
  BY TalkInvIsEnough DEF ExecutorInv, OutcomeIsShown
<1>2. QED  BY <1>1, ExecutorAlways, PTL

\* A run that the backend executes itself and the user stopped gets no outcome from the task
\* that was stopped, wherever the stop met that task and for any number of tasks.
THEOREM StopAlwaysSticks == MCSpec => StopSticks
<1>1. ExecutorInv /\ [MCNext]_allVars => [StopsStick]_computerVars
  <2>1. [MCNext]_allVars => Computer!Next \/ UNCHANGED computerVars
    BY DEF MCNext, allVars
  <2>2. QED  BY <2>1, StopStep DEF ExecutorInv
<1>2. ExecutorInv /\ [MCNext]_allVars =>
        [mode = "server_runner" /\ run = "cancelled" => run' \notin {"completed", "failed"}]_computerVars
  BY <1>1 DEF StopsStick
<1>3. QED  BY <1>2, ExecutorAlways, PTL
           DEF MCSpec, allVars, StopSticks, Computer!StopSticks, Computer!vars, computerVars

\* A prompt is not completed on a mutating action that no observation came after, nor on an
\* ungrounded id, for any executions, attempts and events, those of a process that was given
\* up included; a third attempt on a channel that timed out is excepted.
THEOREM CompletedWasAlwaysSeen == MCSpec => CompletedWasSeen
<1>1. ExecutorInv /\ [MCNext]_allVars => [CompletionIsSeen]_(Prompt!vars)
  <2>1. [MCNext]_allVars => Prompt!Next \/ UNCHANGED promptVars
    BY DEF MCNext, allVars
  <2>2. UNCHANGED promptVars => UNCHANGED Prompt!vars
    BY DEF promptVars, Prompt!vars, Prompt!memory
  <2>3. QED  BY <2>1, <2>2, PromptStep DEF ExecutorInv
<1>2. ExecutorInv /\ [MCNext]_allVars =>
        [Prompt!Completes => /\ ~grounded
                             /\ mutating => looked \/ (result.text = "channel" /\ count.channel = 2)]_(Prompt!vars)
  BY <1>1 DEF CompletionIsSeen
<1>3. QED  BY <1>2, ExecutorAlways, PTL
           DEF MCSpec, allVars, CompletedWasSeen, Prompt!CompletedWasSeen

\* The loop with hooks does not repeat the mutating step it just did on a page that looks the
\* same, and once it changed something it acts on no page that asks for a human, for any
\* number of turns, any looks and any plans.
THEOREM NoStepIsBlind == MCSpec => NoBlindStep
<1>1. ExecutorInv /\ [MCNext]_allVars => [StepIsSighted]_hookedVars
  <2>1. [MCNext]_allVars => Hooked!Next \/ UNCHANGED hookedVars
    BY DEF MCNext, allVars
  <2>2. QED  BY <2>1, HookedStep DEF ExecutorInv
<1>2. ExecutorInv /\ [MCNext]_allVars =>
        [act' # Hooked!Nothing /\ act' # act =>
           /\ act'.planned /\ act'.step = lastStep => before # look.text
           /\ progress /\ ~request.signsIn => look.text \notin Gates]_hookedVars
  BY <1>1 DEF StepIsSighted
<1>3. QED  BY <1>2, ExecutorAlways, PTL
           DEF MCSpec, allVars, NoBlindStep, Hooked!NoBlindStep, Hooked!vars, hookedVars

\* A navigate that arrived is followed to the page it asked for, for any number of tabs in any
\* order and any number of steps, but for pages in error and the searches for results.
THEOREM NavigationIsAlwaysFollowed == MCSpec => NavigationIsFollowed
<1>1. ExecutorInv /\ [MCNext]_allVars => [ArrivalIsFollowed]_engineVars
  <2>1. [MCNext]_allVars => Engine!Next \/ UNCHANGED engineVars
    BY DEF MCNext, allVars
  <2>2. QED  BY <2>1, EngineStep DEF ExecutorInv
<1>2. ExecutorInv /\ [MCNext]_allVars =>
        [loop = "settle" /\ there # {} /\ ~Engine!WantsResults /\ loop' \in {"look", "over"} /\ got' # "raised"
           => page' \in there \/ tabs[Engine!Max(there)] = "error"]_engineVars
  BY <1>1 DEF ArrivalIsFollowed
<1>3. QED  BY <1>2, ExecutorAlways, PTL
           DEF MCSpec, allVars, NavigationIsFollowed, Engine!NavigationIsFollowed, Engine!vars, engineVars
=============================================================================
