---------------------------- MODULE RunExecution ----------------------------
(***************************************************************************)
(* The life of automation runs in the backend: the handlers of             *)
(* automation/run_service.py and the executor tasks of                     *)
(* automation/executor.py, which share the stored runs, the table of tasks *)
(* and the table of browser-session owners.                                *)
(*                                                                         *)
(* One step is the code between two points where a coroutine really gives  *)
(* the event loop away.  With the local store (automation/store.py without *)
(* Firestore) store and event calls complete without yielding, so these    *)
(* points are: the first step of a new task, the wait for a browser        *)
(* address, the runtime's event stream, the planning and verification      *)
(* calls, the HTTP calls that pause or cancel the runtime, and the sleep   *)
(* before a second start.  _task_lock is never held across one of them.    *)
(*                                                                         *)
(* Runs of the computer_use engine share the rows and the handlers but not *)
(* the tables: start_execution hands them to computer_use/runtime.py, past *)
(* the lease (ComputerUse has the details of their tasks).                 *)
(***************************************************************************)
EXTENDS RunStates, Naturals, FiniteSets

CONSTANTS
  NumRuns,       \* runs are numbered in the order of their creation
  Session,       \* browser sessions
  NoSession,     \* browser_session_id is None
  LocalRun,      \* runs in executor_mode local_runner: pausing or stopping one
                 \* awaits the automation runtime, otherwise it does not
  EngineRun,     \* runs with automation_engine computer_use
  MaxListed,     \* rows list_runs_for_browser_session returns: 50 in the code
  MayBeUnbound,  \* may a run lack a browser session, or find its session gone?
  MayRebind,     \* may a retry name another browser session?
  MayReviveLive  \* may a user retry or confirm a finished run whose task still lives?

ASSUME NumRunsAssumption == NumRuns \in Nat \ {0}
ASSUME SessionAssumption == NoSession \notin Session
ASSUME ModeAssumption == LocalRun \subseteq 1..NumRuns /\ EngineRun \subseteq 1..NumRuns
ASSUME ListedAssumption == MaxListed \in Nat \ {0}
ASSUME FlagAssumption ==
  MayBeUnbound \in BOOLEAN /\ MayRebind \in BOOLEAN /\ MayReviveLive \in BOOLEAN

Run   == 1..NumRuns
NoRun == 0

VARIABLES
  st,       \* the stored state of each run
  bs,       \* the stored browser_session_id of each run
  task,     \* where the run's executor task stands
  lease,    \* the session the task was started for (its finally uses it)
  owner,    \* _browser_session_owners
  cancel,   \* runs whose task has a cancellation to deliver
  inflight  \* handlers waiting for the runtime's answer or for their sleep

vars == <<st, bs, task, lease, owner, cancel, inflight>>

\* A run that is not there: not created yet, or deleted.
Missing == {"absent", "deleted"}

\* Where a task stands: not started; before the browser address is known;
\* reading runtime events or observing the page; deciding what the last
\* observation means; or reading a stream after runtime_locally_terminated.
\* A task of computer_use: before it has a browser, or driving it.
EngineState == {"begin", "engine"}
TaskState == {"none", "created", "context", "stream", "decide", "deaf"} \cup EngineState

\* An executor task between its claim on the browser session and its giving it up.
Acting(t) == t \in {"created", "context", "stream", "decide"}

Handler == [op : {"pause", "stop", "again"}, run : Run, sess : Session \cup {NoSession}]

TypeOK ==
  /\ st \in [Run -> RunState \cup Missing]
  /\ bs \in [Run -> Session \cup {NoSession}]
  /\ task \in [Run -> TaskState]
  /\ lease \in [Run -> Session \cup {NoSession}]
  /\ owner \in [Session -> Run \cup {NoRun}]
  /\ cancel \subseteq Run
  /\ inflight \subseteq Handler

-----------------------------------------------------------------------------
(* Coroutines called inside a step work on a copy of the shared tables.    *)

World == [st |-> st, bs |-> bs, task |-> task, lease |-> lease,
          owner |-> owner, cancel |-> cancel]

Becomes(v) ==
  \E w \in {v} :
    /\ st' = w.st
    /\ bs' = w.bs
    /\ task' = w.task
    /\ lease' = w.lease
    /\ owner' = w.owner
    /\ cancel' = w.cancel

\* has_live_execution, of either engine.
Live(w, r) == w.task[r] # "none"

\* A live task in the executor's own _tasks: no other one is looked for there.
InTasks(w, r) == w.task[r] \notin {"none"} \cup EngineState

\* list_runs_for_browser_session: the oldest rows of the session, finished runs too.
Bound(w, s)  == {q \in Run : w.bs[q] = s /\ w.st[q] \notin Missing}
Listed(w, s) == {q \in Bound(w, s) : Cardinality({p \in Bound(w, s) : p < q}) < MaxListed}

WithState(w, r, state) == [w EXCEPT !.st[r] = state]

\* Mutant: a live owner whose run was stopped no longer counts.
OwnerBlocksByStateOnly(w, s, r) ==
  w.owner[s] \notin {NoRun, r} /\ w.st[w.owner[s]] \in HoldsBrowserSession

\* The recorded owner still keeps everybody else out of the session.
OwnerBlocks(w, s, r) ==
  LET o == w.owner[s] IN
    /\ o \notin {NoRun, r}
    /\ InTasks(w, o) \/ w.st[o] \in HoldsBrowserSession

\* Mutant: a run that waits for its user without a task does not count.
CandidateBlocksWhileLive(w, s, r) ==
  \E q \in Listed(w, s) \ {r} : w.st[q] \in HoldsBrowserSession /\ InTasks(w, q)

\* Another listed run of the session keeps it.
CandidateBlocks(w, s, r) ==
  \E q \in Listed(w, s) \ {r} :
    /\ w.st[q] \in HoldsBrowserSession
    /\ InTasks(w, q) \/ w.st[q] \in AwaitsUser

\* _blocking_run_for_browser_session also forgets an owner that no longer counts.
ForgetStaleOwner(w, s, r) ==
  IF w.owner[s] = r THEN w ELSE [w EXCEPT !.owner[s] = NoRun]

CreateTask(w, r) ==
  [w EXCEPT !.task[r] = "created", !.lease[r] = w.bs[r], !.cancel = @ \ {r}]

\* start_computer_use_run asks nobody for the session.
CreateEngineTask(w, r) == [w EXCEPT !.task[r] = "begin", !.cancel = @ \ {r}]

StartExecution(w, r) ==
  LET s == w.bs[r] IN
    IF w.st[r] \in Missing \/ Live(w, r) THEN w
    ELSE IF r \in EngineRun THEN CreateEngineTask(w, r)
    ELSE IF s = NoSession THEN CreateTask(w, r)
    ELSE IF OwnerBlocks(w, s, r) THEN w
    ELSE IF CandidateBlocks(w, s, r) THEN ForgetStaleOwner(w, s, r)
    ELSE [CreateTask(w, r) EXCEPT !.owner[s] = r]

\* Listed queued runs of a session that a release may start.
Waiting(w, s, r) ==
  {q \in Listed(w, s) \ {r} : w.st[q] = "queued" /\ ~Live(w, q)}

Oldest(R) == CHOOSE q \in R : \A p \in R : q <= p

\* Only the oldest one is tried.
StartNext(w, s, r) ==
  IF s = NoSession \/ Waiting(w, s, r) = {} THEN w
  ELSE StartExecution(w, Oldest(Waiting(w, s, r)))

\* Mutant: pops the session's owner without asking who it is.
ReleaseAnyOwner(w, s, r) == IF s # NoSession THEN [w EXCEPT !.owner[s] = NoRun] ELSE w

ReleaseOwner(w, s, r) ==
  IF s # NoSession /\ w.owner[s] = r THEN [w EXCEPT !.owner[s] = NoRun] ELSE w

\* _set_run_state, as the executor calls it for its own run.
SetRunState(w, r, state) ==
  LET w1 == WithState(w, r, state)
      s  == w.bs[r] IN
    IF s = NoSession THEN w1
    ELSE IF state \in HoldsBrowserSession THEN [w1 EXCEPT !.owner[s] = r]
    ELSE IF state \in ReleasesBrowserSession
         THEN StartNext(ReleaseOwner(w1, s, r), s, r)
    ELSE w1

TaskGone(w, r) ==
  [w EXCEPT !.task[r] = "none", !.lease[r] = NoSession, !.cancel = @ \ {r}]

\* Mutant: releases the session without looking for a queued run.
EndTaskSilently(w, r) ==
  LET w1 == TaskGone(w, r) IN
    IF w1.st[r] \in ReleasesBrowserSession THEN ReleaseOwner(w1, w.lease[r], r) ELSE w1

\* Mutant: releases the session the run is bound to now, not the one it was started for.
EndTaskOfBoundSession(w, r) ==
  LET w1 == TaskGone(w, r) IN
    IF w.bs[r] # NoSession /\ w1.st[r] \in ReleasesBrowserSession
    THEN StartNext(ReleaseOwner(w1, w.bs[r], r), w.bs[r], r)
    ELSE w1

\* The finally clauses of execute_run and of _execute_run_with_session_lease.
EndTask(w, r) ==
  LET s  == w.lease[r]
      w1 == TaskGone(w, r) IN
    IF s # NoSession /\ w1.st[r] \in ReleasesBrowserSession
    THEN StartNext(ReleaseOwner(w1, s, r), s, r)
    ELSE w1

TaskAt(w, r, t) == [w EXCEPT !.task[r] = t]

\* Mutant: a task that has not begun is left alone.
CancelBegunExecution(w, r) ==
  IF w.task[r] \notin {"none", "created"} THEN [w EXCEPT !.cancel = @ \cup {r}] ELSE w

\* Without its row a computer-use run is looked for in the executor's table.
CancelExecution(w, r) ==
  IF Live(w, r) /\ ~(r \in EngineRun /\ w.st[r] = "deleted")
  THEN [w EXCEPT !.cancel = @ \cup {r}] ELSE w

-----------------------------------------------------------------------------
Init ==
  /\ st = [r \in Run |-> "absent"]
  /\ bs = [r \in Run |-> NoSession]
  /\ task = [r \in Run |-> "none"]
  /\ lease = [r \in Run |-> NoSession]
  /\ owner = [s \in Session |-> NoRun]
  /\ cancel = {}
  /\ inflight = {}

-----------------------------------------------------------------------------
(* Handlers of run_service.py.                                             *)

Handling(op, r, s) == [op |-> op, run |-> r, sess |-> s]

\* _start_execution_with_retry: a run that did not start is tried once more.
StartWithRetry(w, r) ==
  LET w1 == StartExecution(w, r) IN
    /\ Becomes(w1)
    /\ inflight' = IF Live(w1, r) THEN inflight
                   ELSE inflight \cup {Handling("again", r, NoSession)}

StartAgain(h) ==
  /\ h.op = "again"
  /\ Becomes(StartExecution(World, h.run))

CreateRun(r, s, state) ==
  LET w == [World EXCEPT !.st[r] = state, !.bs[r] = s] IN
    /\ st[r] = "absent"
    /\ \A q \in Run : q < r => st[q] # "absent"
    /\ IF state = "queued" THEN StartWithRetry(w, r)
       ELSE Becomes(w) /\ UNCHANGED inflight

\* A finished run is brought back; its task may still be on its way out.
Revives(r) == st[r] \in TERMINAL_STATES /\ Live(World, r) => MayReviveLive

\* confirm_intent looks at no state.
ConfirmIntent(r) ==
  /\ st[r] \notin Missing
  /\ Revives(r)
  /\ Becomes(StartExecution(WithState(World, r, "queued"), r))
  /\ UNCHANGED inflight

RejectIntent(r) ==
  /\ st[r] \notin Missing
  /\ Becomes(WithState(World, r, "cancelled"))
  /\ UNCHANGED inflight

\* _enter_reconciliation, then start_execution unless the run has a live task.
Reconcile(r) ==
  /\ Becomes(StartExecution(WithState(World, r, "reconciling"), r))
  /\ UNCHANGED inflight

Resume(r) == Allowed(st[r], "resume") /\ Reconcile(r)

Approve(r) == Allowed(st[r], "approve_sensitive_action") /\ Reconcile(r)

\* mutate_run_state writes the state first and asks the runtime afterwards.
Pause(r) ==
  LET w == WithState(World, r, "paused") IN
    /\ Allowed(st[r], "pause")
    /\ IF r \in LocalRun
       THEN /\ Becomes(w)
            /\ inflight' = inflight \cup {Handling("pause", r, NoSession)}
       ELSE Becomes(CancelExecution(w, r)) /\ UNCHANGED inflight

PauseReturns(h) ==
  /\ h.op = "pause"
  /\ Becomes(CancelExecution(World, h.run))

StopTail(w, r, s) == StartNext(CancelExecution(w, r), s, r)

Stop(r) ==
  LET w == WithState(World, r, "cancelled") IN
    /\ Allowed(st[r], "stop")
    /\ IF r \in LocalRun
       THEN /\ Becomes(w)
            /\ inflight' = inflight \cup {Handling("stop", r, bs[r])}
       ELSE Becomes(StopTail(w, r, bs[r])) /\ UNCHANGED inflight

StopReturns(h) ==
  /\ h.op = "stop"
  /\ Becomes(StopTail(World, h.run, h.sess))

Retry(r, s) ==
  /\ Allowed(st[r], "retry")
  /\ Revives(r)
  /\ s # bs[r] => MayRebind /\ s # NoSession
  /\ StartWithRetry([World EXCEPT !.st[r] = "starting", !.bs[r] = s], r)

\* The requested browser session is not the user's: a 404 after the first write.
RetryRejected(r) ==
  /\ MayRebind
  /\ Allowed(st[r], "retry")
  /\ Revives(r)
  /\ Becomes(WithState(World, r, "starting"))
  /\ UNCHANGED inflight

\* report_run_interruption leaves the task alone.
Interrupt(r) ==
  /\ Allowed(st[r], "interrupt")
  /\ Becomes(WithState(World, r, "paused"))
  /\ UNCHANGED inflight

Newest(R, r) == r \in R /\ \A q \in R : q <= r

\* mark_browser_session_human_control, of the newest listed run that may be taken over.
Takeover(s, r) ==
  /\ Newest({q \in Listed(World, s) : st[q] \in TakeoverCandidates \ {"human_controlling"}}, r)
  /\ Becomes(WithState(World, r, "human_controlling"))
  /\ UNCHANGED inflight

\* release_browser_session_human_control
Release(s, r) ==
  /\ Newest({q \in Listed(World, s) : st[q] = "human_controlling"}, r)
  /\ Reconcile(r)

DeleteRun(r) ==
  /\ st[r] \in ReleasesBrowserSession
  /\ Becomes(WithState(World, r, "deleted"))
  /\ UNCHANGED inflight

-----------------------------------------------------------------------------
(* Steps of the executor task: execute_run inside                          *)
(* _execute_run_with_session_lease.  A task whose cancellation is pending  *)
(* takes none of them but the last three.                                  *)

Runs(r, t) == task[r] = t /\ r \notin cancel /\ st[r] # "deleted"

\* Mutant: writes a state the backend does not know.
TaskBeginUnknownState(r) ==
  /\ Runs(r, "created")
  /\ Becomes(TaskAt(SetRunState(World, r, "started"), r, "context"))
  /\ UNCHANGED inflight

TaskBegin(r) ==
  /\ Runs(r, "created")
  /\ Becomes(TaskAt(SetRunState(World, r, "starting"), r, "context"))
  /\ UNCHANGED inflight

\* The run's session is missing or gone: another one of the user's is taken
\* without asking who owns it.
ResolveFallback(r, s) ==
  /\ MayBeUnbound
  /\ Runs(r, "context")
  /\ s # bs[r]
  /\ Becomes([World EXCEPT !.bs[r] = s])
  /\ UNCHANGED inflight

TaskRun(r) ==
  /\ Runs(r, "context")
  /\ bs[r] # NoSession
  /\ Becomes(TaskAt(SetRunState(World, r, "running"), r, "stream"))
  /\ UNCHANGED inflight

Terminal(r) == st[r] \in TERMINAL_STATES

\* An observation of the page, or the end of the stream.
Observe(r) ==
  /\ Runs(r, "stream")
  /\ ~Terminal(r)
  /\ Becomes(TaskAt(World, r, "decide"))
  /\ UNCHANGED inflight

\* ... of a run found finished: the task ends,
ObserveTerminal(r) ==
  /\ Runs(r, "stream")
  /\ Terminal(r)
  /\ Becomes(EndTask(World, r))
  /\ UNCHANGED inflight

\* Mutant: gives the stream up without asking whether the run is finished.
GoDeafEarly(r) ==
  /\ Runs(r, "stream")
  /\ Becomes(TaskAt(World, r, "deaf"))
  /\ UNCHANGED inflight

\* ... or, on an event of the stream, reads on to its end.
GoDeaf(r) ==
  /\ Runs(r, "stream")
  /\ Terminal(r)
  /\ Becomes(TaskAt(World, r, "deaf"))
  /\ UNCHANGED inflight

CarryOn(r) ==
  /\ Runs(r, "decide")
  /\ Becomes(TaskAt(World, r, "stream"))
  /\ UNCHANGED inflight

\* on_runtime_event asks only whether the run is finished, not whether the
\* stream was given up before: a deaf task of a revived run hears it again.
Streaming(r) == (Runs(r, "stream") \/ Runs(r, "deaf")) /\ ~Terminal(r)

\* on_runtime_event: run.waiting_for_human does not end the stream.
StreamWaits(r) ==
  /\ Streaming(r)
  /\ Becomes(SetRunState(World, r, "waiting_for_human"))
  /\ UNCHANGED inflight

\* on_runtime_event: an incident that cannot be replanned.
StreamIncident(r) ==
  /\ Streaming(r)
  /\ Becomes(TaskAt(SetRunState(World, r, "failed"), r, "deaf"))
  /\ UNCHANGED inflight

\* What the planner, the verification or the runtime's last word may conclude.
Outcomes == {"completed", "failed", "waiting_for_human", "waiting_for_user_action"}

\* The outcome is written without looking at the state again.
Conclude(r, state) ==
  /\ Runs(r, "decide")
  /\ Becomes(EndTask(SetRunState(World, r, state), r))
  /\ UNCHANGED inflight

DeafEnds(r) ==
  /\ Runs(r, "deaf")
  /\ Becomes(EndTask(World, r))
  /\ UNCHANGED inflight

\* The plan is missing, or anything raises.
TaskFails(r) ==
  /\ InTasks(World, r) /\ Runs(r, task[r])
  /\ Becomes(EndTask(SetRunState(World, r, "failed"), r))
  /\ UNCHANGED inflight

\* A task cancelled before its first step never enters its try blocks.
TaskDropped(r) ==
  /\ task[r] = "created"
  /\ r \in cancel
  /\ Becomes(TaskGone(World, r))
  /\ UNCHANGED inflight

\* except asyncio.CancelledError
TaskCancelled(r) ==
  /\ InTasks(World, r) /\ task[r] # "created"
  /\ r \in cancel
  /\ st[r] # "deleted"
  /\ \E w \in {IF Terminal(r) THEN World ELSE SetRunState(World, r, "cancelled")} :
       Becomes(EndTask(w, r))
  /\ UNCHANGED inflight

\* The run was deleted under the task: every write raises.
TaskLosesRun(r) ==
  /\ Live(World, r)
  /\ st[r] = "deleted"
  /\ Becomes(EndTask(World, r))
  /\ UNCHANGED inflight

-----------------------------------------------------------------------------
(* Steps of a computer-use task: _execute_computer_use_run, which writes   *)
(* its run's state and nothing else, and has no finally.                   *)

\* A session without a live browser is replaced by a managed one; running is
\* written over any state.
EngineDrives(r) ==
  /\ Runs(r, "begin")
  /\ \E s \in {bs[r]} \cup (IF MayBeUnbound THEN Session ELSE {}) :
       /\ s # NoSession
       /\ Becomes(TaskAt([WithState(World, r, "running") EXCEPT !.bs[r] = s], r, "engine"))
  /\ UNCHANGED inflight

\* The plan is missing, or the engine raises or is done; or, of a failure in
\* between, the task dies and the run stays as it was.
EngineEnds(r) ==
  /\ Runs(r, "begin") \/ Runs(r, "engine")
  /\ \E state \in {st[r], "failed"} \cup (IF task[r] = "engine" THEN {"completed"} ELSE {}) :
       Becomes(TaskGone(WithState(World, r, state), r))
  /\ UNCHANGED inflight

\* A CancelledError writes nothing.
EngineCutOff(r) ==
  /\ task[r] \in EngineState /\ r \in cancel
  /\ Becomes(TaskGone(World, r))
  /\ UNCHANGED inflight

\* The process dies; stored runs survive, nothing at start-up looks at them.
Crash ==
  /\ task' = [r \in Run |-> "none"]
  /\ lease' = [r \in Run |-> NoSession]
  /\ owner' = [s \in Session |-> NoRun]
  /\ cancel' = {}
  /\ inflight' = {}
  /\ UNCHANGED <<st, bs>>

-----------------------------------------------------------------------------
Request(r) ==
  \/ \E s \in Session \cup {NoSession}, state \in {"awaiting_confirmation", "queued"} :
       (s = NoSession => MayBeUnbound) /\ CreateRun(r, s, state)
  \/ ConfirmIntent(r) \/ RejectIntent(r)
  \/ Resume(r) \/ Approve(r) \/ Pause(r) \/ Stop(r)
  \/ \E s \in Session \cup {NoSession} : Retry(r, s)
  \/ RetryRejected(r) \/ Interrupt(r) \/ DeleteRun(r)
  \/ \E s \in Session : Takeover(s, r) \/ Release(s, r)

Continues(h) ==
  /\ h \in inflight
  /\ inflight' = inflight \ {h}
  /\ StartAgain(h) \/ PauseReturns(h) \/ StopReturns(h)

Executes(r) ==
  \/ TaskBegin(r) \/ TaskRun(r)
  \/ \E s \in Session : ResolveFallback(r, s)
  \/ Observe(r) \/ ObserveTerminal(r) \/ GoDeaf(r) \/ CarryOn(r)
  \/ StreamWaits(r) \/ StreamIncident(r)
  \/ \E state \in Outcomes : Conclude(r, state)
  \/ DeafEnds(r) \/ TaskFails(r)
  \/ EngineDrives(r) \/ EngineEnds(r)

TaskEnds(r) == TaskDropped(r) \/ TaskCancelled(r) \/ EngineCutOff(r) \/ TaskLosesRun(r)

Next ==
  \/ \E r \in Run : Request(r) \/ Executes(r) \/ TaskEnds(r)
  \/ \E h \in inflight : Continues(h)
  \/ Crash

Spec == Init /\ [][Next]_vars

StopAnswered(r) == \E h \in inflight : h.op = "stop" /\ h.run = r /\ Continues(h)

\* The event loop runs what is ready: a pending cancellation is thrown into its
\* task, and the runtime client answers a stop or times out.
Fairness == \A r \in Run : WF_vars(TaskEnds(r)) /\ WF_vars(StopAnswered(r))

FairSpec == Spec /\ Fairness

-----------------------------------------------------------------------------
(* Properties                                                              *)

\* Every task between its start and its end is the recorded owner of the session
\* its run is bound to: start_execution claims it, and no release, takeover,
\* retry or hand-over of another run takes it away.
OwnerActs ==
  \A r \in Run : Acting(task[r]) /\ bs[r] # NoSession => owner[bs[r]] = r

\* A run has a session from its creation on, and no task before it.
RunsAreBound ==
  \A r \in Run : IF st[r] = "absent" THEN task[r] = "none" ELSE bs[r] \in Session

\* A task that ignores its stream belongs to a run that is over.
DeafIsOver ==
  \A r \in Run : task[r] = "deaf" => st[r] \in TERMINAL_STATES \cup {"deleted"}

\* The inductive invariant behind LeaseExclusive, where runs are bound and no
\* finished run is revived under a live task.
LeaseInv == TypeOK /\ RunsAreBound /\ OwnerActs /\ DeafIsOver

\* Two executor tasks never drive one browser session: this is what
\* _browser_session_owners, the blocking check and the hand-over to queued runs are
\* for.  (Of computer-use runs it says nothing: they never ask for the session.)
LeaseExclusive ==
  \A r, q \in Run :
    Acting(task[r]) /\ Acting(task[q]) /\ bs[r] = bs[q] /\ bs[r] # NoSession => r = q

\* Creates an executor task for r in this step.
Starts(r) == task[r] = "none" /\ task'[r] = "created"

\* No executor task is started on a session while another listed run of it, of
\* either engine, waits for its user, whichever of the ways to start a run is taken
\* (request, retry, second try, hand-over, reconciliation): the waiting run keeps
\* the page it stopped at.  (One beyond the listing, or one whose session a
\* computer-use run is started on, does not.)
UserWaitKeepsSession ==
  [][\A r \in Run :
       Starts(r) /\ bs'[r] # NoSession
         => \A q \in Listed(World', bs'[r]) \ {r} : st'[q] \notin AwaitsUser]_vars

\* The executor task of r runs to the end of _execute_run_with_session_lease.
Finishes(r) == InTasks(World, r) /\ task'[r] = "none" /\ ~TaskDropped(r) /\ ~Crash

\* A computer-use run was started instead: it hands nothing on.
EngineTakesOver == \E r \in Run : task[r] = "none" /\ task'[r] = "begin"

\* When an executor task ends and its run has released the session, no listed queued
\* run of that session is left behind while nothing stands in its way: it is started
\* in the same step, another run still blocks it, or a computer-use run took its turn.
HandoverComplete ==
  [][\A r \in Run : \A s \in Session :
       Finishes(r) /\ lease[r] = s /\ st'[r] \in ReleasesBrowserSession /\ ~EngineTakesOver
         => \A q \in Waiting(World', s, r) :
              OwnerBlocks(World', s, q) \/ CandidateBlocks(World', s, q)]_vars

\* A stop that waits for the runtime still ends the execution: the task the run
\* had is gone in the end, whatever it was doing when the stop came.
StopEndsExecution ==
  \A r \in LocalRun :
    (\E h \in inflight : h.op = "stop" /\ h.run = r) ~> task[r] = "none"

-----------------------------------------------------------------------------
(* What documents promise and the code does not do.                        *)

\* A paused run is cancelled by a request only, never by its own executor.
PauseSticks ==
  [][\A r \in Run : st[r] = "paused" /\ st'[r] = "cancelled" => Request(r)]_vars

\* While a human controls the session of a run its task does not go on.
HumanControlPausesAgent ==
  [][\A r \in Run : st[r] = "human_controlling" => ~Executes(r)]_vars

=============================================================================
