# Oi: specifications of the automation system

Oi lets a user describe a task in words and runs it in a browser.  The backend (Python,
`apps/backend`) stores the *runs* of such automations, decides which of them may use a browser
session, and executes them; the automation runtime (TypeScript, `apps/automation-runtime`) drives the
browser through a language model and reports events; extension, desktop, web and mobile clients show
what happens and may stop, pause, retry, approve, or take the browser over.  What makes the system
hard is less the page than what surrounds it: many runs that queue for one browser session, user
requests that arrive while an executor task is between two awaits, tasks that are cancelled, a second
process with its own idea of a run's state, sockets that replace one another, browsers and workers that
are started and stopped side by side, and restarts.

This directory models these parts.  All paths below are under `src/`; `B/` stands for
`apps/backend/src/oi_agent/` and `R/` for `apps/automation-runtime/src/`.

## 1. Inventory

| Component | State it keeps | Operations | Interacts with | What is hard |
|---|---|---|---|---|
| Run life cycle (`B/automation/state_machine.py`, `run_service.py`) | a run's state, its `browser_session_id` (in the store) | create, confirm, reject, pause, resume, stop, retry, interrupt, approve, takeover, release, delete | calls the executor's `start_execution`, `cancel_execution`, `_start_next_queued_run_...`; calls the runtime over HTTP | writes a state first and acts afterwards, across awaits |
| Executor (`B/automation/executor.py`) | `_tasks`, `_browser_session_owners` | one task per run: claim the session, resolve the browser, run, observe, conclude, release, hand over | reads and writes the store; reads the runtime's stream; is cancelled by requests | exclusion on a session, hand-over, cancellation at every await, stale reads |
| Run store (`B/automation/store.py`) | dictionaries or Firestore documents; a JSON file written 250 ms late | get, save, update (read, patch, write), delete, queries | everybody | lost updates, memory fallback, lost writes |
| Automation runtime (`R/runtime/run-manager.ts`, `R/server/http.ts`) and its client (`B/automation/runtime_client.py`) | per run: record, events, emitter, controller; loop state | start, pause, cancel, execute, replay and subscribe | child process; SSE to the executor | executions that outlive their abort, readers that attach late |
| Sessions and controller lock (`B/automation/sessions/manager.py`, `B/api/browser/session_stream_routes.py`) | session records, a lock with priority and expiry | create, acquire, release, expire | acquire and release change the state of runs | expiry against release, preemption |
| Backend events (`B/automation/events.py`, `event_routes.py`) | stored events, subscriber queues | publish, replay, subscribe, catch up | clients | the gap between replay and subscription; two stores, limited queries |
| Schedules (`B/automation/schedule_service.py`, `scheduler_worker.py`, `B/api/browser/schedule_runner.py`) | schedules with claims | claim, execute, reschedule | create runs | claims that expire under execution |
| What the executor does in a run (`B/automation/executor.py`, `B/services/tools/step_planner.py`) | the run's page registry, progress, tracker, incident | pick and direct a step, follow the runtime's events, verify, conclude | agent-browser command line, runtime stream | tabs that move between two awaits; write-backs of what was read before |
| Browser automation in the runtime (`R/runtime/agent-browser.ts`) | loop state per run id, transcripts | prompt a bridge process, judge its result, try again; or drive the browser with hooks | bridge process, models | late events of a given-up process, state kept over retries |
| Connections (`B/api/websocket*.py`) | sockets, pending commands and futures, tabs | connect, replace, send and wait, disconnect | extension, runners | an old socket's end against a new socket |
| Live picture (`B/api/websocket_connection_manager.py`, `B/api/browser/session_stream_routes.py`) | newest frame, subscriber sets, queues | broadcast, subscribe, view | runners, devices | sets replaced under a broadcast |
| Live voice (`B/api/live_sessions.py`) | sessions by key and by device, receiver tasks | start, stop, end of a pump | device sockets, an external model | ends that remove a newer session; one lock, waited for on both sides |
| Computer use (`B/computer_use/`) | its own task table; the engine's tab and steps | request, start, cancel, act, look | started by `start_execution` or by a request | the same hazards, in a second executor; tabs that come and go |
| Managed runners (`B/api/browser/server_runner*.py`) | a worker process or Cloud Run service per user; browsers per session | ensure, start, stop | sessions | start against stop, calls that fail after they took effect, reuse of stale rows |
| Conversation (`B/automation/conversation_*.py`, `assistant_updates.py`) | the session's task, its last intent | a turn, its action on runs, refresh, delete; messages of runs | creates and controls runs | a turn that holds its copy while the run moves on |
| Not protocols | | | | intent extraction, mesh, devices, auth, notifications, analytics, user interfaces, deployment |

What makes each of them correct: no two executor tasks drive one browser session, and no session is idle
while a listed run waits for it (executor); a stop stops, a pause pauses (life cycle); no acknowledged write is lost
(store); a record tells the truth about the executions and a reader misses no event (runtime, events);
one controller at a time (lock); one execution per schedule firing (schedules); a command's answer
reaches its caller and nobody else, and what broke or was stopped is gone (connections, voice, workers);
a click goes to the page it was meant for, and completed means that the success was seen (executor,
runtime); one engine drives a run's browser, and a stop is not overwritten (computer use); the task of a
conversation shows what came of its run (conversation).

`PROJECT.json` lists every component with its status, and the hazards with their lines.

## 2. Modules

| Module | Models |
|---|---|
| `RunStates` | the run states and the sets of them the code tests |
| `RunExecution` | the handlers of `run_service.py` and the tasks of `executor.py` over the shared tables, with runs of the computer-use engine beside them |
| `RunExecutionProofs` | proofs: types, the exclusive lease, owners that act, users' waits that keep their session, complete hand-over, when all runs are listed |
| `EventFeed` | what the runtime promises to a reader: the log from its cursor on, in order, without gaps |
| `RuntimeRuns` | `RunManager`, its HTTP handlers and the backend's clients |
| `RuntimeRunsProofs` | proofs: types, a running record is driven, an end is announced, the refinement of `EventFeed` |
| `EventStream` | the backend's own event stream: publication, replay, queue, catch-up, with both stores |
| `EventStreamProofs` | proofs: types, nothing told twice, and what is owed is told |
| `RunStore` | the rows of runs: local documents and their file, or Firestore and the table of failed saves |
| `ControlLock` | the controller lock of a browser session, the requests around it, the runner's heartbeat |
| `ControlLockProofs` | proofs: types; with the local store a granted lock stands and names one controller |
| `ScheduleClaim` | scheduler loops that list, claim, execute and mark schedules |
| `ScheduleClaimProofs` | proofs: types, standing claims, exclusive execution, marked times that fire once |
| `StepPlanner` | how the backend picks a step to direct: its rules, the model it asks, repair, fallback and gates |
| `DirectedRun` | the click the backend directs before it hands a run to the runtime |
| `RunVerdict` | the runtime's events in the executor, and the verdict |
| `PromptRun` | a prompt in the runtime: bridge processes, loop state, second attempts |
| `HookedRun` | the runtime's loop that drives the browser itself |
| `ComputerUse` | a computer-use request, its run and tasks |
| `ComputerEngine` | the loop of the computer-use engine: tabs, looks, models, actions |
| `Conversation` | turns of the chat and computer-use requests beside them, the task of a session, its runs |
| `DeviceSockets` | device sockets and the commands sent over them |
| `SessionStream` | the live picture of a session and who watches it |
| `LiveSessions` | live voice sessions |
| `LocalRunner`, `CloudRunner` | a user's worker as a local process and as a Cloud Run service |
| `ServerBrowser` | the browsers the backend launches itself |
| `MCRunExecution`, `MCRuntimeRuns`, `MCScheduleClaim` | one module each on small instances |
| `MCRunsAndLock` | `RunExecution` and `ControlLock` |
| `MCStreams` | `EventStream`, `RuntimeRuns` (with the refinement of `EventFeed`) and `RunStore` |
| `StreamsProofs` | proof about `RunStore` in it: rows are kept |
| `MCConnections` | `DeviceSockets`, `LiveSessions`, `SessionStream`, `LocalRunner`, `CloudRunner`, `ServerBrowser` |
| `ConnectionsProofs` | proofs about its six parts: types and their four invariants |
| `MCExecutor` | `StepPlanner`, `DirectedRun`, `RunVerdict`, `PromptRun`, `HookedRun`, `ComputerUse`, `ComputerEngine`, `Conversation` |
| `ExecutorProofs` | proofs about its eight parts: types, four invariants and four action properties |

`MCRunsAndLock`, `MCStreams`, `MCConnections` and `MCExecutor` put modules side by side that share no state: their variable `focus` chooses at the start
whose behaviour it is, the others stay as they begin, and each property speaks of its own part.

How they fit together: `RunExecution` sees the controller lock as its `Takeover` and `Release` actions,
the automation runtime as a stream that goes on or ends, and the event stream not at all.
`ControlLock`, `RuntimeRuns` and `EventStream` look at these parts closely and see of the runs only what
they need (`run`, `exec`, the numbered events).  `StepPlanner`, `DirectedRun` and `RunVerdict` are what happens inside one
task of `RunExecution`, between its `context` and its outcome; `PromptRun` and `HookedRun` what happens
inside one execution of `RuntimeRuns`.  `Conversation` and `ComputerUse` use the sets of states of
`RunStates`, as the code uses `state_machine.py`; runs are rows with an outcome to them.  The end of a
device's endpoint in `DeviceSockets` is the stop of its voice session in `LiveSessions`.

### RunExecution

| Variable | Code |
|---|---|
| `st`, `bs` | the stored run's `state` and `browser_session_id` |
| `task` | the entry of `_tasks` and where its coroutine stands |
| `lease` | the `browser_session_id` argument of `_execute_run_with_session_lease`, used by its `finally`; gone with the coroutine |
| `owner` | `_browser_session_owners` |
| `cancel` | tasks on which `cancel()` was called and that have not seen the `CancelledError` yet |
| `inflight` | handlers suspended in `pause_runtime_run`, `cancel_runtime_run` or the 150 ms sleep |

**Granularity.** A step is the code between two points where a coroutine really gives the event loop
away.  With the local store, store and event calls complete without suspending, and `_task_lock` is
never held across a suspension; so `start_execution` is one step, and so are a request handler up to its
HTTP call and everything after it.  A task suspends before its first step (`created`), while it looks for
the browser's address (`context`), at the stream or a page observation (`stream`), and while the planner
or the verification thinks (`decide`).  `deaf` is the task that reads its stream to the end but ignores it
(`runtime_locally_terminated`).  Operators such as `StartExecution` or `SetRunState` take and give a
record of all tables (`World`), because the code calls them inside one another: the end of a task
writes a state, releases the session, and starts the next queued run, in one step.  Between `context` and
`stream` a local run does not suspend; the model lets it, which is what a cloud run does.  Two handlers of
the same kind on the same run that wait at once are one element of `inflight`.

**The listing.** The blocking check, the hand-over, a takeover and a release look at
`list_runs_for_browser_session`: the query sorts the rows of the session by their creation and cuts them at 50, finished
runs included, and only then is the order turned around (`B/automation/store.py:213-224`, `582-586`).  What they see are
the 50 *oldest* runs (`Listed`; 50 is `MaxListed`).  In a session with a longer history a queued run is not handed the
session, a run that waits for its user does not keep others out, and a takeover or release does not find the newest run.
`UserWaitKeepsSession` and `HandoverComplete` therefore speak of the listed runs; `FewRunsAreAllListed` says that these
are all as long as the session has no more rows than are listed.

**Runs of the computer-use engine** (`EngineRun`).  They share the rows, the handlers and the listing, but
`start_execution` hands them to `computer_use/runtime.py` (`B/automation/executor.py:7471-7475`, `7489-7493`,
`7502-7505`) with no blocking check and no owner, so a session may be driven by such a run and an executor task at
once.  `LeaseExclusive`, `OwnerActs` and the lease's theorem speak of executor tasks alone.  A
computer-use run that the hand-over picks hands nothing on when it ends; `HandoverComplete` excepts the steps in
which one is started (`EngineTakesOver`).  Their tasks are three steps here (`EngineDrives`, `EngineEnds`,
`EngineCutOff`); `ComputerUse` has the details.

**Parts that may be switched off.** Four behaviours of the code break the exclusion on a session, each on its own.
One is the start of a computer-use run, above.  Two are a run without a usable session that picks another one in
mid-execution (`MayBeUnbound`), and a finished run that is retried or confirmed while its old task still reads the stream
(`MayReviveLive`).  The fourth is a scheduled execution (section 5).  `MayRebind` (a retry names another session) does not
break it.  The flags are constants, so that each property is checked wherever it holds and the README can say where it
does not.

**Fairness** (`FairSpec`).  Weak fairness of `TaskEnds(r)`: the event loop throws a pending `CancelledError`
into its task, and a task whose run was deleted fails at its next write.  Weak fairness of
`StopAnswered(r)`: `_post_runtime_control` has a timeout (15 s to connect, 30 s to read) and the handler
goes on after an exception.  Nothing is assumed of users, planners or the runtime.

### RuntimeRuns

| Variable | Code |
|---|---|
| `record` | `stored.record.state` (`queued` never survives the step: the microtask that makes it `running` belongs to it) |
| `log` | `stored.events`; the pair `run.started`, `run.thinking` is one event |
| `current`, `aborted` | `stored.controller`, named by the execution it was created for, and the controllers aborted |
| `exec` | the pending `executeRun` calls; `lingering` is a child process that still writes after its execution is over |
| `client` | one call of `execute_browser_prompt_via_runtime`: asked (it knows the cursor), reading (subscribed), with the events on their way |

Bounds: `MaxExec` executions in a behaviour, `MaxLog` events after which only starts and ends add more.

**Refinement.** `EventFeed` knows a log per run, and for each reader the number of its next event.
`RuntimeRuns` implements it: a client's place is its cursor until it subscribes, and afterwards the end of
the log less the events still queued for it.  The refinement fails as soon as an event is lost, doubled or
reordered between the start's answer, the replay and the subscription.

**Fairness.** Weak fairness of `Receive(k)`: a connected client reads what was written.

### EventStream

| Variable | Code |
|---|---|
| `stamp` | the event's `timestamp`; two events may have the same |
| `saving`, `saved` | calls of `publish_event` inside `save_event`, and after it before the queues are filled |
| `stored`, `memory` | the events collection, and `_events`, the list of those whose saving failed |
| `conn` | one run of the generator: where it stands, `cursor_timestamp`, `seen_event_ids`, the rest of its last query, its queue; `got` and `owed` are history |
| `last` | the id that an `EventSource` sends again when it reconnects |

A query's answer is a member of the set of sequences that sort the rows it finds and cut them at the limit
(`Before`, `Sorted`, `Oldest`, `Newest`); events of the same timestamp are in the order of their ids.

A step ends where the generator or the publisher gives the event loop away: at each `yield`, and with
Firestore at each store call.  With the local store nothing interrupts a publication (`Undisturbed`), and
a query and what follows it are one step (`Queried`).  Only events that pass a connection's filters are
modelled.  `Resuming` are the clients that reconnect with `Last-Event-ID`; `Limit` stands for the queries'
500 rows.

**Fairness.** Weak fairness of a connection's steps (`Resume`, `Take`, `CatchUp`): the event loop runs the
generator, and `wait_for` gives up after 15 s.  Strong fairness of `Answered`: among the catch-up's
queries, one every 15 s, Firestore answers in full again and again; a Firestore that never does leaves
the connection to its queue.  The stream of another run that shares the connection's
user could keep its queue filled for ever and hold the catch-up off; the model has no such events.

### ControlLock

| Variable | Code |
|---|---|
| `lock` | `controller_lock` of the session's row; `expires` is in ticks of the clock `now` |
| `request` | the handlers in progress: which store call comes next, and what they carry over it |
| `run` | whether the session's newest run could be taken over, is under human control, or neither |
| `granted` | history: the lock each actor was last told it holds, until it asks for a release or is outranked |

A step is a store call with the code up to the next one.  With the local store (`LocalStore`) none of them
suspends, and only an input on its way to the runner lets others in; with Firestore all do.  A heartbeat
reads the row and writes it back (`CopyRow`, `PasteRow`), the lock included, as `update_browser_session`
does.  `Priority` is what the request says: nothing in the code derives it from the kind of client.

**Fairness.** None; the properties are safety properties.

### ScheduleClaim

| Variable | Code |
|---|---|
| `row` | the stored schedule: `status`, `next_run_at`, mode and times, `claimed_by`, `claim_expires_at`; a row that came back after its deletion is not `whole` |
| `worker` | one scheduler loop: what is left of its listing, and the claim it works under |
| `fired`, `refired` | history: schedules and times whose mark was written, and those among them that began to execute again |

A step is a query, a transaction, a get or a set.  Every backend process runs a loop by default, and
dedicated workers are others; a process that starts again has a new `_worker_id` and is another worker.
`Punctual` says that what a loop claimed ends before the claim expires (900 s by default, renewed by
nothing); it is a constant because the code does not ensure it and exclusive execution rests on it.

**Fairness.** Weak fairness of `Proceed(w)`: a run that a schedule started ends, and a loop goes on.  Strong
fairness of `Claim(w)`: a transaction that is tried again and again does not fail for ever.  The clock is
not fair.

### RunStore

`remote` are Firestore's rows, `memory` is `_local_documents` or, with Firestore, the table of saves that
failed; `file`, `dirty` and `flush` are the local store's file, `_local_store_dirty` and
`_local_persist_task`; a `writer` is a caller between the read and the write of `update_run`, or between
the two parts of `delete_run_records`.  A row is what its creation wrote (`whole`) and the number of its
last patch.  With the local store every call is one step; with Firestore each may fail before or after it
took effect.

### StepPlanner

One round of `_run_backend_directed_runtime_actions`: `typed` is the kind of the run's current execution step,
`refs`, `kind` and `results` what the round's snapshot shows, `draft` and `told` what the model's answers come to,
`plan` the `RuntimeActionPlan`, `decided` what the round makes of it.  A control is its ref with the group its role
falls into (clickable, typeable, container); an answer is the step that is taken of it and whether it points at
something without a ref (`Answers`).  Which control a rule takes depends on names and is free.

What the module shows is that the round's two ways to a step are one.  The loop runs only for runs with a browser of
their own, `_sync_run_phase_progress` has cleared their typed steps by the time the planner is asked, and a plan made
from a model's answer carries no source that starts with `deterministic_`.  So `OnlyListed`: what is directed is a click
on a result the snapshot lists, and the model's answer, which may take four calls with a timeout each, is never directed
and never stops the run, also when it says that the task is completed or needs a person: the run is handed to the
runtime.  The rules for typed steps and the ungrounded incident are reached only if `Sync` kept the steps (its mutant).
`DirectedRun` takes from here that the directed step is a click by ref.

### DirectedRun, RunVerdict, PromptRun, HookedRun

One step is one await: a command of agent-browser, a connection, a browser operation, an event of the
stream, an end of the bridge process.  A page is told apart by what the code looks for in it: its address
(`DirectedRun`), whether it shows the success, a form or a sign-in (`RunVerdict`, `HookedRun`), how many
refs an observation lists (`PromptRun`).  What a planner or model answers is free.  `zombie` in `PromptRun`
is a process that was given up and still writes into the loop state.  The loop state is kept per run id, so
`PromptRun` runs two executions of one id.  History variables (`meant`, `astray`, `seen`, `looked`) say
what was true when the code last looked.

### ComputerUse, ComputerEngine

`slot` is `_tasks[run_id]`; a task stands before its first step, in the preparation, in the engine or in a
cleanup; `cut` are cancellations that were requested and not yet thrown; `inflight` are handlers of user
actions between two awaits.  In `ComputerEngine` a tab is what the code's heuristics make of its page
(`listing`, `detail`, `plain`, `error`), `page` the tab in hand, `trail` what the recorded steps tell the
heuristics; `there` are the tabs at the address a navigate asked for.  The page of a new tab (`about:blank`) counts as
an error page, as `_is_error_page_url` has it.

A run that ends tells its conversation first and writes its own state afterwards.  A result without success is told in the
phase `needs_attention` (`B/computer_use/runtime.py:199`), which `ConversationTaskPhase`
(`B/automation/conversation_task.py:10-22`) does not have: the row saved so is refused when
`publish_assistant_run_update` loads it (`assistant_updates.py:96`), the task dies of that (`GivesUp`, `Dies`), and the run
is never written `failed`: it stays `running`, its action under way.  The row stays so (`Unloadable`) until it is deleted
or overwritten by somebody who loaded it before (`Rewritten`); until then a computer-use run that
succeeds dies likewise, and an executor task takes the exception for a failure of its run and writes a completed one `failed`
(`Tell` of `Conversation`).  Only an exception of the engine, of which the conversation is not
told, and a conversation without a task lead to `failed`.

### Conversation

`task` is the row of the session's newest task; `legacy` the intent that outlives it; `talk` the turn that
holds `_session_turn_lock` with its own copy of the task; `runs` the rows of runs with the message each owes
its conversation.  A text is what the parsers make of it; readings by models are sets (`Reading`,
`Understood`, `Detailed`, `Timed`).

Who else writes the row does so outside the lock.  A run of the chat tells its outcome (`Tell`).  A computer-use request
(`demand`; `B/computer_use/service.py:133-292`) holds a copy of its own over the intake model and the search for a browser, and
then writes it: turned down (`TurnedDown`), as scheduled (`PutOff`) or with a run (`Engage`).  A computer-use
run that ends writes the row whichever run that names (`Succeeds`, `Loses`; `B/computer_use/runtime.py:181-208`).

`OutcomeIsShown` says that what a run told its conversation stays visible over all that, with three exceptions, each of
them what the code does.  A request that is turned down writes the old `active_run_id` with the phase
`collecting_requirements` or `awaiting_user_action` and does not look at that run; a run of the other engine writes
its outcome into a row that names another run, or spoils the row when it failed.  `blind` marks a row last written by
one of these; the next turn, refresh or message of a run puts it right, where the row can still be loaded.  And a halt by a planner is shown
forever.

One request waits at a time, and the end of a computer-use run is not counted among the deeds, as it needs a run that
a request started: both are bounds.

### DeviceSockets, SessionStream, LiveSessions

A step ends at each await that gives the event loop away (a close, a send, a receive, the wait for a
result, an asyncio lock).  A socket's endpoint is one coroutine that goes on after its socket was
replaced; sets of subscribers are objects, because a broadcast keeps the one it began with.
`overlapped`, `orphaned` and `raced` are history: they mark what the code does mix up (a device with two
endpoints at a time, a subscriber set dropped by an older broadcast, a start beside a stop), and the
properties say what holds otherwise.

A voice session's key is a device with a name (`Device \X Name`): a client may request any key, and the
model takes it that two devices do not request the same one.  `Object` are the identities of Python's set
objects, of which there is always another one (`ObjectAssumption`).

### LocalRunner, CloudRunner, ServerBrowser

`handle`, `phase`, `svc`, `row` and `managed` are the tables of the two backends of
`server_runner_manager.py` and of `server_runner.py`; a request holds the user's lock where the code
does.  A call to Google's API may be refused or break after it took effect.  A browser is told to
terminate and ends some time later, or by itself; the backend may restart and leaves its browsers behind.

**Fairness of these.** Weak fairness of each endpoint's, request's and watch task's next step: the event
loop runs what is ready, sends and closes have timeouts, and a process that was told to terminate is waited
for with a limit.  Nothing is assumed of devices, viewers or users.

## 3. Runs

| Run | Instance | Shows |
|---|---|---|
| `runs_and_lock` | 3 runs, one of the computer-use engine, 1 session, 2 rows listed; 2 actors, 2 requests, local store, clock of 4 | types; complete hand-over; a granted lock stands; one controller. Three runs are the least for one that leaves, one that is handed the session and one that competes, and for one that is cut off the listing |
| `moved_runs` | 2 runs, one of the computer-use engine, 2 sessions, retries rebind, runs without session | the hand-over when a run changes its session by a retry or by fallback, to a run of the other engine that waits there; between two executor runs the moves are left to the theorem, as they take TLC too long |
| `revived_runs` | 2 runs, 1 session, one local | a run that waits for its user keeps its page, also when finished runs are revived under a live task |
| `stopped_runs` | 2 runs, 1 session, one local, `FairSpec` | types; the owner acts; the inductive invariant of the proof and the exclusive lease; every stop that awaits the runtime ends the execution |
| `runtime_runs` | 1 client, 3 executions, restarts | types; the record and the log tell the truth about the newest execution |
| `streams` | 1 resuming client, 3 events, queries of 2 rows, Firestore, failing calls, restarts; 2 readers, 2 executions, 1 run; 1 row, 4 writes, both stores; fair | types; nothing told twice; replay, queue and catch-up drop nothing they were given; refinement of `EventFeed`; the end of a run arrives in both streams; a change is on disk or on its way, and rows are whole |
| `executor` | 3 controls; 2 tabs, 2 rounds; 2 starts of a run; 2 executions of an id with 2 events; 4 turns; 2 tasks; 3 engine steps; 2 runs of a conversation with 3 deeds | only a listed result is directed and the click goes to the page that was meant; completed means seen; no step is repeated blindly; one engine; a stop stands; a navigate is followed; an outcome is shown |
| `connections` | 2 sockets and 2 commands of a device; 2 endpoints and pumps; 2 sources, a watcher, a viewer, 3 sets, 2 frames; 2 workers, 2 requests; 3 services; 2 browsers; fair | commands, voice sessions, watchers, workers and browsers are where the code will find them; what broke is noticed, what was asked ends |
| `schedule_claims` | 2 loops, 1 schedule, failures, deaths, deletions, clock of 5, `FairSpec` | types; claims stand; one loop at a time; no marked time fires again; a due schedule is claimed in the end |
| `paused_run_is_cancelled` | violation | a pause ends as `cancelled` |
| `agent_acts_under_human_control` | violation | the task goes on under human control |
| `two_active_executions` | violation | a second start runs beside an execution at work |

Sessions and actors are interchangeable and used as symmetry sets where a module runs alone and without
liveness.
Runs are not: they are ordered by creation, which `Oldest` and `Listed` use.  The runs of `RuntimeRuns` do not interact (every
action touches one run, except the death of the process), so one is enough.  Deadlock is switched off where
something may stop: the executions of a bound are used up, a log is full, a clock stands at its bound, a run's
loop has ended, no socket is left to connect.

The runtime's part of `streams` has no restarts: after one, a client that still holds a cursor of the lost
process may subscribe behind the end of a run that another start created anew, and reads until its timeout.
`FiresOnce` speaks of times whose mark was written: a loop that dies before it leaves the schedule to be
executed again for the same time.

Why the bounds are enough.  *Events*: three let one be behind the cursor, two share a query of two
rows, and one arrive last.  Connections do not interact, so one client stands for all of
them.  *Lock*: two actors are the least for one that outranks or takes from another; the third request
that could interleave is a heartbeat, which takes one of the two slots; with the clock at 4 a lock is
taken, renewed, expires and is taken again.  *Schedules*: two loops compete; schedules meet only in a
loop's listing; with the clock at 5 a schedule of period 2 fires, is claimed for 3, expires, and fires again.
*Store*: updates of two callers overlap with a deletion; four writes make a change, a failed flush, a
change and a restart.  *Executor*: three controls are one of each group; with two tabs one is meant and the other in front; with two executions
a process that was given up in the first still writes in the second; two starts let the second find what
the first left.  *Computer use*: two tasks are one that ends and one that is started beside it.
*Conversation*: two runs let the message of one meet the task of the other; a deed is a turn or a step of a
run or a request, and three are a turn or request that starts a run, its end, and a turn or request that overlaps that.  *Connections*: two of
each kind, one that is replaced or stopped and one that follows; three subscriber sets, because the
second replaces the first under a broadcast and the third the second.  *Workers*: three services are
two attempts and a later start.

### Where the code and its documents part

The three violations are disagreements between the code and its documents or tests; `PROJECT.json`
quotes both under `findings`.  The models contain more, which no run of the list shows; where a
property fails for another value of a constant, both are named:

* *An event in the gap* (`B/automation/event_routes.py:54-66`).  The replay's query is answered before
  `subscribe()`.  An event stored and delivered in between is in neither, and the next event of the queue
  moves `cursor_timestamp` past it, so that no catch-up lists it: a stored event that an open connection is
  never told.  `OwedIsTold` therefore speaks of what the replay held or the queue was given, and
  `LastEventArrives` of the last event, which nothing can overtake.
* *A deaf reconnection* (`B/automation/store.py:705`).  With the local store `list_events_since` reads the list
  of events whose saving failed.  `OwedIsTold` fails for `LocalStore = TRUE` and a resuming client.
* *Two controllers* (`B/automation/sessions/manager.py:184`).  With Firestore two requests both read a free
  lock before either writes: `OneController` fails for `LocalStore = FALSE`, against "Only one controller at a
  time" (`apps/backend/docs/NO_EXTENSION_BROWSER_ARCHITECTURE.md:491`).
* *A foreign release* (`B/api/browser/session_stream_routes.py:542`).  The release of an actor that holds no
  lock still resumes the run while another actor is in control (`Releases`, `ResumeRun`).
* *Control that expires* (`B/automation/sessions/manager.py:69`).  An expired lock is cleared and nothing
  resumes the run, though the same document (502-503) lets the release of a lock do so.
* *A deleted schedule returns* (`B/automation/schedule_service.py:345`).  The mark's `set(merge=True)` recreates
  a row deleted since the get, without its fields; once it is due the listing fails for every schedule.
  `DueIsClaimed` fails for two schedules with deletions.
* *A request that confirms itself* (`B/automation/conversation_resolver.py:845-871`).  A sensitive request is
  answered with "Please confirm before I ..." and with the action `confirm`; the same turn creates the run
  awaiting its confirmation and confirms it (`conversation_service.py:521-527`), against
  `conversation_response.py` ("The assistant is waiting for typed confirmation before the automation
  starts.").  In `Conversation`: `Begin("request")`, `Resolve` (`Settled`), `CreateRun`, and the run is running.
* *A halt that stays* (`B/automation/conversation_service.py:426-443`).  The interruption that a planner wrote
  into a run's progress is cleared by nothing, so that the conversation shows a run that went on and
  completed as awaiting its user, or failed, for ever (`PhaseOfRun`); `OutcomeIsShown` excludes such runs.
* *The fifty oldest runs* (`B/automation/store.py:582`).  Section 2, "The listing": with a longer history a session is
  left idle with a run queued for it, and a wait for the user is not respected.  `HandoverComplete` and
  `UserWaitKeepsSession` fail for three runs when they are stated for `Bound` instead of `Listed`.
* *A phase that does not exist* (`B/computer_use/runtime.py:199`).  Section 2, "ComputerUse": an unsuccessful result leaves
  its run `running` and a conversation that cannot be loaded.
* *A request over an outcome* (`B/computer_use/service.py:195-220`).  Section 2, "Conversation": a request that is turned down
  writes `awaiting_user_action` over the outcome of the run that the row goes on to name.  `OutcomeIsShown`
  fails without `blind`.
* *Another run's outcome* (`B/automation/assistant_updates.py:92`).  The message of an older run closes the
  newest task of the session when that has no run yet (`Tell`).
* *A confirmation of the oldest run* (`B/automation/store.py:506`).  `confirm_intent` takes the first run of
  the intent and looks at no state: a completed run is started again (`Confirm`).
* *The twenty oldest tasks* (`B/automation/store.py:370`).  The query for a session's task is ordered by its last
  write, ascending, with a limit of 20, and sorted afterwards: with more tasks the newest is not found.  The
  model has one row.
* *A deletion undone* (`B/automation/conversation_store.py:117`).  A turn in progress writes the deleted task
  back, and the next turn makes a task of the intent that deletion keeps.
* *A torn store file* (`B/automation/store.py:85`).  A crash in the middle of the write leaves a file that
  does not parse; the next start takes it for an empty store and its first change overwrites it (`Restart`,
  `Load`, `Flush`).  Two processes with the local store (backend and scheduler worker) overwrite one another's
  file; the model has one.
* *A browser nobody knows* (`B/api/browser/server_runner.py:218-257`).  A launch in the other mode, or beside a
  browser that was slow to answer, gives the shared row and the table's entry to the new process; the old one
  runs on.  Nothing calls `shutdown`, so after a restart all do; a stop of a reused session then terminates
  nothing and marks it stopped (`StopMarks`).  A computer-use run's snapshot may write a stopped row ready again
  (`SnapshotWrites`).
* *A swallowed start* (`B/computer_use/runtime.py:489`).  A start that finds a cancelled task still ending does
  nothing and reports success; an exception before the task's `try` (73-104) leaves the run queued or
  starting.  A takeover leaves the task at work, as in `RunExecution`.
* *Tab 0* (`B/automation/executor.py:5432`).  `int(tab.get("index", -1) or -1)` makes -1 of 0, so the first tab never
  matches by index; a sync that finds no tab is logged and the click goes to the current one.
* *Text without a target* (`B/services/tools/navigator/planner_guardrails.py:252`).  A `type` step without a target
  shall become keyboard entry "so it survives ref-centric guardrails", but `_validate_steps`
  (`B/services/tools/step_planner.py:657`) drops it before the guardrails see it (`Valid`).
* *A replaced socket's heir* (`B/api/websocket.py:65`).  The end of a replaced endpoint disconnects the device
  by its id: the newer socket is then served without being registered.
* *A dropped set* (`B/api/websocket_connection_manager.py:300`).  The end of an older broadcast removes the
  entry of a set that took its place: its devices were told "subscribed" and get no frames.
* *A worker nobody knows* (`B/api/browser/server_runner_manager.py:268`).  `stop` takes no lock: beside a start it
  may forget a worker that is created after it.

## 4. Proofs

Every theorem holds for all values of the constants that the modules' assumptions allow, which only say that
bounds are numbers and that the names for nothing (`NoRun`, `NoPump`, ...) are none of the things: so for any number of
runs, sessions, clients, actors, loops, schedules, sockets, tabs, turns and steps.  Where a theorem
assumes more, it is said below; TLC's runs of the property use the same values, and section 3 says what goes wrong
for the others.  Each safety property is proved the same way: it is not inductive, an invariant that adds what the
code relies on without saying so is, and the step lemmas go through the actions one by one.

`RunExecutionProofs`:

* `TypeCorrect`: `Spec => []TypeOK`.  Each `World` operator keeps the type of a
  world; `OldestIn` uses well-foundedness to know that a non-empty set of runs has an oldest one.
* `LeaseInductive`, `LeaseIsExclusive`, `OwnerAlwaysActs`: about executor tasks, also with computer-use runs beside them,
  assuming `Disciplined` (`~MayBeUnbound /\ ~MayReviveLive`).
  `LeaseExclusive` alone is not inductive: that two acting tasks differ in their sessions says nothing about
  the owner table the next start will consult.  `LeaseInv` adds that every acting task is the recorded owner
  of its run's session, that a run has a session from its creation on, and that a deaf task belongs to a
  finished run (otherwise it could write a state and with it claim the session).  In the middle of a step a run
  may have given up its ownership while its task is about to end; the lemmas therefore speak of
  `Sound(w, x)`, `LeaseInv` of the world `w` except for the claim of run `x`.
* `UserWaitAlwaysKeepsSession`, `HandoverIsComplete`: action properties about the listed runs, for any limit of the
  listing; no assumption; they need of the state only its type.  A step composes up to three `World` operators, so the lemmas follow a world through them: what
  starts was admitted by the blocking check on the world at that moment, and `StartNext` leaves nobody in the queue
  whom nothing blocks.
* `FewRunsAreAllListed`: a session with no more rows than `MaxListed` has all of them listed, by the cardinality of
  the rows before a run.

`RuntimeRunsProofs`:

* `RuntimeTypeCorrect`, `RunningIsAlwaysDriven`: no assumption.  `DriveInv` adds that a known run has a
  controller of an execution of its own, that only the executions of known runs are at work, and that no
  controller is aborted before it exists; `ClientInv` that a client that asked or reads names a run.
* `EndIsAlwaysAnnounced`: no assumption.  `EndInv` adds why an execution may end in silence: its controller
  was aborted, and the abort came with an event of its own after the last start.
* `RuntimeImplementsFeed`: assuming `~MayRestart` (a client that keeps a cursor of a lost process reads
  another log).  Initial states map to initial states and every step to a step or a stutter of `EventFeed`; `FeedInv`
  says that a cursor lies within the log and that the queue of a reader is the end of the log.

`EventStreamProofs`: `StreamInv` says of each connection that `seen_event_ids` is what was yielded and the id it was
opened with, that nothing was yielded twice, and (for Firestore) that what is owed was told, is in the rest of the
query, or is in the queue.

* `StreamTypeCorrect`, `NothingIsToldTwice`: no assumption, both stores.
* `OwedIsAlwaysTold`: assuming `~LocalStore`; with the local store it fails (section 3).

`StreamsProofs`: `RowsAreAlwaysKept`, that the local store's file is recent and rows are whole.  `StoreInv` adds
that the copies in callers' hands are whole, and that with the local store nobody holds one over a step.

`ControlLockProofs`:

* `LockTypeCorrect`: no assumption, both stores; `LockTyped` adds what a request carries at each stage (`Sound`).
* `LocalGrantIsLock`, `LocalOneController`: assuming `LocalStore`; with Firestore
  both fail (section 3).  `GrantIsLock` is not inductive: a request between its read and its write
  carries a lock that is not in the row yet.  `LockInv` adds that at most one request stands anywhere but
  at a `send`, and what that request is `Entitled` to: one about to write a lock takes it from nobody, or
  from somebody outranked; one that clears the row found no live lock; one that pastes the row copied the
  present lock.

`ScheduleClaimProofs`:

* `ScheduleTypeCorrect`: no assumption.
* `ClaimAlwaysStands`, `ClaimIsExclusive`: assuming `Punctual`.  `ClaimedAlone` says nothing of the row that the next claim
  reads; `ClaimStands` does, and `NotLate` keeps a claim that is being made from being late.  A schedule that
  came back without its fields can be written under a claim, but never passes the claim's validation,
  and is executed by nobody.
* `MarkedTimesFireOnce`: assuming `Punctual`.  `FireInv` adds that a time whose mark was written lies behind the
  schedule's next time (`FiredBehind`), and that what a loop is about to save lies behind the time it executes
  (`HandIsDue`); the next time is later because `Earliest` picks it among the later ones.

`ConnectionsProofs`, for `MCFairSpec` without use of its fairness; one part moves at a time, so `PartsInv` is the conjunction of
the parts' invariants, each kept by the steps of its part and by those that leave it alone:

* `PartsTypeCorrect`.
* `CommandsAreAlwaysReachable` (`SocketInv`): every pending command is on the present socket of its device, every open future
  is pending, and a device that no endpoint serves is in no table.
* `VoiceIsAlwaysStoppable` (`VoiceInv`): what a start holds between its awaits (`Starting`), what an end waits for (`Joining`),
  that a recorded session's pump is of its device (`Recorded`), and that a device whose endpoints never overlapped has
  one that serves it and one pump (`Alone`).
* `WatchersAreAlwaysServed` (`PictureInv`): a broadcast under way holds a set and a frame.  The property is
  inductive with it, given that a new set is none of those in use.
* `WorkersAreAlwaysKnown` (`LocalInv`, `CloudInv`, `BrowserInv`): a start holds its lock and its process (`Booked`); without
  a race the steps of start, watch and stop are in order (`Orderly`); a service's attempt holds the lock, and what
  it may still undo (`Attempting`); every browser a row names was launched.

`ExecutorProofs`, for `MCSpec`; `ExecutorInv` is the conjunction of:

* `PlannerInv` for `PageIsAlwaysKept` (`OnlyListed`): after a round's sync no typed step is left, a plan's source is never a
  typed step, and one that comes from the listing clicks one of the round's results.
* `DirectedInv` for `PageIsAlwaysKept`: some tab is open, and from a sync to the look or click that it is for the
  front tab shows the page that was meant, unless a tab moved.
* `VerdictInv` for `VerdictIsAlwaysSound`: a success in the observation was seen by this attempt, a run finished while its
  stream goes on is one the backend gave up on, and a completed one is executed no more.
* `PromptInv` for `CompletedWasAlwaysSeen`: an observation that is younger than the last mutating action was made after it.
* `HookedInv` for `NoStepIsBlind`: between the judgement and the action the page is the one that was judged.
* `UseInv` for `OneEngineAlways` and `StopAlwaysSticks`: the task at work is the recorded one, and after a stop of a run
  that the backend executes it has been cancelled.
* `EngineInv` for `NavigationIsAlwaysFollowed`: a navigate arrived in one tab, which is open, until the loop has settled; a
  loop that goes on has steps left.  `BoundAssumption` says that there is a step to do (`MaxStep > 0`, as the code's
  `range(computer_use_max_steps)`), a model to ask and a size of page to show it.
* `TalkInv` for `OutcomeIsAlwaysShown`: a task's run was created, a run that ended owes the message of what it became, and a
  task shows what its run told unless it was last written by one who does not look at its run (`blind`).  The turn's own
  copy may be old: it is put in step with the runs' rows before it is
  written (`SyncedShows`).
* `ExecutorTypeCorrect` from all of them.

`ClosedAssumption` (the mark of a closed tab is no address) and `StepAssumption` (no step is not a step) are
about names that the model invents.

Only model-checked: the liveness properties `StopEndsExecution`, `EndIsTold`, `OwedIsSettled` and `DueIsClaimed`
(liveness is out of the prover's reach), and the three violations.  The theorems of `RunExecutionProofs`,
`RuntimeRunsProofs`, `EventStreamProofs` and `ControlLockProofs` are about the `Spec` of their own modules; that the
runs put these modules beside others (`MCRunsAndLock`, `MCStreams`) changes nothing in what they say, and is not restated.

## 5. What is not modelled, and why

* What a planner, a page or a model says: a free choice among the outcomes the code can write.  So
  `planner_service.py` and `intent_extractor.py`, which build prompts and parse answers, are not there, and of
  `services/tools/step_planner.py` the prompts, the parsing and the scores of names.
* Event payloads, progress texts, messages to the user, metrics.
* Firestore under `RunExecution`: it has the granularity of the local store.  What Firestore does to one row
  is in `RunStore`, to the lock in `ControlLock`, to schedules in `ScheduleClaim`, to events in `EventStream`.
* Scheduled executions inside `RunExecution`: the scheduler's loop calls `execute_run` itself, past
  `start_execution`, so such a run has no entry in the task table, passes no blocking check, and its end
  hands nothing over.  `RunExecution` and its theorems speak of the executions that requests start.
* The in-memory fallback of schedules and sessions, which only one process sees.
* Events of other runs on the same connection; the priorities clients choose (the documents' order of
  desktop, web and mobile is a choice of each client, not of the backend).
* Code that nothing calls: in `executor.py` some 1300 lines of an older step executor, among them
  `_apply_resume_reconciliation` and `_wait_if_paused_or_cancelled`; in `computer_use/engine.py` 81 lines.
* The same port given to two browsers one after the other, and session rows that a user edits by hand
  (`B/api/browser/sessions_routes.py`).
* The components marked `not_modelled` in `PROJECT.json`, each with its reason.

## 6. Plan

Done: everything in the table of section 2.

Next, in this order:

1. `ScheduledExecution`: `RunExecution` with executions that a scheduler's loop drives past
   `start_execution`; which of its properties survive.
2. `RunWithRuntime`: `RunExecution` and `RuntimeRuns` composed, for what a stop means in both processes.
3. Notifications and the device registry, for what a device that was revoked may still do.

Theorems worth proving next: the safety of what these modules add; that `ControlLock` implements the `Takeover` and `Release` of
`RunExecution`.
