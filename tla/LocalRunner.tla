----------------------------- MODULE LocalRunner -----------------------------
(***************************************************************************)
(* The remote browser of one user when a local process serves it           *)
(* (_LocalProcessServerRunnerBackend in api/browser/server_runner_manager. *)
(* py): requests start and stop a worker process through a handle that is  *)
(* never forgotten.  A start holds the handle's start_lock until the       *)
(* worker reports ready, a stop takes no lock.                             *)
(*                                                                         *)
(* One step is the code between two awaits that give the event loop away:  *)
(* the creation of the process, its ready line, its termination, and a     *)
(* cancelled task's end.                                                   *)
(***************************************************************************)
CONSTANTS
  Proc,   \* worker processes
  Call,   \* requests, each starting or stopping again and again
  NoProc, NoCall

VARIABLES
  handle,  \* process and state of _handles[user]; "absent" before the first start
  proc,    \* what the operating system knows of each process
  watch,   \* the _watch_process task that the start of a process created
  task,    \* handle.wait_task
  call,    \* where each request stands, and with which process
  lock,    \* start_lock
  raced    \* history: a start went on beside a stop

vars == <<handle, proc, watch, task, call, lock, raced>>

State == {"absent", "idle", "starting", "ready", "stopping", "error"}

Starting == {"clean", "create", "await", "kill"}
Stopping == {"term", "final"}

TypeOK ==
  /\ handle \in [process : Proc \cup {NoProc}, state : State]
  /\ proc \in [Proc -> {"none", "up", "down"}]
  /\ watch \in [Proc -> [at : {"none", "new", "wait"}, on : Proc \cup {NoProc}]]
  /\ task \in Proc \cup {NoProc}
  /\ call \in [Call -> [at : {"idle"} \cup Starting \cup Stopping, proc : Proc \cup {NoProc}]]
  /\ lock \in Call \cup {NoCall}
  /\ raced \in BOOLEAN

NoWatch == [at |-> "none", on |-> NoProc]

Init ==
  /\ handle = [process |-> NoProc, state |-> "absent"]
  /\ proc = [p \in Proc |-> "none"]
  /\ watch = [p \in Proc |-> NoWatch]
  /\ task = NoProc
  /\ call = [c \in Call |-> [at |-> "idle", proc |-> NoProc]]
  /\ lock = NoCall
  /\ raced = FALSE

Up(p) == p # NoProc /\ proc[p] = "up"

Goes(c, place, p) == call' = [call EXCEPT ![c] = [at |-> place, proc |-> p]]

\* A start returns or raises, and gives start_lock back.
Leaves(c) == Goes(c, "idle", NoProc) /\ lock' = NoCall

SetState(s) == handle' = [handle EXCEPT !.state = s]

\* _finalize_handle begins: the tasks of the handle are cancelled.
CancelTasks ==
  /\ watch' = IF task = NoProc THEN watch ELSE [watch EXCEPT ![task] = NoWatch]
  /\ task' = NoProc

-----------------------------------------------------------------------------
(* start.                                                                  *)

\* A live worker that is ready, or that an earlier start left behind, is reused.
Reuse(c) ==
  /\ call[c].at = "idle" /\ lock = NoCall
  /\ Up(handle.process) /\ handle.state \in {"ready", "starting"}
  /\ UNCHANGED vars

Start(c) ==
  /\ call[c].at = "idle" /\ lock = NoCall
  /\ ~(Up(handle.process) /\ handle.state \in {"ready", "starting"})
  /\ lock' = c
  /\ raced' = (raced \/ \E d \in Call : call[d].at \in Stopping)
  /\ IF handle.process # NoProc /\ ~Up(handle.process)
     THEN Goes(c, "clean", NoProc) /\ CancelTasks /\ UNCHANGED handle
     ELSE Goes(c, "create", NoProc) /\ SetState("starting") /\ UNCHANGED <<watch, task>>
  /\ UNCHANGED proc

Cleaned(c) ==
  /\ call[c].at = "clean"
  /\ handle' = [process |-> NoProc, state |-> "starting"]
  /\ task' = NoProc
  /\ Goes(c, "create", NoProc)
  /\ UNCHANGED <<proc, watch, lock, raced>>

Created(c, p) ==
  /\ call[c].at = "create" /\ proc[p] = "none"
  /\ proc' = [proc EXCEPT ![p] = "up"]
  /\ handle' = [handle EXCEPT !.process = p]
  /\ Goes(c, "await", p)
  /\ UNCHANGED <<watch, task, lock, raced>>

\* create_subprocess_exec raises: the state stays as it is.
NotCreated(c) ==
  /\ call[c].at = "create"
  /\ Leaves(c)
  /\ UNCHANGED <<handle, proc, watch, task, raced>>

\* The worker's ready line was read; it may have died since.
Ready(c) ==
  LET p == call[c].proc IN
    /\ call[c].at = "await"
    /\ IF Up(p)
       THEN /\ SetState("ready")
            /\ watch' = [watch EXCEPT ![p].at = "new"]
            /\ task' = p
       ELSE SetState("error") /\ UNCHANGED <<watch, task>>
    /\ Leaves(c)
    /\ UNCHANGED <<proc, raced>>

\* The worker closed its output first: a RuntimeError that nothing here catches.
Eof(c) ==
  /\ call[c].at = "await"
  /\ Leaves(c)
  /\ UNCHANGED <<handle, proc, watch, task, raced>>

\* Mutant: the worker is left running.
TimeoutQuietly(c) ==
  /\ call[c].at = "await"
  /\ handle' = [handle EXCEPT !.state = "error", !.process = NoProc]
  /\ Leaves(c)
  /\ UNCHANGED <<proc, watch, task, raced>>

\* server_runner_start_timeout_seconds are over.
Timeout(c) ==
  /\ call[c].at = "await"
  /\ IF Up(call[c].proc)
     THEN Goes(c, "kill", call[c].proc) /\ UNCHANGED <<handle, lock>>
     ELSE SetState("error") /\ Leaves(c)
  /\ UNCHANGED <<proc, watch, task, raced>>

\* _terminate_process is over: SIGTERM was obeyed within 10 s, or SIGKILL sent.
Killed(c) ==
  /\ call[c].at = "kill"
  /\ proc' = [proc EXCEPT ![call[c].proc] = "down"]
  /\ SetState("error")
  /\ Leaves(c)
  /\ UNCHANGED <<watch, task, raced>>

-----------------------------------------------------------------------------
(* stop, which shutdown calls for each handle.                             *)

Stop(c) ==
  /\ call[c].at = "idle" /\ handle.state # "absent"
  /\ SetState("stopping")
  /\ raced' = (raced \/ \E d \in Call : call[d].at \in Starting)
  /\ IF Up(handle.process)
     THEN Goes(c, "term", handle.process) /\ UNCHANGED <<watch, task>>
     ELSE Goes(c, "final", NoProc) /\ CancelTasks
  /\ UNCHANGED <<proc, lock>>

Terminated(c) ==
  /\ call[c].at = "term"
  /\ proc' = [proc EXCEPT ![call[c].proc] = "down"]
  /\ Goes(c, "final", NoProc) /\ CancelTasks
  /\ UNCHANGED <<handle, lock, raced>>

\* _finalize_handle forgets the process that the handle has by now; the state stays.
Finalized(c) ==
  /\ call[c].at = "final"
  /\ handle' = [handle EXCEPT !.process = NoProc]
  /\ task' = NoProc
  /\ Goes(c, "idle", NoProc)
  /\ UNCHANGED <<proc, watch, lock, raced>>

-----------------------------------------------------------------------------
(* The worker and its watch.                                               *)

Dies(p) ==
  /\ proc[p] = "up"
  /\ proc' = [proc EXCEPT ![p] = "down"]
  /\ UNCHANGED <<handle, watch, task, call, lock, raced>>

\* The first step of the task: it watches the process that the handle has by now.
WatchBegins(p) ==
  /\ watch[p].at = "new"
  /\ watch' = [watch EXCEPT ![p] = IF handle.process = NoProc THEN NoWatch
                                   ELSE [at |-> "wait", on |-> handle.process]]
  /\ UNCHANGED <<handle, proc, task, call, lock, raced>>

\* The exit is an error, unless the handle stops and the exit code is 0.
WatchReports(p) ==
  /\ watch[p].at = "wait" /\ ~Up(watch[p].on)
  /\ \/ SetState("error")
     \/ handle.state = "stopping" /\ UNCHANGED handle
  /\ watch' = [watch EXCEPT ![p] = NoWatch]
  /\ UNCHANGED <<proc, task, call, lock, raced>>

-----------------------------------------------------------------------------
Ends(c) ==
  \/ Cleaned(c) \/ NotCreated(c) \/ (\E p \in Proc : Created(c, p))
  \/ Ready(c) \/ Eof(c) \/ Timeout(c) \/ Killed(c) \/ Terminated(c) \/ Finalized(c)

Watches(p) == WatchBegins(p) \/ WatchReports(p)

Next ==
  \/ \E c \in Call : Reuse(c) \/ Start(c) \/ Stop(c) \/ Ends(c)
  \/ \E p \in Proc : Dies(p) \/ Watches(p)

Spec == Init /\ [][Next]_vars

\* Every wait of a start or a stop has a timeout, and the event loop runs the tasks.
Fairness == (\A c \in Call : WF_vars(Ends(c))) /\ (\A p \in Proc : WF_vars(Watches(p)))

FairSpec == Spec /\ Fairness

-----------------------------------------------------------------------------
(* Properties                                                              *)

\* A worker that runs can be stopped: the handle names it, or the request that started or
\* stops it still has it.  Not so once a start went on beside a stop, which takes no lock.
WorkerIsKnown ==
  \A p \in Proc :
    proc[p] = "up" /\ ~raced =>
      handle.process = p \/ \E c \in Call : call[c].proc = p

\* The exit of a worker that is ready is noticed, also if starts and stops went on beside
\* one another, and tasks and processes were mixed up.
Unnoticed(p) == handle.state = "ready" /\ handle.process = p /\ proc[p] = "down"

ExitIsNoticed ==
  \A p \in Proc : Unnoticed(p) ~> ~(handle.state = "ready" /\ handle.process = p)
=============================================================================
