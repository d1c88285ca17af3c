----------------------------- MODULE RuntimeRuns -----------------------------
(***************************************************************************)
(* The automation runtime as the backend uses it: RunManager               *)
(* (runtime/run-manager.ts) with its HTTP handlers (server/http.ts) and    *)
(* the clients of automation/runtime_client.py, each of which starts a run *)
(* and then reads its event stream until a terminal event.                 *)
(*                                                                         *)
(* A step is a callback of the runtime's event loop with its microtasks:   *)
(* startRun and the first part of executeRun, up to the call that drives   *)
(* the browser, are one step; so are replay and subscription in the event  *)
(* handler.                                                                *)
(***************************************************************************)
EXTENDS Naturals, Sequences

CONSTANTS
  Run,         \* run ids
  Client,      \* backend calls that start a run and read its events
  MaxExec,     \* bound: executions in one behaviour
  MaxLog,      \* bound: length from which on a log grows by executions' ends only
  MayRestart,  \* may the runtime process die?
  NoRun, NoEvent

ASSUME MaxExecAssumption == MaxExec \in Nat
ASSUME NoRunAssumption == NoRun \notin Run

Exec   == 1..MaxExec
NoExec == 0

EventType == {"started", "progress", "paused", "incident", "waiting", "failed", "completed"}

\* The events a client stops reading at.
Terminal == {"completed", "failed"}

VARIABLES
  record,   \* the state of each run's record, "none" before the first start
  log,      \* the types of each run's events; an event's number is its seq + 1
  current,  \* the execution stored.controller was created for
  aborted,  \* executions whose controller was aborted
  exec,     \* the executions: their run, and whether they act on the browser,
            \* only their child process still talks, or nothing is left
  client    \* the clients: the run, the cursor they were told, and the
            \* events written to their stream and not read yet

vars == <<record, log, current, aborted, exec, client>>

Phase == {"none", "live", "lingering", "done"}

Event == [run : Run, number : Nat \ {0}, type : EventType]

Idle == [phase |-> "idle", run |-> NoRun, cursor |-> 0, queue |-> <<>>, last |-> NoEvent]

ClientType ==
  [phase : {"idle", "asked", "reading"}, run : Run \cup {NoRun}, cursor : Nat,
   queue : Seq(Event), last : Event \cup {NoEvent}]

TypeOK ==
  /\ record \in [Run -> {"none", "running", "paused", "cancelled", "failed", "completed"}]
  /\ log \in [Run -> Seq(EventType)]
  /\ current \in [Run -> Exec \cup {NoExec}]
  /\ aborted \subseteq Exec
  /\ exec \in [Exec -> [run : Run \cup {NoRun}, phase : Phase]]
  /\ client \in [Client -> ClientType]

Init ==
  /\ record = [r \in Run |-> "none"]
  /\ log = [r \in Run |-> <<>>]
  /\ current = [r \in Run |-> NoExec]
  /\ aborted = {}
  /\ exec = [e \in Exec |-> [run |-> NoRun, phase |-> "none"]]
  /\ client = [k \in Client |-> Idle]

-----------------------------------------------------------------------------
\* The events of r from number n on.
EventsFrom(r, n, types) ==
  [i \in 1..Len(types) |-> [run |-> r, number |-> n + i - 1, type |-> types[i]]]

\* Every subscribed stream of r is written to in the step that emits.
Written(r, types) ==
  [k \in Client |->
     IF client[k].phase = "reading" /\ client[k].run = r
     THEN [client[k] EXCEPT !.queue = @ \o EventsFrom(r, Len(log[r]) + 1, types)]
     ELSE client[k]]

Emit(r, types) ==
  /\ log' = [log EXCEPT ![r] = @ \o types]
  /\ client' = Written(r, types)

-----------------------------------------------------------------------------
(* RunManager                                                              *)

Asks(k, r) ==
  [phase |-> "asked", run |-> r, cursor |-> Len(log[r]), queue |-> <<>>, last |-> NoEvent]

\* An active run is not started again.
JoinRun(k, r) ==
  /\ client[k] = Idle
  /\ record[r] = "running"
  /\ client' = [client EXCEPT ![k] = Asks(k, r)]
  /\ UNCHANGED <<record, log, current, aborted, exec>>

\* Mutant: a second start keeps the controller of the first.
StartRunKeepsController(k, r) ==
  /\ client[k] = Idle
  /\ record[r] # "running"
  /\ \E e \in Exec :
       /\ exec[e].phase = "none" /\ \A f \in Exec : exec[f].phase = "none" => e <= f
       /\ exec' = [exec EXCEPT ![e] = [run |-> r, phase |-> "live"]]
       /\ current' = [current EXCEPT ![r] = IF @ = NoExec THEN e ELSE @]
  /\ record' = [record EXCEPT ![r] = "running"]
  /\ log' = [log EXCEPT ![r] = Append(@, "started")]
  /\ client' = [Written(r, <<"started">>) EXCEPT ![k] = Asks(k, r)]
  /\ UNCHANGED aborted

StartRun(k, r) ==
  /\ client[k] = Idle
  /\ record[r] # "running"
  /\ \E e \in Exec :
       /\ exec[e].phase = "none" /\ \A f \in Exec : exec[f].phase = "none" => e <= f
       /\ exec' = [exec EXCEPT ![e] = [run |-> r, phase |-> "live"]]
       /\ current' = [current EXCEPT ![r] = e]
  /\ record' = [record EXCEPT ![r] = "running"]
  /\ log' = [log EXCEPT ![r] = Append(@, "started")]
  /\ client' = [Written(r, <<"started">>) EXCEPT ![k] = Asks(k, r)]
  /\ UNCHANGED aborted

\* pauseRun and cancelRun ask for no state of the record.
Interrupt(r, state, type) ==
  /\ record[r] # "none"
  /\ Len(log[r]) < MaxLog
  /\ aborted' = aborted \cup {current[r]}
  /\ record' = [record EXCEPT ![r] = state]
  /\ Emit(r, <<type>>)
  /\ UNCHANGED <<current, exec>>

PauseRun(r)  == Interrupt(r, "paused", "paused")

\* Mutant: a cancelled run tells nobody.
CancelRunSilently(r) ==
  /\ record[r] # "none"
  /\ Len(log[r]) < MaxLog
  /\ aborted' = aborted \cup {current[r]}
  /\ record' = [record EXCEPT ![r] = "cancelled"]
  /\ UNCHANGED <<log, current, exec, client>>

\* Mutant: the backend's other spelling, which this record does not have.
CancelRunMisspelt(r) == Interrupt(r, "canceled", "failed")

CancelRun(r) == Interrupt(r, "cancelled", "failed")

\* A browser tool, a log line: also from the child of an execution that is over.
Progress(e) ==
  /\ exec[e].phase \in {"live", "lingering"}
  /\ Len(log[exec[e].run]) < MaxLog
  /\ Emit(exec[e].run, <<"progress">>)
  /\ UNCHANGED <<record, current, aborted, exec>>

\* Mutant: an aborted controller of any execution of the run silences the end.
SilencedByAnyAbort(r) == \E e \in aborted : exec[e].run = r

\* executeRun asks the controller the run has now, not the one it started with.
Silenced(r) == current[r] \in aborted /\ record[r] \in {"paused", "cancelled"}

Outcomes ==
  {[state |-> "completed", events |-> <<"completed">>],
   [state |-> "failed", events |-> <<"failed">>],
   [state |-> "failed", events |-> <<"incident", "failed">>],
   [state |-> "failed", events |-> <<"waiting">>]}

\* The rest of executeRun, when executePromptBrowserRun returns or throws.
ExecutionEnds(e) ==
  LET r == exec[e].run IN
    /\ exec[e].phase = "live"
    /\ \E p \in {"lingering", "done"} : exec' = [exec EXCEPT ![e].phase = p]
    /\ IF Silenced(r) THEN UNCHANGED <<record, log, client>>
       ELSE \E o \in Outcomes :
              /\ record' = [record EXCEPT ![r] = o.state]
              /\ Emit(r, o.events)
    /\ UNCHANGED <<current, aborted>>

ChildCloses(e) ==
  /\ exec[e].phase = "lingering"
  /\ exec' = [exec EXCEPT ![e].phase = "done"]
  /\ UNCHANGED <<record, log, current, aborted, client>>

\* The process dies with everything it knew; open streams break.
Dies ==
  /\ MayRestart
  /\ record' = [r \in Run |-> "none"]
  /\ log' = [r \in Run |-> <<>>]
  /\ current' = [r \in Run |-> NoExec]
  /\ aborted' = {}
  /\ exec' = [e \in Exec |-> IF exec[e].phase = "none" THEN exec[e]
                             ELSE [run |-> NoRun, phase |-> "done"]]
  /\ client' = [k \in Client |-> IF client[k].phase = "reading" THEN Idle ELSE client[k]]

-----------------------------------------------------------------------------
(* The event stream and its clients.                                       *)

\* Mutant: subscribes without the replay.
SubscribeOnly(k) ==
  LET r == client[k].run IN
    /\ client[k].phase = "asked"
    /\ record[r] # "none"
    /\ client' = [client EXCEPT ![k].phase = "reading", ![k].cursor = 0]
    /\ UNCHANGED <<record, log, current, aborted, exec>>

\* Replay of the events after the cursor, then the subscription.
Subscribe(k) ==
  LET r == client[k].run
      c == client[k].cursor IN
    /\ client[k].phase = "asked"
    /\ record[r] # "none"
    /\ client' = [client EXCEPT ![k].phase = "reading", ![k].cursor = 0,
                    ![k].queue = EventsFrom(r, c + 1, SubSeq(log[r], c + 1, Len(log[r])))]
    /\ UNCHANGED <<record, log, current, aborted, exec>>

\* The handler of an unknown run throws, which nothing catches.
SubscribeToLost(k) ==
  /\ client[k].phase = "asked"
  /\ record[client[k].run] = "none"
  /\ Dies

Receive(k) ==
  /\ client[k].phase = "reading"
  /\ client[k].queue # <<>>
  /\ LET event == Head(client[k].queue) IN
       client' = [client EXCEPT ![k] =
         IF event.type \in Terminal THEN [Idle EXCEPT !.last = event]
         ELSE [client[k] EXCEPT !.queue = Tail(client[k].queue), !.last = event]]
  /\ UNCHANGED <<record, log, current, aborted, exec>>

\* The backend's task is cancelled, its read times out, or it is done with the result.
Leave(k) ==
  /\ client[k] # Idle
  /\ client' = [client EXCEPT ![k] = Idle]
  /\ UNCHANGED <<record, log, current, aborted, exec>>

-----------------------------------------------------------------------------
Next ==
  \/ \E k \in Client, r \in Run : JoinRun(k, r) \/ StartRun(k, r)
  \/ \E r \in Run : PauseRun(r) \/ CancelRun(r)
  \/ \E e \in Exec : Progress(e) \/ ExecutionEnds(e) \/ ChildCloses(e)
  \/ \E k \in Client : Subscribe(k) \/ SubscribeToLost(k) \/ Receive(k) \/ Leave(k)
  \/ Dies

Spec == Init /\ [][Next]_vars

\* A connected client reads what was written to its stream.
Fairness == \A k \in Client : WF_vars(Receive(k))

FairSpec == Spec /\ Fairness

-----------------------------------------------------------------------------
(* Properties                                                              *)

Live(e) == exec[e].phase = "live"

\* A record says "running" only while the newest execution of the run is at work
\* and no pause or cancellation was asked of it: neither the end of an older
\* execution nor an abort ever leaves the run running with nobody behind it.
RunningIsDriven ==
  \A r \in Run :
    record[r] = "running" =>
      /\ current[r] # NoExec
      /\ exec[current[r]] = [run |-> r, phase |-> "live"]
      /\ current[r] \notin aborted

\* The last start of a run in its log.
LastStart(r) ==
  CHOOSE i \in 1..Len(log[r]) :
    log[r][i] = "started" /\ \A j \in (i + 1)..Len(log[r]) : log[r][j] # "started"

\* When the newest execution of a run is over, some event after its start says how:
\* also on the early returns of executeRun, which emit nothing themselves.
EndIsAnnounced ==
  \A r \in Run :
    current[r] # NoExec /\ ~Live(current[r]) =>
      \E i \in LastStart(r)..Len(log[r]) :
        log[r][i] \in {"paused", "waiting", "failed", "completed"}

\* What a client is given is the run's log from the cursor on that the start told it,
\* however long it takes to subscribe: EventFeed, with a client's place derived from
\* the events still on their way to it.
NotReading == [run |-> NoRun, next |-> 0]

at ==
  [k \in Client |->
     CASE client[k].phase = "idle"  -> NotReading
       [] client[k].phase = "asked" -> [run |-> client[k].run, next |-> client[k].cursor + 1]
       [] client[k].phase = "reading" ->
            [run |-> client[k].run,
             next |-> Len(log[client[k].run]) + 1 - Len(client[k].queue)]]

last == [k \in Client |-> client[k].last]

Feed == INSTANCE EventFeed WITH
          Run <- Run, Client <- Client, EventType <- EventType, NoEvent <- NoEvent,
          NotReading <- NotReading, log <- log, at <- at, last <- last

ImplementsEventFeed == Feed!Spec

\* A client that reads a run which was completed or cancelled stops reading: the
\* terminal event lies after its cursor, whenever it asked and subscribed.
Unreleased(k, r) ==
  client[k].phase = "reading" /\ client[k].run = r /\ record[r] \in {"completed", "cancelled"}

ReaderIsReleased == \A k \in Client, r \in Run : Unreleased(k, r) ~> client[k].phase # "reading"

-----------------------------------------------------------------------------
(* What a test promises and the code does not do.                          *)

\* Starting an active run again is idempotent: a run never has two executions at
\* work that nobody asked to stop.
OneActiveExecution ==
  \A e, f \in Exec \ aborted :
    Live(e) /\ Live(f) /\ exec[e].run = exec[f].run => e = f
=============================================================================
