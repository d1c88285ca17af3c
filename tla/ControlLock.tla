----------------------------- MODULE ControlLock -----------------------------
(***************************************************************************)
(* Who controls a browser session: the controller lock of                  *)
(* automation/sessions/manager.py, the handlers of                         *)
(* api/browser/session_stream_routes.py that take, release and use it, the *)
(* runner's heartbeat, which writes the same row, and what taking and      *)
(* releasing do to the session's run (automation/run_service.py).          *)
(*                                                                         *)
(* One session.  A step is a store call with the code up to the next one.  *)
(* With Firestore any other step may come between two of them; with the    *)
(* local store a handler gives the event loop away only while an input is  *)
(* sent to the runner.                                                     *)
(***************************************************************************)
EXTENDS Naturals

CONSTANTS
  Actor,       \* actor ids
  Slot,        \* requests that may be in progress at once
  Priority,    \* the priorities a request may name
  Ttl,         \* the ttl_seconds it may name, in ticks of the clock
  TouchTtl,    \* touch_control's default
  MaxTime,     \* bound: the clock stops here
  LocalStore,  \* the JSON store instead of Firestore?
  NoLock, NoActor

Lock == [holder : Actor, expires : Nat, priority : Priority]

ASSUME SentinelAssumption == NoLock \notin Lock /\ NoActor \notin Actor
ASSUME TimeAssumption == MaxTime \in Nat /\ Ttl \subseteq Nat \ {0} /\ TouchTtl \in Nat \ {0}
ASSUME PriorityAssumption == Priority \subseteq Nat
ASSUME LocalAssumption == LocalStore \in BOOLEAN

VARIABLES
  now,      \* the clock
  lock,     \* the row's controller_lock
  run,      \* the session's newest run that may be taken over, or is
  request,  \* what each request is about to do
  granted   \* history: the lock each actor was last told it holds, NoLock once it
            \* released it or somebody of higher priority took it

vars == <<now, lock, run, request, granted>>

(* A request calls get_session itself ("route"), then the manager does ("manager").     *)
(* Behind each: get, clear (the update of _normalize_lock), and write.  A heartbeat     *)
(* goes on to copy the row and paste it; the others to the run or to the runner.        *)
Idle == [at |-> "idle", stage |-> "route", op |-> "none", by |-> NoActor, seen |-> NoLock,
         new |-> NoLock, priority |-> 0, ttl |-> 0]

Request ==
  [at : {"idle", "get", "clear", "write", "copy", "paste", "takeover", "resume", "send"},
   stage : {"route", "manager"},
   op : {"none", "acquire", "release", "input", "heartbeat"},
   by : Actor \cup {NoActor},
   seen : Lock \cup {NoLock},   \* the lock in the row the heartbeat read
   new : Lock \cup {NoLock},    \* the lock about to be written
   priority : Nat, ttl : Nat]

RunState == {"candidate", "human_controlling", "other"}

TypeOK ==
  /\ now \in 0..MaxTime
  /\ lock \in Lock \cup {NoLock}
  /\ run \in RunState
  /\ request \in [Slot -> Request]
  /\ granted \in [Actor -> Lock \cup {NoLock}]

Init ==
  /\ now = 0
  /\ lock = NoLock
  /\ run \in {"candidate", "other"}
  /\ request = [s \in Slot |-> Idle]
  /\ granted = [a \in Actor |-> NoLock]

-----------------------------------------------------------------------------
Live(l) == l # NoLock /\ l.expires > now

\* With the local store nobody interrupts a request, unless it is sending.
Turn(s) == LocalStore => \A t \in Slot \ {s} : request[t].at \in {"idle", "send"}

Begin(s, op, a, priority, ttl) ==
  /\ request[s] = Idle /\ Turn(s)
  /\ request' = [request EXCEPT ![s] = [Idle EXCEPT !.at = "get", !.op = op, !.by = a,
                                                    !.priority = priority, !.ttl = ttl]]
  /\ UNCHANGED <<now, lock, run>>

AcquireControl(s, a) ==
  /\ \E priority \in Priority : \E ttl \in Ttl : Begin(s, "acquire", a, priority, ttl)
  /\ UNCHANGED granted

ReleaseControl(s, a) ==
  /\ Begin(s, "release", a, 0, 0)
  /\ granted' = [granted EXCEPT ![a] = NoLock]

SendInput(s, a) == Begin(s, "input", a, 0, 0) /\ UNCHANGED granted

Heartbeat(s) == Begin(s, "heartbeat", NoActor, 0, 0) /\ UNCHANGED granted

-----------------------------------------------------------------------------
(* Behind get_session, which returned the lock l                           *)

\* The handler's own: the lock is what an input needs.
Routed(r, l) ==
  CASE r.op \in {"acquire", "release"} -> [r EXCEPT !.at = "get", !.stage = "manager"]
    [] r.op = "input" -> IF l # NoLock /\ l.holder = r.by THEN [r EXCEPT !.at = "send"] ELSE Idle
    [] r.op = "heartbeat" -> [r EXCEPT !.at = "copy"]

\* Mutant: a lock gives way to one of the same priority.
AcquiresFromEqual(r, l) ==
  IF l = NoLock \/ l.holder = r.by \/ l.priority <= r.priority
  THEN [r EXCEPT !.at = "write", !.new = [holder |-> r.by, expires |-> now + r.ttl,
                                          priority |-> r.priority]]
  ELSE Idle

\* acquire_control: free, one's own, or of lower priority.  A renewal keeps the higher
\* of its two priorities.
Acquires(r, l) ==
  IF l = NoLock \/ l.holder = r.by \/ l.priority < r.priority
  THEN [r EXCEPT !.at = "write",
                 !.new = [holder |-> r.by, expires |-> now + r.ttl,
                          priority |-> IF l # NoLock /\ l.holder = r.by /\ l.priority > r.priority
                                       THEN l.priority ELSE r.priority]]
  ELSE Idle

\* release_control writes for the holder only; the handler goes on to the run anyway.
Releases(r, l) ==
  IF l # NoLock /\ l.holder = r.by THEN [r EXCEPT !.at = "write"] ELSE [r EXCEPT !.at = "resume"]

\* Mutant: touch_control does not look whose lock it is.
TouchesAny(r, l) ==
  IF l # NoLock
  THEN [r EXCEPT !.at = "write", !.new = [l EXCEPT !.expires = now + TouchTtl, !.holder = r.by]]
  ELSE Idle

\* touch_control
Touches(r, l) ==
  IF l # NoLock /\ l.holder = r.by
  THEN [r EXCEPT !.at = "write", !.new = [l EXCEPT !.expires = now + TouchTtl]]
  ELSE Idle

Behind(r, l) ==
  CASE r.stage = "route" -> Routed(r, l)
    [] r.stage = "manager" /\ r.op = "acquire" -> Acquires(r, l)
    [] r.stage = "manager" /\ r.op = "release" -> Releases(r, l)
    [] r.stage = "manager" /\ r.op = "input" -> Touches(r, l)

GetSession(s) ==
  /\ request[s].at = "get" /\ Turn(s)
  /\ request' = [request EXCEPT ![s] = IF lock = NoLock \/ Live(lock)
                                       THEN Behind(@, lock) ELSE [@ EXCEPT !.at = "clear"]]
  /\ UNCHANGED <<now, lock, run, granted>>

\* _normalize_lock found the lock expired and clears whatever is there now.
NormalizeLock(s) ==
  /\ request[s].at = "clear" /\ Turn(s)
  /\ lock' = NoLock
  /\ request' = [request EXCEPT ![s] = Behind(@, NoLock)]
  /\ UNCHANGED <<now, run, granted>>

\* What everybody has been told once the lock l is written for its new holder.
Told(l) ==
  [a \in Actor |-> IF a = l.holder THEN l
                   ELSE IF granted[a] # NoLock /\ granted[a].priority < l.priority THEN NoLock
                   ELSE granted[a]]

UpdateSession(s) ==
  LET r == request[s] IN
  /\ r.at = "write" /\ Turn(s)
  /\ lock' = r.new
  /\ granted' = IF r.op = "release" THEN granted ELSE Told(r.new)
  /\ request' = [request EXCEPT ![s] = CASE r.op = "acquire" -> [r EXCEPT !.at = "takeover"]
                                         [] r.op = "release" -> [r EXCEPT !.at = "resume"]
                                         [] r.op = "input" -> Idle]
  /\ UNCHANGED <<now, run>>

\* The heartbeat writes the row back as it read it, the lock included.
CopyRow(s) ==
  /\ request[s].at = "copy" /\ Turn(s)
  /\ request' = [request EXCEPT ![s].at = "paste", ![s].seen = lock]
  /\ UNCHANGED <<now, lock, run, granted>>

PasteRow(s) ==
  /\ request[s].at = "paste" /\ Turn(s)
  /\ lock' = request[s].seen
  /\ request' = [request EXCEPT ![s] = Idle]
  /\ UNCHANGED <<now, run, granted>>

-----------------------------------------------------------------------------
(* What happens behind the lock                                            *)

\* Mutant: the run is written as the event that announces the takeover names it.
TakeOverPaused(s) ==
  /\ request[s].at = "takeover" /\ Turn(s)
  /\ run' = IF run = "candidate" THEN "paused" ELSE run
  /\ request' = [request EXCEPT ![s] = Idle]
  /\ UNCHANGED <<now, lock, granted>>

\* mark_browser_session_human_control
TakeOver(s) ==
  /\ request[s].at = "takeover" /\ Turn(s)
  /\ run' = IF run = "candidate" THEN "human_controlling" ELSE run
  /\ request' = [request EXCEPT ![s] = Idle]
  /\ UNCHANGED <<now, lock, granted>>

\* release_browser_session_human_control: reconciled and started again.
ResumeRun(s) ==
  /\ request[s].at = "resume" /\ Turn(s)
  /\ run' = IF run = "human_controlling" THEN "other" ELSE run
  /\ request' = [request EXCEPT ![s] = Idle]
  /\ UNCHANGED <<now, lock, granted>>

\* The runner was sent the input, or cannot be reached; a move or scroll soon after the
\* last one does not touch the lock.
InputSent(s) ==
  /\ request[s].at = "send" /\ Turn(s)
  /\ request' \in {[request EXCEPT ![s] = Idle],
                   [request EXCEPT ![s].at = "get", ![s].stage = "manager"]}
  /\ UNCHANGED <<now, lock, run, granted>>

\* Executor and user move the session's runs between the states that may be taken over
\* and the others, and out of human control.
RunMoves ==
  /\ run' \in {"candidate", "other"} \ {run}
  /\ UNCHANGED <<now, lock, request, granted>>

Tick ==
  /\ now < MaxTime
  /\ now' = now + 1
  /\ UNCHANGED <<lock, run, request, granted>>

Proceed(s) ==
  \/ GetSession(s) \/ NormalizeLock(s) \/ UpdateSession(s) \/ CopyRow(s) \/ PasteRow(s)
  \/ TakeOver(s) \/ ResumeRun(s) \/ InputSent(s)

Next ==
  \/ \E s \in Slot : \/ \E a \in Actor : AcquireControl(s, a) \/ ReleaseControl(s, a) \/ SendInput(s, a)
                     \/ Heartbeat(s)
                     \/ Proceed(s)
  \/ RunMoves
  \/ Tick

Spec == Init /\ [][Next]_vars

-----------------------------------------------------------------------------
(* Properties                                                              *)

\* An actor that was granted control and neither released it nor was outranked has it
\* until it expires: the row's lock is the one it was told.
GrantIsLock == \A a \in Actor : Live(granted[a]) => lock = granted[a]

\* No two actors are told at the same time that they control the session ("Only one
\* controller at a time").
OneController == \A a, b \in Actor : Live(granted[a]) /\ Live(granted[b]) => a = b
=============================================================================
