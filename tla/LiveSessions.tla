---------------------------- MODULE LiveSessions ----------------------------
(***************************************************************************)
(* Live voice sessions (api/live_sessions.py): a device may have one, kept *)
(* under a key that its client may choose; its receiver task pumps what    *)
(* the external model says to the device.  Sessions are started and        *)
(* stopped by frames of a device's endpoint (api/websocket_frames.py) and  *)
(* stopped by the end of that endpoint (DeviceSockets).                    *)
(*                                                                         *)
(* _lock is held across an await only while a session starts; everything   *)
(* else that takes it does so in one step, but may have to wait for it: an *)
(* asyncio lock, which serves those who wait in the order they came.       *)
(***************************************************************************)
EXTENDS SequencesExt

CONSTANTS
  Device, Endpoint,
  Pump,       \* receiver tasks, each with the live connection it reads
  Key,
  KeysOf,     \* the keys the clients of a device use
  NoPump, NoKey, NoEndpoint

VARIABLES
  sessions,   \* _sessions: the receiver task of the record under a key
  bound,      \* _device_to_session
  holder,     \* the endpoint that starts a session and holds _lock
  waiting,    \* endpoints and pumps that wait for _lock
  endpoint,
  pump,
  overlapped  \* history: devices that had two endpoints at a time

vars == <<sessions, bound, holder, waiting, endpoint, pump, overlapped>>

\* An endpoint waits for _lock to start or stop a session (askstart, askstop), starts one,
\* waits for a cancelled pump (join), or reads its next frame (open).  `last`: this is its
\* finally.
EndpointState ==
  [at : {"new", "open", "askstart", "start", "askstop", "join", "gone"},
   dev : Device, key : Key \cup {NoKey}, pump : Pump \cup {NoPump}, last : BOOLEAN]

\* A pump runs, waits for _lock in its finally (unlink), or is over; a cancellation is
\* asked for first and told the pump at its next step.
PumpState ==
  [at : {"none", "run", "unlink", "over"}, dev : Device, key : Key \cup {NoKey},
   cancel : {"no", "asked", "told"}]

TypeOK ==
  /\ sessions \in [Key -> Pump \cup {NoPump}]
  /\ bound \in [Device -> Key \cup {NoKey}]
  /\ holder \in Endpoint \cup {NoEndpoint}
  /\ waiting \in Seq(Endpoint \cup Pump)
  /\ endpoint \in [Endpoint -> EndpointState]
  /\ pump \in [Pump -> PumpState]
  /\ overlapped \subseteq Device

Init ==
  /\ sessions = [k \in Key |-> NoPump]
  /\ bound = [d \in Device |-> NoKey]
  /\ holder = NoEndpoint
  /\ waiting = <<>>
  /\ endpoint \in [Endpoint -> {[at |-> "new", dev |-> d, key |-> NoKey, pump |-> NoPump,
                                 last |-> FALSE] : d \in Device}]
  /\ pump = [p \in Pump |-> [at |-> "none", dev |-> CHOOSE d \in Device : TRUE,
                             key |-> NoKey, cancel |-> "no"]]
  /\ overlapped = {}

Asks(x) == waiting' = Append(waiting, x)

\* x is the first to wait for _lock, which is free.
Gets(x) ==
  /\ holder = NoEndpoint /\ waiting # <<>> /\ Head(waiting) = x
  /\ waiting' = Tail(waiting)

Serves(e, d) == endpoint[e].dev = d /\ endpoint[e].at \notin {"new", "gone"}

\* A handler is done: the endpoint reads on, or ends if this was its finally.
Done(e) ==
  endpoint' = [endpoint EXCEPT ![e].at = IF endpoint[e].last THEN "gone" ELSE "open",
                               ![e].key = NoKey, ![e].pump = NoPump]

\* stop_session_for_device and the stop frame look the key up before they ask for _lock.
LookUp(e, last) ==
  LET k == bound[endpoint[e].dev] IN
    /\ endpoint' = [endpoint EXCEPT
         ![e].last = last,
         ![e].key = k,
         ![e].at = IF k # NoKey THEN "askstop" ELSE IF last THEN "gone" ELSE "open"]
    /\ IF k # NoKey THEN Asks(e) ELSE UNCHANGED waiting

-----------------------------------------------------------------------------
(* The endpoint.                                                           *)

\* connect.
Open(e) ==
  LET d == endpoint[e].dev IN
    /\ endpoint[e].at = "new"
    /\ endpoint' = [endpoint EXCEPT ![e].at = "open"]
    /\ overlapped' = IF \E f \in Endpoint : Serves(f, d) THEN overlapped \cup {d} ELSE overlapped
    /\ UNCHANGED <<sessions, bound, holder, waiting, pump>>

StartFrame(e, k) ==
  /\ endpoint[e].at = "open" /\ k \in KeysOf[endpoint[e].dev]
  /\ endpoint' = [endpoint EXCEPT ![e].at = "askstart", ![e].key = k]
  /\ Asks(e)
  /\ UNCHANGED <<sessions, bound, holder, pump, overlapped>>

\* Under _lock: the device's session is there already, or a live connection is opened.
BeginStart(e) ==
  LET k == bound[endpoint[e].dev] IN
    /\ endpoint[e].at = "askstart" /\ Gets(e)
    /\ IF k # NoKey /\ sessions[k] # NoPump
       THEN Done(e) /\ UNCHANGED holder
       ELSE /\ endpoint' = [endpoint EXCEPT ![e].at = "start"]
            /\ holder' = e
    /\ UNCHANGED <<sessions, bound, pump, overlapped>>

\* The pump is created and the session recorded under its key.
Started(e, p) ==
  LET d == endpoint[e].dev  k == endpoint[e].key IN
    /\ endpoint[e].at = "start" /\ pump[p].at = "none"
    /\ pump' = [pump EXCEPT ![p].at = "run", ![p].dev = d, ![p].key = k]
    /\ sessions' = [sessions EXCEPT ![k] = p]
    /\ bound' = [bound EXCEPT ![d] = k]
    /\ holder' = NoEndpoint
    /\ Done(e)
    /\ UNCHANGED <<waiting, overlapped>>

\* No model is available: a RuntimeError, which ends the endpoint.  Any other failure is
\* answered, and the endpoint reads on.
StartFails(e) ==
  /\ endpoint[e].at = "start"
  /\ holder' = NoEndpoint
  /\ LookUp(e, TRUE) \/ (Done(e) /\ UNCHANGED waiting)
  /\ UNCHANGED <<sessions, bound, pump, overlapped>>

\* Mutant: the endpoint ends without a look at the device's session.
EndBare(e) ==
  /\ endpoint[e].at = "open"
  /\ endpoint' = [endpoint EXCEPT ![e].at = "gone"]
  /\ UNCHANGED <<sessions, bound, holder, waiting, pump, overlapped>>

\* The socket is closed, or a frame fails: audio or text without a session is a
\* RuntimeError too.
End(e) ==
  /\ endpoint[e].at = "open"
  /\ LookUp(e, TRUE)
  /\ UNCHANGED <<sessions, bound, holder, pump, overlapped>>

StopFrame(e) ==
  /\ endpoint[e].at = "open" /\ bound[endpoint[e].dev] # NoKey
  /\ LookUp(e, FALSE)
  /\ UNCHANGED <<sessions, bound, holder, pump, overlapped>>

\* stop_session: the record goes under _lock, then its pump is cancelled.
Stop(e) ==
  LET p == sessions[endpoint[e].key] IN
    /\ endpoint[e].at = "askstop" /\ Gets(e)
    /\ IF p = NoPump
       THEN Done(e) /\ UNCHANGED <<sessions, bound, pump>>
       ELSE /\ sessions' = [sessions EXCEPT ![endpoint[e].key] = NoPump]
            /\ bound' = [bound EXCEPT ![pump[p].dev] = NoKey]
            /\ pump' = [pump EXCEPT ![p].cancel = "asked"]
            /\ endpoint' = [endpoint EXCEPT ![e].at = "join", ![e].pump = p]
    /\ UNCHANGED <<holder, overlapped>>

\* The pump is over; its live connection is closed.
Joined(e) ==
  /\ endpoint[e].at = "join" /\ pump[endpoint[e].pump].at = "over"
  /\ Done(e)
  /\ UNCHANGED <<sessions, bound, holder, waiting, pump, overlapped>>

-----------------------------------------------------------------------------
(* The pump.                                                               *)

\* A receive, a send or a tool call failed, or the cancellation arrives: on to the finally.
PumpFails(p) ==
  /\ pump[p].at = "run"
  /\ pump' = [pump EXCEPT ![p].at = "unlink",
                          ![p].cancel = IF @ = "asked" THEN "told" ELSE @]
  /\ Asks(p)
  /\ UNCHANGED <<sessions, bound, holder, endpoint, overlapped>>

\* A cancellation that comes later ends the wait for _lock in the finally.
PumpCancelled(p) ==
  /\ pump[p].at = "unlink" /\ pump[p].cancel = "asked" /\ holder # NoEndpoint
  /\ pump' = [pump EXCEPT ![p].at = "over"]
  /\ \E i \in DOMAIN waiting : waiting[i] = p /\ waiting' = RemoveAt(waiting, i)
  /\ UNCHANGED <<sessions, bound, holder, endpoint, overlapped>>

\* The finally removes whatever session of the device the key names now.
Unlink(p) ==
  LET q == sessions[pump[p].key] IN
    /\ pump[p].at = "unlink" /\ Gets(p)
    /\ pump' = [pump EXCEPT ![p].at = "over"]
    /\ IF q # NoPump /\ pump[q].dev = pump[p].dev
       THEN /\ sessions' = [sessions EXCEPT ![pump[p].key] = NoPump]
            /\ bound' = [bound EXCEPT ![pump[p].dev] = NoKey]
       ELSE UNCHANGED <<sessions, bound>>
    /\ UNCHANGED <<holder, endpoint, overlapped>>

-----------------------------------------------------------------------------
Proceed(e) == BeginStart(e) \/ StartFails(e) \/ (\E p \in Pump : Started(e, p)) \/ Stop(e) \/ Joined(e)

Next ==
  \/ \E e \in Endpoint :
       \/ Open(e) \/ StopFrame(e) \/ End(e) \/ Proceed(e)
       \/ \E k \in Key : StartFrame(e, k)
  \/ \E p \in Pump : PumpFails(p) \/ PumpCancelled(p) \/ Unlink(p)

Spec == Init /\ [][Next]_vars

PumpEnds(p) == (pump[p].cancel = "asked" /\ PumpFails(p)) \/ PumpCancelled(p) \/ Unlink(p)

\* The event loop runs endpoints and cancelled pumps, and starting a session ends.
Fairness ==
  /\ \A e \in Endpoint : WF_vars(Proceed(e))
  /\ \A p \in Pump : WF_vars(PumpEnds(p))

FairSpec == Spec /\ Fairness

-----------------------------------------------------------------------------
(* Properties                                                              *)

\* A session's record and its device's entry name each other, though starts, stops and
\* ends of pumps remove them by key (as long as devices do not share keys).
BindingIsMutual ==
  /\ \A d \in Device :
       bound[d] # NoKey => sessions[bound[d]] # NoPump /\ pump[sessions[bound[d]]].dev = d
  /\ \A k \in Key : sessions[k] # NoPump => bound[pump[sessions[k]].dev] = k

\* A recorded session has an endpoint of its device left that will stop it: one whose
\* finally is to come, or has looked the session's key up.
SessionHasEndpoint ==
  \A k \in Key :
    sessions[k] # NoPump =>
      \E e \in Endpoint :
        /\ Serves(e, pump[sessions[k]].dev)
        /\ ~endpoint[e].last \/ (endpoint[e].at = "askstop" /\ endpoint[e].key = k)

\* A pump that nobody cancelled is on record, so that a stop finds it, unless endpoints of
\* its device overlapped.
RunningPumpIsKnown ==
  \A p \in Pump :
    pump[p].at = "run" /\ pump[p].cancel = "no" /\ pump[p].dev \notin overlapped
      => sessions[pump[p].key] = p

\* The end of an endpoint is not held up for ever: by _lock, or by a pump that waits for
\* _lock itself.
EndpointEnds == \A e \in Endpoint : endpoint[e].last ~> endpoint[e].at = "gone"
=============================================================================
