---------------------------- MODULE SessionStream ----------------------------
(***************************************************************************)
(* The live picture of one browser session.  Its runner sends frames over  *)
(* a WebSocket (api/websocket.py); ConnectionManager keeps the newest,     *)
(* sends it to the devices that subscribed, and puts it into the queues of *)
(* those who watch over a socket or an event stream of their own           *)
(* (api/browser/session_stream_routes.py).                                 *)
(*                                                                         *)
(* One step is the code between two awaits that give the event loop away:  *)
(* a close, a send, a receive, the wait for the queue.                     *)
(***************************************************************************)
EXTENDS Naturals, Sequences

CONSTANTS
  Source,      \* WebSockets of the session's runner, one after another
  Watcher,     \* devices that subscribe (session_stream_subscribe)
  Viewer,      \* views with a queue of their own
  Object,      \* the sets of subscribers the program makes
  MaxFrame,
  NoSource, NoObject

VARIABLES
  conn,      \* _runner_connections[runner]; _runner_sessions has the runner just as long
  source,    \* the endpoint of each socket, and the frame it broadcasts
  latest,    \* _latest_session_frames: the number of the newest frame
  entry,     \* the set _session_subscribers has for the session
  members,   \* what is in each set
  viewer,
  told,      \* history: watchers whose last answer was "subscribed" and that no send failed
  orphaned,  \* history: those of them whose set was dropped by the end of an old broadcast
  lastPut    \* history: the frame put into the queues last

vars == <<conn, source, latest, entry, members, viewer, told, orphaned, lastPut>>

Frame == 1..MaxFrame

Endpoint ==
  [at : {"new", "replace", "serve", "cast", "ping", "close", "end"}, up : BOOLEAN,
   frame : 0..MaxFrame, subs : Object \cup {NoObject}, to : SUBSET Watcher]

\* A view over the WebSocket route or the event stream: closed, before it reads the newest
\* frame, while it sends that, or in its loop.
View ==
  [at : {"off", "hello", "first", "loop"}, way : {"socket", "stream"}, listens : BOOLEAN,
   queue : Seq(Frame), shown : 0..MaxFrame]

Off == [at |-> "off", way |-> "socket", listens |-> FALSE, queue |-> <<>>, shown |-> 0]

TypeOK ==
  /\ conn \in Source \cup {NoSource}
  /\ source \in [Source -> Endpoint]
  /\ latest \in 0..MaxFrame /\ lastPut \in 0..MaxFrame
  /\ entry \in Object \cup {NoObject}
  /\ members \in [Object -> SUBSET Watcher]
  /\ viewer \in [Viewer -> View]
  /\ told \subseteq Watcher /\ orphaned \subseteq told

Init ==
  /\ conn = NoSource
  /\ source = [s \in Source |-> [at |-> "new", up |-> TRUE, frame |-> 0,
                                 subs |-> NoObject, to |-> {}]]
  /\ latest = 0 /\ lastPut = 0
  /\ entry = NoObject
  /\ members = [o \in Object |-> {}]
  /\ viewer = [v \in Viewer |-> Off]
  /\ told = {} /\ orphaned = {}

-----------------------------------------------------------------------------
(* The runner's endpoint.                                                  *)

frames  == <<latest, entry, members, viewer, told, orphaned, lastPut>>

Goes(s, place) == source' = [source EXCEPT ![s].at = place, ![s].up = @ /\ place # "end"]

\* connect_runner closes the socket that is there first.
Connect(s) ==
  /\ source[s].at = "new"
  /\ IF conn = NoSource
     THEN Goes(s, "serve") /\ conn' = s
     ELSE /\ source' = [source EXCEPT ![s].at = "replace", ![conn].up = FALSE]
          /\ UNCHANGED conn
  /\ UNCHANGED frames

Replace(s) ==
  /\ source[s].at = "replace"
  /\ Goes(s, "serve") /\ conn' = s
  /\ UNCHANGED frames

Break(s) ==
  /\ source[s].at \notin {"new", "end"} /\ source[s].up
  /\ source' = [source EXCEPT ![s].up = FALSE]
  /\ UNCHANGED <<conn, frames>>

\* Nothing was received for 25 s: the runner is pinged, over its present socket.
Idle(s) ==
  /\ source[s].at = "serve" /\ source[s].up
  /\ Goes(s, IF conn = NoSource THEN "close" ELSE "ping")
  /\ UNCHANGED <<conn, frames>>

\* The ping was sent, to a runner that was heard of lately or not; the send timed out,
\* perhaps for the third time; or it failed in any other way.
Pinged(s) ==
  /\ source[s].at = "ping"
  /\ \/ Goes(s, "serve") /\ UNCHANGED conn
     \/ Goes(s, "close") /\ conn' \in {conn, NoSource}
  /\ UNCHANGED frames

\* The socket is gone, a frame's handling failed, or the endpoint closes it: the finally
\* disconnects the runner, whoever its connection belongs to by now.
End(s) ==
  /\ \/ source[s].at = "serve"
     \/ source[s].at = "close"
  /\ Goes(s, "end")
  /\ conn' = NoSource
  /\ UNCHANGED frames

-----------------------------------------------------------------------------
(* broadcast_session_frame.                                                *)

Put(f) ==
  /\ viewer' = [v \in Viewer |->
       IF viewer[v].listens THEN [viewer[v] EXCEPT !.queue = Append(@, f)] ELSE viewer[v]]
  /\ lastPut' = f

\* The frame is the newest at once; without subscribers nothing is awaited.
Cast(s) ==
  LET f == latest + 1 IN
    /\ source[s].at = "serve" /\ source[s].up /\ f \in Frame
    /\ latest' = f
    /\ IF entry = NoObject
       THEN Put(f) /\ UNCHANGED source
       ELSE /\ source' = [source EXCEPT ![s].at = "cast", ![s].frame = f, ![s].subs = entry,
                                        ![s].to = members[entry]]
            /\ UNCHANGED <<viewer, lastPut>>
    /\ UNCHANGED <<conn, entry, members, told, orphaned>>

\* Mutant: whoever the frame was sent to leaves.
StaysUnsent(s, failed) == members[source[s].subs] \ source[s].to

Stays(s, failed) == members[source[s].subs] \ failed

\* All sends are over: those that failed leave the set the broadcast began with, and if that
\* is empty by now, the session's entry goes, be it another set.
CastEnds(s, failed) ==
  LET o == source[s].subs  left == Stays(s, failed) IN
    /\ source[s].at = "cast" /\ failed \subseteq source[s].to
    /\ members' = [members EXCEPT ![o] = left]
    /\ entry' = IF left = {} THEN NoObject ELSE entry
    /\ told' = told \ failed
    /\ orphaned' = (orphaned \cup IF left = {} /\ entry \notin {o, NoObject}
                                  THEN members[entry] ELSE {}) \cap told'
    /\ Put(source[s].frame)
    /\ source' = [source EXCEPT ![s].at = "serve", ![s].frame = 0,
                                ![s].subs = NoObject, ![s].to = {}]
    /\ UNCHANGED <<conn, latest>>

-----------------------------------------------------------------------------
(* Devices.                                                                *)

others == <<conn, source, latest, viewer, lastPut>>

InUse(o) == o = entry \/ \E s \in Source : source[s].subs = o

Subscribe(w) ==
  /\ IF entry # NoObject
     THEN members' = [members EXCEPT ![entry] = @ \cup {w}] /\ UNCHANGED entry
     ELSE /\ entry' = CHOOSE o \in Object : ~InUse(o)
          /\ members' = [members EXCEPT ![entry'] = {w}]
  /\ told' = told \cup {w}
  /\ orphaned' = orphaned \ {w}
  /\ UNCHANGED others

Unsubscribe(w) ==
  /\ entry # NoObject
  /\ members' = [members EXCEPT ![entry] = @ \ {w}]
  /\ entry' = IF members'[entry] = {} THEN NoObject ELSE entry
  /\ told' = told \ {w} /\ orphaned' = orphaned \ {w}
  /\ UNCHANGED others

-----------------------------------------------------------------------------
(* Views.                                                                  *)

rest == <<conn, source, latest, entry, members, told, orphaned, lastPut>>

\* The WebSocket route subscribes its queue and then creates the task that sends; the event
\* stream sends the newest frame first.
Join(v) ==
  /\ viewer[v].at = "off"
  /\ viewer' = [viewer EXCEPT ![v] = [Off EXCEPT !.at = "hello", !.listens = TRUE]]
  /\ UNCHANGED rest

JoinStream(v) ==
  LET new == [Off EXCEPT !.way = "stream", !.shown = latest] IN
    /\ viewer[v].at = "off"
    /\ viewer' = [viewer EXCEPT ![v] =
         IF latest = 0 THEN [new EXCEPT !.at = "loop", !.listens = TRUE]
         ELSE [new EXCEPT !.at = "first"]]
    /\ UNCHANGED rest

Hello(v) ==
  /\ viewer[v].at = "hello"
  /\ viewer' = [viewer EXCEPT ![v].at = IF latest = 0 THEN "loop" ELSE "first", ![v].shown = latest]
  /\ UNCHANGED rest

FirstSent(v) ==
  /\ viewer[v].at = "first"
  /\ viewer' = [viewer EXCEPT ![v].at = "loop", ![v].listens = TRUE]
  /\ UNCHANGED rest

Take(v) ==
  /\ viewer[v].at = "loop" /\ viewer[v].queue # <<>>
  /\ viewer' = [viewer EXCEPT ![v].shown = Head(viewer[v].queue), ![v].queue = Tail(@)]
  /\ UNCHANGED rest

\* The client left: the finally unsubscribes the queue.
Leave(v) ==
  /\ viewer[v].at # "off"
  /\ viewer' = [viewer EXCEPT ![v] = Off]
  /\ UNCHANGED rest

-----------------------------------------------------------------------------
Watches(v) == Hello(v) \/ FirstSent(v) \/ Take(v)

CastOver(s) == \E failed \in SUBSET Watcher : CastEnds(s, failed)

Proceed(s) == Replace(s) \/ Pinged(s) \/ CastOver(s) \/ (End(s) /\ ~source[s].up)

Next ==
  \/ \E s \in Source :
       Connect(s) \/ Replace(s) \/ Break(s) \/ Idle(s) \/ Pinged(s) \/ End(s) \/ Cast(s) \/ CastOver(s)
  \/ \E w \in Watcher : Subscribe(w) \/ Unsubscribe(w)
  \/ \E v \in Viewer : Join(v) \/ JoinStream(v) \/ Watches(v) \/ Leave(v)

Spec == Init /\ [][Next]_vars

\* The event loop runs what is ready, and a send or a close ends (8 s at most).
Fairness ==
  /\ \A s \in Source : WF_vars(Proceed(s))
  /\ \A v \in Viewer : WF_vars(Watches(v))

FairSpec == Spec /\ Fairness

-----------------------------------------------------------------------------
(* Properties                                                              *)

\* The table has no entry without subscribers, though subscriptions come and go and sends
\* fail while broadcasts are under way.
EntryHasWatchers == entry # NoObject => members[entry] # {}

\* A device that was told it is subscribed, and that no send failed, is in the session's
\* set, unless the end of an older broadcast dropped that (see CastEnds).
WatcherIsKept ==
  \A w \in told \ orphaned : entry # NoObject /\ w \in members[entry]

\* A view over the WebSocket route comes to show the last frame that was broadcast, whenever
\* it joined.  (The event stream subscribes its queue too late for that.)
Misses(v) == viewer[v].at # "off" /\ viewer[v].way = "socket" /\ lastPut = MaxFrame

LastFrameIsShown ==
  \A v \in Viewer : Misses(v) ~> (viewer[v].at = "off" \/ viewer[v].shown = MaxFrame)

\* A runner's connection that broke does not stay registered for ever, where requests would
\* be sent to it.
DeadRunner(s) == conn = s /\ ~source[s].up

DeadRunnerLeaves == \A s \in Source : DeadRunner(s) ~> conn # s
=============================================================================
