---------------------------- MODULE DeviceSockets ----------------------------
(***************************************************************************)
(* The WebSockets of devices (extension, desktop, web and mobile clients)  *)
(* and the commands sent over them: the endpoint of api/websocket.py, one  *)
(* coroutine per socket, and the tables of ConnectionManager, keyed by the *)
(* device.  A socket that connects for a device replaces the one before    *)
(* it; nothing tells a replaced socket's endpoint so.                      *)
(*                                                                         *)
(* One step is the code between two awaits that give the event loop away:  *)
(* a close, a send (8 s at most), the wait for a command's result, the     *)
(* receive, and the stop of the device's live session (see LiveSessions).  *)
(***************************************************************************)

CONSTANTS
  Device,
  Socket,
  Command,     \* calls of send_command_and_wait, each with a cmd_id of its own
  Tab,         \* browser tabs a device may attach
  NoSocket

VARIABLES
  table,  \* the manager's dictionaries
  sock,   \* the endpoint of each socket
  cmd     \* the caller of each command

vars == <<table, sock, cmd>>

Future == {"none", "open", "answered", "broken"}

Table ==
  [conn : [Device -> Socket \cup {NoSocket}],  \* _connections, _device_users, _last_seen
   tabs : [Device -> SUBSET Tab],              \* _attached_targets
   pending : SUBSET (Device \X Command),       \* keys of _pending_results
   listed : [Device -> SUBSET Command],        \* _pending_cmds_by_device
   future : [Command -> Future]]

\* Endpoint: not there yet; closing the socket it replaces; in the receive loop; in the
\* send of a ping; closing itself; stopping the live session in its finally; over.
\* `up` says whether the transport is open, `via` which socket the ping went to.
Endpoint ==
  [at : {"new", "replace", "serve", "ping", "close", "stop", "end"},
   dev : Device, up : BOOLEAN, via : Socket \cup {NoSocket}]

Caller == [at : {"idle", "send", "wait", "done"}, dev : Device, via : Socket \cup {NoSocket}]

TypeOK ==
  /\ table \in Table
  /\ sock \in [Socket -> Endpoint]
  /\ cmd \in [Command -> Caller]

Init ==
  /\ table = [conn |-> [d \in Device |-> NoSocket],
              tabs |-> [d \in Device |-> {}], pending |-> {},
              listed |-> [d \in Device |-> {}], future |-> [c \in Command |-> "none"]]
  /\ sock \in [Socket -> {[at |-> "new", dev |-> d, up |-> TRUE, via |-> NoSocket] : d \in Device}]
  /\ cmd \in [Command -> {[at |-> "idle", dev |-> d, via |-> NoSocket] : d \in Device}]

-----------------------------------------------------------------------------
(* The manager's operations on its tables.                                 *)

\* disconnect: whatever socket the caller had in mind, the device's present one goes,
\* and every command that waits for the device fails.
Disconnected(t, d) ==
  LET waiting == {c \in t.listed[d] : <<d, c>> \in t.pending} IN
    [t EXCEPT !.conn[d] = NoSocket, !.tabs[d] = {}, !.listed[d] = {},
              !.pending = @ \ ({d} \X waiting),
              !.future = [c \in Command |-> IF c \in waiting /\ @[c] = "open"
                                            THEN "broken" ELSE @[c]]]

Installed(t, d, s) == [t EXCEPT !.conn[d] = s]

Unregistered(t, d, c) == [t EXCEPT !.pending = @ \ {<<d, c>>}, !.listed[d] = @ \ {c}]

\* The same when the caller returns, and its future is gone with it.
Forgotten(t, d, c) == [Unregistered(t, d, c) EXCEPT !.future[c] = "none"]

\* resolve_pending_result.
Resolved(t, d, c) ==
  IF <<d, c>> \notin t.pending THEN t
  ELSE IF t.future[c] = "open"
       THEN [Unregistered(t, d, c) EXCEPT !.future[c] = "answered"]
       ELSE [t EXCEPT !.pending = @ \ {<<d, c>>}]

\* How the send of send_to_device over socket s may end: in time; too late, perhaps for the
\* third time in a row; with the RuntimeError of a socket closed on this side; with the
\* exception of a connection that broke, which send_to_device does not catch.
Outcome(s) ==
  {"late", "third"} \cup (IF sock[s].up THEN {"sent"} ELSE {"closed", "raised"})

\* What send_to_device does afterwards; it acts on the device, not on the socket.
AfterSend(t, d, outcome) ==
  IF outcome \in {"third", "closed"} THEN Disconnected(t, d) ELSE t

-----------------------------------------------------------------------------
(* The endpoint.                                                           *)

Goes(s, place) ==
  sock' = [sock EXCEPT ![s].at = place, ![s].via = NoSocket,
                       ![s].up = @ /\ place # "end"]

\* connect: the first half closes the socket that is there, unless there is none.
Connect(s) ==
  LET old == table.conn[sock[s].dev] IN
    /\ sock[s].at = "new"
    /\ IF old = NoSocket
       THEN /\ Goes(s, "serve")
            /\ table' = Installed(table, sock[s].dev, s)
       ELSE /\ sock' = [sock EXCEPT ![s].at = "replace", ![old].up = FALSE]
            /\ UNCHANGED table
    /\ UNCHANGED cmd

\* Mutant: only a socket that is still there is disconnected.
ReplaceBare(s) ==
  /\ sock[s].at = "replace"
  /\ table' = Installed(table, sock[s].dev, s)
  /\ Goes(s, "serve")
  /\ UNCHANGED cmd

\* The close is over or failed: whoever is registered by now is replaced.
Replace(s) ==
  LET d == sock[s].dev IN
    /\ sock[s].at = "replace"
    /\ table' = Installed(Disconnected(table, d), d, s)
    /\ Goes(s, "serve")
    /\ UNCHANGED cmd

\* The client, or the network, closes the connection.
Break(s) ==
  /\ sock[s].at \notin {"new", "end"} /\ sock[s].up
  /\ sock' = [sock EXCEPT ![s].up = FALSE]
  /\ UNCHANGED <<table, cmd>>

\* Nothing was received for 25 s: the device is sent a ping, over whichever socket.
Idle(s) ==
  LET via == table.conn[sock[s].dev] IN
    /\ sock[s].at = "serve"
    /\ sock' = [sock EXCEPT ![s].at = IF via = NoSocket THEN "close" ELSE "ping", ![s].via = via]
    /\ UNCHANGED <<table, cmd>>

\* The ping was sent and the device was heard of in the last 75 s, or the socket is closed.
Pinged(s) ==
  /\ sock[s].at = "ping"
  /\ \E o \in Outcome(sock[s].via) :
       /\ table' = AfterSend(table, sock[s].dev, o)
       /\ CASE o = "sent" -> Goes(s, "serve") \/ Goes(s, "close")
            [] o = "raised" -> Goes(s, "stop")
            [] OTHER -> Goes(s, "close")
  /\ UNCHANGED cmd

\* websocket.close(1001), which fails if the socket was closed before.
Closed(s) ==
  /\ sock[s].at = "close"
  /\ sock' = [sock EXCEPT ![s].at = "stop", ![s].up = FALSE]
  /\ UNCHANGED <<table, cmd>>

\* The receive raises WebSocketDisconnect.
Gone(s) ==
  /\ sock[s].at = "serve" /\ ~sock[s].up
  /\ Goes(s, "stop")
  /\ UNCHANGED <<table, cmd>>

\* A frame whose handling fails (an int() of a tab id, an answer to a closed socket).
FrameFails(s) ==
  /\ sock[s].at = "serve" /\ sock[s].up
  /\ Goes(s, "stop")
  /\ UNCHANGED <<table, cmd>>

\* The rest of the finally, when the live session is stopped.
End(s) ==
  /\ sock[s].at = "stop"
  /\ Goes(s, "end")
  /\ table' = Disconnected(table, sock[s].dev)
  /\ UNCHANGED cmd

-----------------------------------------------------------------------------
(* Frames from the device that the manager keeps something of.             *)

\* extension_result: the answer to a command that was sent to the device, by whichever
\* of its sockets it comes, perhaps late or again.
Result(s, c) ==
  /\ sock[s].at = "serve" /\ sock[s].up
  /\ cmd[c].dev = sock[s].dev /\ cmd[c].via # NoSocket
  /\ table' = Resolved(table, sock[s].dev, c)
  /\ UNCHANGED <<sock, cmd>>

\* target_attached and target_detached; a detachment may name no tab and mean all.
Attach(s, tab) ==
  /\ sock[s].at = "serve" /\ sock[s].up
  /\ table' \in {[table EXCEPT !.tabs[sock[s].dev] = @ \cup {tab}],
                 [table EXCEPT !.tabs[sock[s].dev] = @ \ {tab}],
                 [table EXCEPT !.tabs[sock[s].dev] = {}]}
  /\ UNCHANGED <<sock, cmd>>

-----------------------------------------------------------------------------
(* send_command_and_wait.                                                  *)

Over(c) == [cmd EXCEPT ![c].at = "done", ![c].via = NoSocket]

\* Registered first, then sent; without a connection the answer is an error at once.
Issue(c) ==
  LET d == cmd[c].dev  via == table.conn[d] IN
    /\ cmd[c].at = "idle"
    /\ IF via = NoSocket
       THEN /\ cmd' = [cmd EXCEPT ![c].at = "done"]
            /\ UNCHANGED table
       ELSE /\ cmd' = [cmd EXCEPT ![c].at = "send", ![c].via = via]
            /\ table' = [table EXCEPT !.pending = @ \cup {<<d, c>>}, !.listed[d] = @ \cup {c},
                                      !.future[c] = "open"]
    /\ UNCHANGED sock

\* The send is over.  An exception of a broken connection leaves the command registered.
SendReturns(c) ==
  LET d == cmd[c].dev IN
    /\ cmd[c].at = "send"
    /\ \E o \in Outcome(cmd[c].via) :
         LET t == AfterSend(table, d, o) IN
           /\ table' = IF o \in {"sent", "raised"} THEN t ELSE Forgotten(t, d, c)
           /\ cmd' = IF o = "sent" THEN [cmd EXCEPT ![c].at = "wait"]
                     ELSE IF o = "raised" THEN [cmd EXCEPT ![c].at = "done"]
                     ELSE Over(c)
    /\ UNCHANGED sock

\* The future is decided, the timeout is over, or the caller is cancelled: the finally.
Returns(c) ==
  /\ cmd[c].at = "wait"
  /\ cmd' = Over(c)
  /\ table' = Forgotten(table, cmd[c].dev, c)
  /\ UNCHANGED sock

-----------------------------------------------------------------------------
Proceed(s) == Replace(s) \/ Pinged(s) \/ Closed(s) \/ Gone(s) \/ End(s)

Next ==
  \/ \E s \in Socket :
       \/ Connect(s) \/ Proceed(s) \/ Break(s) \/ Idle(s) \/ FrameFails(s)
       \/ \E c \in Command : Result(s, c)
       \/ \E tab \in Tab : Attach(s, tab)
  \/ \E c \in Command : Issue(c) \/ SendReturns(c) \/ Returns(c)

Spec == Init /\ [][Next]_vars

\* The event loop runs the endpoints, and a close, a send or a stop ends.
Fairness == \A s \in Socket : WF_vars(Proceed(s))

FairSpec == Spec /\ Fairness

-----------------------------------------------------------------------------
(* Properties                                                              *)

\* A command that is registered went out over the socket the device has now: none waits
\* behind a connection that was replaced or lost (disconnect fails what it drops), also
\* when connects overlap at the close of the old socket, or a replaced socket's endpoint
\* ends late.
PendingIsOnPresentSocket ==
  \A d \in Device, c \in Command :
    <<d, c>> \in table.pending =>
      /\ cmd[c].dev = d
      /\ table.conn[d] # NoSocket /\ table.conn[d] = cmd[c].via
      /\ c \in table.listed[d]

\* A caller that waits will hear of its device: its future is decided or registered, where
\* a result and the end of the connection both find it.
WaiterIsReachable ==
  \A c \in Command :
    cmd[c].at \in {"send", "wait"} /\ table.future[c] = "open"
      => <<cmd[c].dev, c>> \in table.pending

\* A device that no endpoint serves is forgotten: no connection, no command, no tab.
NothingOutlivesEndpoints ==
  \A d \in Device :
    (\A s \in Socket : sock[s].dev = d => sock[s].at \in {"new", "replace", "end"})
      => /\ table.conn[d] = NoSocket
         /\ table.tabs[d] = {} /\ table.listed[d] = {}

\* A connection that broke does not stay registered, though its endpoint may be in the
\* middle of a ping, be replaced, or be disconnected by another endpoint.
Dead(s) == table.conn[sock[s].dev] = s /\ ~sock[s].up

DeadSocketLeaves == \A s \in Socket : Dead(s) ~> table.conn[sock[s].dev] # s
=============================================================================
