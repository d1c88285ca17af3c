------------------------- MODULE ConnectionsProofs -------------------------
(***************************************************************************)
(* Theorems about the parts that MCConnections composes, for any devices,  *)
(* sockets, commands, sessions, workers and browsers.                      *)
(***************************************************************************)
EXTENDS MCConnections, SequenceTheorems, TLAPS

-----------------------------------------------------------------------------
(* DeviceSockets: what the manager's tables t hold for the commands k and  *)
(* the endpoints z.                                                        *)

Places == {"new", "replace", "serve", "ping", "close", "stop", "end"}

Present(t, k) ==
  \A d \in Device, c \in Command :
    <<d, c>> \in t.pending =>
      /\ k[c].dev = d
      /\ t.conn[d] # NoSocket /\ t.conn[d] = k[c].via
      /\ c \in t.listed[d]

Findable(t, k) ==
  \A c \in Command :
    k[c].at \in {"send", "wait"} /\ t.future[c] = "open" => <<k[c].dev, c>> \in t.pending

Bare(t, d) == t.conn[d] = NoSocket /\ t.tabs[d] = {} /\ t.listed[d] = {}

Served(z, d) == \E s \in Socket : z[s].dev = d /\ z[s].at \notin {"new", "replace", "end"}

Deserted(t, z) == \A d \in Device : Served(z, d) \/ Bare(t, d)

Sound(t, k) == t \in Sockets!Table /\ Present(t, k) /\ Findable(t, k)

SocketInv ==
  /\ sock \in [Socket -> Sockets!Endpoint]
  /\ cmd \in [Command -> Sockets!Caller]
  /\ Sound(table, cmd) /\ Deserted(table, sock)

\* What disconnect leaves: u is t without device d.
Without(t, u, d) ==
  /\ Bare(u, d) /\ \A c \in Command : <<d, c>> \notin u.pending
  /\ \A e \in Device \ {d} :
       u.conn[e] = t.conn[e] /\ u.tabs[e] = t.tabs[e] /\ u.listed[e] = t.listed[e]

LEMMA DisconnectedIsSound ==
  ASSUME NEW t, NEW k, Sound(t, k), k \in [Command -> Sockets!Caller], NEW d \in Device
  PROVE  Sound(Sockets!Disconnected(t, d), k) /\ Without(t, Sockets!Disconnected(t, d), d)
<1> DEFINE owed == {c \in t.listed[d] : <<d, c>> \in t.pending}
<1>1. PICK u : u = Sockets!Disconnected(t, d)
  OBVIOUS
<1>2. t \in Sockets!Table /\ owed \subseteq Command
  BY DEF Sound, Sockets!Table
<1>3. u = [t EXCEPT !.conn = [t.conn EXCEPT ![d] = NoSocket], !.tabs = [t.tabs EXCEPT ![d] = {}],
                    !.listed = [t.listed EXCEPT ![d] = {}],
                    !.pending = t.pending \ ({d} \X owed),
                    !.future = [c \in Command |-> IF c \in owed /\ t.future[c] = "open"
                                                  THEN "broken" ELSE t.future[c]]]
  BY <1>1, <1>2 DEF Sockets!Disconnected, Sockets!Table
<1>4. /\ u.conn = [t.conn EXCEPT ![d] = NoSocket] /\ u.tabs = [t.tabs EXCEPT ![d] = {}]
      /\ u.listed = [t.listed EXCEPT ![d] = {}] /\ u.pending = t.pending \ ({d} \X owed)
      /\ u.future = [c \in Command |-> IF c \in owed /\ t.future[c] = "open"
                                       THEN "broken" ELSE t.future[c]]
  BY <1>2, <1>3 DEF Sockets!Table
<1>5. u \in Sockets!Table
  <2>1. /\ u.conn \in [Device -> Socket \cup {NoSocket}] /\ u.tabs \in [Device -> SUBSET Tab]
        /\ u.listed \in [Device -> SUBSET Command] /\ u.pending \subseteq Device \X Command
        /\ u.future \in [Command -> Sockets!Future]
    BY <1>2, <1>4 DEF Sockets!Table, Sockets!Future
  <2>2. QED  BY <1>2, <1>3, <1>4, <2>1 DEF Sockets!Table
<1>6. \A c \in Command : <<d, c>> \in t.pending => c \in owed
  BY DEF Sound, Present
<1>7. \A c \in Command : <<d, c>> \notin u.pending
  BY <1>4, <1>6
<1> HIDE DEF owed
<1>8. \A e \in Device \ {d}, c \in Command : <<e, c>> \in u.pending <=> <<e, c>> \in t.pending
  BY <1>4
<1>9. Without(t, u, d)
  BY <1>2, <1>4, <1>7 DEF Without, Bare, Sockets!Table
<1>10. Present(u, k)
  <2> SUFFICES ASSUME NEW e \in Device, NEW c \in Command, <<e, c>> \in u.pending
               PROVE  k[c].dev = e /\ u.conn[e] # NoSocket /\ u.conn[e] = k[c].via /\ c \in u.listed[e]
    BY DEF Present
  <2>1. e # d /\ <<e, c>> \in t.pending
    BY <1>7, <1>8
  <2>2. QED  BY <1>9, <2>1 DEF Sound, Present, Without
<1>11. Findable(u, k)
  <2> SUFFICES ASSUME NEW c \in Command, k[c].at \in {"send", "wait"}, u.future[c] = "open"
               PROVE  <<k[c].dev, c>> \in u.pending
    BY DEF Findable
  <2>1. t.future[c] = "open" /\ c \notin owed
    BY <1>4
  <2>2. <<k[c].dev, c>> \in t.pending /\ k[c].dev \in Device
    BY <2>1 DEF Sound, Findable, Sockets!Caller
  <2>3. QED  BY <1>6, <1>8, <2>1, <2>2
<1>12. QED  BY <1>1, <1>5, <1>9, <1>10, <1>11 DEF Sound

\* Without a device that had no endpoint left, or has none now, the rest is as before.
LEMMA DesertedWithout ==
  ASSUME NEW t, NEW u, NEW d \in Device, NEW y, NEW z, Deserted(t, y), Without(t, u, d),
         \A e \in Device \ {d} : Served(y, e) => Served(z, e)
  PROVE  Deserted(u, z)
BY DEF Deserted, Without, Bare

\* An endpoint goes on.
LEMMA EndpointGoes ==
  ASSUME SocketInv, NEW s \in Socket, NEW place \in Places, Sockets!Goes(s, place)
  PROVE  /\ sock' \in [Socket -> Sockets!Endpoint] /\ sock'[s].at = place
         /\ \A x \in Socket : sock'[x].dev = sock[x].dev /\ (x # s => sock'[x] = sock[x])
<1>1. PICK z : z = [sock[s] EXCEPT !.at = place, !.via = NoSocket,
                                   !.up = sock[s].up /\ place # "end"]
  OBVIOUS
<1>2. sock[s] \in Sockets!Endpoint
  BY DEF SocketInv
<1>3. z \in Sockets!Endpoint /\ z.at = place /\ z.dev = sock[s].dev
  BY <1>1, <1>2 DEF Sockets!Endpoint, Places
<1>4. sock' = [sock EXCEPT ![s] = z]
  BY <1>1 DEF Sockets!Goes, SocketInv
<1>5. QED  BY <1>3, <1>4 DEF SocketInv

LEMMA InstalledIsSound ==
  ASSUME NEW t, NEW k, Sound(t, k), NEW d \in Device, NEW s \in Socket,
         \A c \in Command : <<d, c>> \notin t.pending
  PROVE  /\ Sound(Sockets!Installed(t, d, s), k)
         /\ \A e \in Device \ {d} : Bare(t, e) => Bare(Sockets!Installed(t, d, s), e)
<1>1. PICK u : u = Sockets!Installed(t, d, s)
  OBVIOUS
<1>2. t \in Sockets!Table
  BY DEF Sound
<1>3. u = [t EXCEPT !.conn = [t.conn EXCEPT ![d] = s]]
  BY <1>1 DEF Sockets!Installed
<1>4. /\ u \in Sockets!Table /\ u.conn = [t.conn EXCEPT ![d] = s]
      /\ u.tabs = t.tabs /\ u.listed = t.listed /\ u.pending = t.pending /\ u.future = t.future
  BY <1>2, <1>3 DEF Sockets!Table
<1>5. Present(u, k) /\ Findable(u, k)
  BY <1>2, <1>4 DEF Sound, Present, Findable, Sockets!Table
<1>6. \A e \in Device \ {d} : Bare(t, e) => Bare(u, e)
  BY <1>2, <1>4 DEF Bare, Sockets!Table
<1>7. QED  BY <1>1, <1>4, <1>5, <1>6 DEF Sound

LEMMA ConnectKeeps ==
  ASSUME SocketInv, NEW s \in Socket, Sockets!Connect(s)
  PROVE  SocketInv'
<1>1. PICK d \in Device : d = sock[s].dev
  BY DEF SocketInv, Sockets!Endpoint
<1>2. cmd' = cmd /\ sock[s].at = "new"
  BY DEF Sockets!Connect
<1>3. CASE table.conn[d] = NoSocket
  <2>1. Sockets!Goes(s, "serve") /\ table' = Sockets!Installed(table, d, s)
    BY <1>1, <1>3 DEF Sockets!Connect
  <2>2. \A c \in Command : <<d, c>> \notin table.pending
    BY <1>3 DEF SocketInv, Sound, Present
  <2>3. Sound(table', cmd) /\ \A e \in Device \ {d} : Bare(table, e) => Bare(table', e)
    BY <2>1, <2>2, InstalledIsSound DEF SocketInv
  <2>4. /\ sock' \in [Socket -> Sockets!Endpoint] /\ sock'[s].at = "serve"
        /\ \A x \in Socket : sock'[x].dev = sock[x].dev /\ (x # s => sock'[x] = sock[x])
    BY <2>1, EndpointGoes DEF Places
  <2>5. Served(sock', d) /\ \A e \in Device \ {d} : Served(sock, e) => Served(sock', e)
    BY <1>1, <2>4 DEF Served
  <2>6. Deserted(table', sock')
    BY <2>3, <2>5 DEF SocketInv, Deserted
  <2>7. QED  BY <1>2, <2>3, <2>4, <2>6 DEF SocketInv
<1>4. CASE table.conn[d] # NoSocket
  <2>1. PICK old \in Socket : old = table.conn[d]
    BY <1>4 DEF SocketInv, Sound, Sockets!Table
  <2>2. /\ sock' = [sock EXCEPT ![s].at = "replace", ![old].up = FALSE]
        /\ UNCHANGED table
    BY <1>1, <1>4, <2>1 DEF Sockets!Connect
  <2>3. ASSUME NEW x \in Socket
        PROVE  /\ sock'[x] \in Sockets!Endpoint /\ sock'[x].dev = sock[x].dev
               /\ sock'[x].at = IF x = s THEN "replace" ELSE sock[x].at
    BY <2>2 DEF SocketInv, Sockets!Endpoint
  <2>4. sock' \in [Socket -> Sockets!Endpoint]
    BY <2>2, <2>3 DEF SocketInv
  <2>5. \A e \in Device : Served(sock, e) => Served(sock', e)
    BY <1>2, <2>3 DEF Served
  <2>6. Deserted(table', sock')
    BY <2>2, <2>5 DEF SocketInv, Deserted
  <2>7. QED  BY <1>2, <2>2, <2>4, <2>6 DEF SocketInv
<1>5. QED  BY <1>3, <1>4

LEMMA ReplaceKeeps ==
  ASSUME SocketInv, NEW s \in Socket, Sockets!Replace(s)
  PROVE  SocketInv'
<1>1. PICK d \in Device : d = sock[s].dev
  BY DEF SocketInv, Sockets!Endpoint
<1>2. PICK u : u = Sockets!Disconnected(table, d)
  OBVIOUS
<1>3. /\ table' = Sockets!Installed(u, d, s) /\ Sockets!Goes(s, "serve") /\ cmd' = cmd
  BY <1>1, <1>2 DEF Sockets!Replace
<1>4. Sound(u, cmd) /\ Without(table, u, d)
  BY <1>2, DisconnectedIsSound DEF SocketInv
<1>5. Sound(table', cmd) /\ \A e \in Device \ {d} : Bare(u, e) => Bare(table', e)
  BY <1>3, <1>4, InstalledIsSound DEF Without
<1>6. /\ sock' \in [Socket -> Sockets!Endpoint] /\ sock'[s].at = "serve"
      /\ \A x \in Socket : sock'[x].dev = sock[x].dev /\ (x # s => sock'[x] = sock[x])
  BY <1>3, EndpointGoes DEF Places
<1>7. Served(sock', d) /\ \A e \in Device \ {d} : Served(sock, e) => Served(sock', e)
  BY <1>1, <1>6 DEF Served
<1>8. Deserted(table', sock')
  <2>1. Deserted(u, sock')
    BY <1>4, <1>7, DesertedWithout DEF SocketInv
  <2>2. QED  BY <1>5, <1>7, <2>1 DEF Deserted
<1>9. QED  BY <1>3, <1>5, <1>6, <1>8 DEF SocketInv

\* Steps of an endpoint that stays served and touches no table.
LEMMA EndpointStep ==
  ASSUME SocketInv, NEW s \in Socket, sock' \in [Socket -> Sockets!Endpoint],
         \A x \in Socket : sock'[x].dev = sock[x].dev /\ (x # s => sock'[x].at = sock[x].at),
         sock'[s].at \in {sock[s].at, "serve", "ping", "close", "stop"},
         UNCHANGED <<table, cmd>>
  PROVE  SocketInv'
<1>1. \A d \in Device : Served(sock, d) => Served(sock', d)
  BY DEF Served
<1>2. Deserted(table', sock')
  BY <1>1 DEF SocketInv, Deserted
<1>3. QED  BY <1>2 DEF SocketInv

LEMMA BreakKeeps ==
  ASSUME SocketInv, NEW s \in Socket, Sockets!Break(s)
  PROVE  SocketInv'
<1>1. sock' = [sock EXCEPT ![s] = [sock[s] EXCEPT !.up = FALSE]]
  BY DEF Sockets!Break
<1>2. [sock[s] EXCEPT !.up = FALSE] \in Sockets!Endpoint
  BY DEF SocketInv, Sockets!Endpoint
<1>3. /\ sock' \in [Socket -> Sockets!Endpoint]
      /\ \A x \in Socket : sock'[x].dev = sock[x].dev /\ sock'[x].at = sock[x].at
  BY <1>1, <1>2 DEF SocketInv, Sockets!Endpoint
<1>4. QED  BY <1>3, EndpointStep DEF Sockets!Break

LEMMA IdleKeeps ==
  ASSUME SocketInv, NEW s \in Socket, Sockets!Idle(s)
  PROVE  SocketInv'
<1>1. PICK v \in Socket \cup {NoSocket} : v = table.conn[sock[s].dev]
  BY DEF SocketInv, Sound, Sockets!Table, Sockets!Endpoint
<1>2. PICK z : z = [sock[s] EXCEPT !.at = IF v = NoSocket THEN "close" ELSE "ping", !.via = v]
  OBVIOUS
<1>3. sock' = [sock EXCEPT ![s] = z]
  BY <1>1, <1>2 DEF Sockets!Idle, SocketInv
<1>4. z \in Sockets!Endpoint /\ z.dev = sock[s].dev /\ z.at \in {"close", "ping"}
  BY <1>2 DEF SocketInv, Sockets!Endpoint
<1>5. /\ sock' \in [Socket -> Sockets!Endpoint]
      /\ \A x \in Socket : sock'[x].dev = sock[x].dev /\ (x # s => sock'[x].at = sock[x].at)
      /\ sock'[s].at \in {"serve", "ping", "close", "stop"}
  BY <1>3, <1>4 DEF SocketInv
<1>6. QED  BY <1>5, EndpointStep DEF Sockets!Idle

\* What send_to_device does afterwards is nothing, or a disconnection.
LEMMA AfterSendIs ==
  ASSUME NEW t, NEW k, Sound(t, k), k \in [Command -> Sockets!Caller], NEW d \in Device, NEW o
  PROVE  /\ Sound(Sockets!AfterSend(t, d, o), k)
         /\ Sockets!AfterSend(t, d, o) = t \/ Without(t, Sockets!AfterSend(t, d, o), d)
BY DisconnectedIsSound DEF Sockets!AfterSend

LEMMA PingedKeeps ==
  ASSUME SocketInv, NEW s \in Socket, Sockets!Pinged(s)
  PROVE  SocketInv'
<1>1. PICK d \in Device : d = sock[s].dev
  BY DEF SocketInv, Sockets!Endpoint
<1>2. PICK o : /\ table' = Sockets!AfterSend(table, d, o)
               /\ \E place \in {"serve", "close", "stop"} : Sockets!Goes(s, place)
  BY <1>1 DEF Sockets!Pinged
<1>3. Sound(table', cmd) /\ (table' = table \/ Without(table, table', d)) /\ cmd' = cmd
  BY <1>2, AfterSendIs DEF SocketInv, Sockets!Pinged
<1>4. PICK place \in {"serve", "close", "stop"} : Sockets!Goes(s, place)
  BY <1>2
<1>5. /\ sock' \in [Socket -> Sockets!Endpoint] /\ sock'[s].at = place
      /\ \A x \in Socket : sock'[x].dev = sock[x].dev /\ (x # s => sock'[x] = sock[x])
  BY <1>4, EndpointGoes DEF Places
<1>6. \A e \in Device : Served(sock, e) => Served(sock', e)
  BY <1>5 DEF Served
<1>7. Deserted(table', sock')
  BY <1>3, <1>6, DesertedWithout DEF SocketInv, Deserted
<1>8. QED  BY <1>3, <1>5, <1>7 DEF SocketInv

LEMMA ClosedKeeps ==
  ASSUME SocketInv, NEW s \in Socket, Sockets!Closed(s)
  PROVE  SocketInv'
<1>1. PICK z : z = [sock[s] EXCEPT !.at = "stop", !.up = FALSE]
  OBVIOUS
<1>2. sock' = [sock EXCEPT ![s] = z]
  BY <1>1 DEF Sockets!Closed, SocketInv
<1>3. z \in Sockets!Endpoint /\ z.dev = sock[s].dev /\ z.at = "stop"
  BY <1>1 DEF SocketInv, Sockets!Endpoint
<1>4. /\ sock' \in [Socket -> Sockets!Endpoint]
      /\ \A x \in Socket : sock'[x].dev = sock[x].dev /\ (x # s => sock'[x].at = sock[x].at)
      /\ sock'[s].at \in {"serve", "ping", "close", "stop"}
  BY <1>2, <1>3 DEF SocketInv
<1>5. QED  BY <1>4, EndpointStep DEF Sockets!Closed

LEMMA ReceiveFailsKeeps ==
  ASSUME SocketInv, NEW s \in Socket, Sockets!Gone(s) \/ Sockets!FrameFails(s)
  PROVE  SocketInv'
<1>1. Sockets!Goes(s, "stop") /\ UNCHANGED <<table, cmd>>
  BY DEF Sockets!Gone, Sockets!FrameFails
<1>2. QED  BY <1>1, EndpointGoes, EndpointStep DEF Places

LEMMA EndKeeps ==
  ASSUME SocketInv, NEW s \in Socket, Sockets!End(s)
  PROVE  SocketInv'
<1>1. PICK d \in Device : d = sock[s].dev
  BY DEF SocketInv, Sockets!Endpoint
<1>2. table' = Sockets!Disconnected(table, d) /\ Sockets!Goes(s, "end") /\ cmd' = cmd
  BY <1>1 DEF Sockets!End
<1>3. Sound(table', cmd) /\ Without(table, table', d)
  BY <1>2, DisconnectedIsSound DEF SocketInv
<1>4. /\ sock' \in [Socket -> Sockets!Endpoint]
      /\ \A x \in Socket : sock'[x].dev = sock[x].dev /\ (x # s => sock'[x] = sock[x])
  BY <1>2, EndpointGoes DEF Places
<1>5. \A e \in Device \ {d} : Served(sock, e) => Served(sock', e)
  BY <1>1, <1>4 DEF Served
<1>6. Deserted(table', sock')
  BY <1>3, <1>5, DesertedWithout DEF SocketInv
<1>7. QED  BY <1>2, <1>3, <1>4, <1>6 DEF SocketInv

\* Tables change, endpoints do not.
LEMMA TableStep ==
  ASSUME SocketInv, sock' = sock, cmd' \in [Command -> Sockets!Caller], Sound(table', cmd'),
         Deserted(table', sock)
  PROVE  SocketInv'
BY DEF SocketInv

\* u is t without command c, and knows of no device that t does not know of.
Released(t, u, c) ==
  /\ \A e \in Device : Bare(t, e) => Bare(u, e)
  /\ \A e \in Device : <<e, c>> \notin u.pending

\* A command leaves the tables: its key, or its place in the list of its device, too.
LEMMA UnregisteredIsSound ==
  ASSUME NEW t, NEW k, Sound(t, k), NEW d \in Device, NEW c \in Command, NEW f \in Sockets!Future,
         k[c].dev = d, f # "open",
         NEW u, u = [Sockets!Unregistered(t, d, c) EXCEPT !.future[c] = f]
  PROVE  Sound(u, k) /\ Released(t, u, c)
<1>1. t \in Sockets!Table
  BY DEF Sound
<1>2. u = [t EXCEPT !.pending = t.pending \ {<<d, c>>},
                    !.listed = [t.listed EXCEPT ![d] = t.listed[d] \ {c}],
                    !.future = [t.future EXCEPT ![c] = f]]
  BY <1>1 DEF Sockets!Unregistered, Sockets!Table
<1> PICK left \in SUBSET (Device \X Command) : left = t.pending \ {<<d, c>>}
  BY <1>1 DEF Sockets!Table
<1> PICK list \in [Device -> SUBSET Command] : list = [t.listed EXCEPT ![d] = t.listed[d] \ {c}]
  BY <1>1 DEF Sockets!Table
<1> PICK fate \in [Command -> Sockets!Future] : fate = [t.future EXCEPT ![c] = f]
  BY <1>1 DEF Sockets!Table
<1>3. /\ u \in Sockets!Table /\ u.conn = t.conn /\ u.tabs = t.tabs
      /\ u.pending = t.pending \ {<<d, c>>}
      /\ u.listed = [t.listed EXCEPT ![d] = t.listed[d] \ {c}]
      /\ u.future = [t.future EXCEPT ![c] = f]
  <2>1. u = [t EXCEPT !.pending = left, !.listed = list, !.future = fate]
    BY <1>2
  <2>2. QED  BY <1>1, <2>1 DEF Sockets!Table
<1>4. Present(u, k) /\ Findable(u, k)
  BY <1>1, <1>3 DEF Sound, Present, Findable, Sockets!Table
<1>5. \A e \in Device : Bare(t, e) => Bare(u, e)
  BY ZenonT(40), <1>1, <1>3 DEF Bare, Sockets!Table
<1>6. \A e \in Device : <<e, c>> \notin u.pending
  BY <1>3 DEF Sound, Present
<1>7. QED  BY <1>3, <1>4, <1>5, <1>6 DEF Sound, Released

LEMMA ResolvedIsSound ==
  ASSUME NEW t, NEW k, Sound(t, k), NEW d \in Device, NEW c \in Command, k[c].dev = d
  PROVE  /\ Sound(Sockets!Resolved(t, d, c), k)
         /\ \A e \in Device : Bare(t, e) => Bare(Sockets!Resolved(t, d, c), e)
<1>1. PICK u : u = Sockets!Resolved(t, d, c)
  OBVIOUS
<1>2. CASE <<d, c>> \notin t.pending
  BY <1>2 DEF Sockets!Resolved
<1>3. CASE <<d, c>> \in t.pending /\ t.future[c] = "open"
  <2>1. u = [Sockets!Unregistered(t, d, c) EXCEPT !.future[c] = "answered"]
    BY <1>1, <1>3 DEF Sockets!Resolved
  <2>2. "answered" \in Sockets!Future
    BY DEF Sockets!Future
  <2>3. Sound(u, k) /\ Released(t, u, c)
    BY <2>1, <2>2, UnregisteredIsSound
  <2>4. QED  BY <1>1, <2>3 DEF Released
<1>4. CASE <<d, c>> \in t.pending /\ t.future[c] # "open"
  <2>1. t \in Sockets!Table /\ u = [t EXCEPT !.pending = t.pending \ {<<d, c>>}]
    BY <1>1, <1>4 DEF Sockets!Resolved, Sound
  <2>2. /\ u \in Sockets!Table /\ u.conn = t.conn /\ u.tabs = t.tabs /\ u.listed = t.listed
        /\ u.future = t.future /\ u.pending = t.pending \ {<<d, c>>}
    BY <2>1 DEF Sockets!Table
  <2>3. Present(u, k) /\ Findable(u, k)
    BY <1>4, <2>2 DEF Sound, Present, Findable
  <2>4. \A e \in Device : Bare(t, e) => Bare(u, e)
    BY <2>2 DEF Bare
  <2>5. QED  BY <1>1, <2>2, <2>3, <2>4 DEF Sound
<1>5. QED  BY <1>2, <1>3, <1>4

\* A caller that is done, or whose command is not registered, may forget where it sent it.
LEMMA CallerLeaves ==
  ASSUME NEW t, NEW k \in [Command -> Sockets!Caller], Sound(t, k), NEW c \in Command,
         \A e \in Device : <<e, c>> \notin t.pending,
         NEW l, l = [k EXCEPT ![c].at = "done", ![c].via = NoSocket]
  PROVE  l \in [Command -> Sockets!Caller] /\ Sound(t, l)
<1>1. PICK m : m = [k[c] EXCEPT !.at = "done", !.via = NoSocket]
  OBVIOUS
<1>2. l = [k EXCEPT ![c] = m]
  BY <1>1
<1>3. m \in Sockets!Caller /\ m.at = "done"
  BY <1>1 DEF Sockets!Caller
<1>4. Present(t, l) /\ Findable(t, l)
  BY <1>2, <1>3 DEF Sound, Present, Findable
<1>5. QED  BY <1>2, <1>3, <1>4 DEF Sound

LEMMA ResultKeeps ==
  ASSUME SocketInv, NEW s \in Socket, NEW c \in Command, Sockets!Result(s, c)
  PROVE  SocketInv'
<1>1. PICK d \in Device : d = sock[s].dev
  BY DEF SocketInv, Sockets!Endpoint
<1>2. table' = Sockets!Resolved(table, d, c) /\ cmd[c].dev = d /\ sock' = sock /\ cmd' = cmd
  BY <1>1 DEF Sockets!Result
<1>3. Sound(table', cmd) /\ \A e \in Device : Bare(table, e) => Bare(table', e)
  BY <1>2, ResolvedIsSound DEF SocketInv
<1>4. QED  BY <1>2, <1>3, TableStep DEF SocketInv, Deserted

LEMMA AttachKeeps ==
  ASSUME SocketInv, NEW s \in Socket, NEW tab \in Tab, Sockets!Attach(s, tab)
  PROVE  SocketInv'
<1>1. PICK d \in Device : d = sock[s].dev
  BY DEF SocketInv, Sockets!Endpoint
<1>2. Served(sock, d) /\ sock' = sock /\ cmd' = cmd
  BY <1>1 DEF Sockets!Attach, Served
<1>3. table \in Sockets!Table
  BY DEF SocketInv, Sound
<1>4. PICK set \in SUBSET Tab : table' = [table EXCEPT !.tabs = [table.tabs EXCEPT ![d] = set]]
  <2>1. table.tabs[d] \in SUBSET Tab
    BY <1>3 DEF Sockets!Table
  <2>2. \/ table' = [table EXCEPT !.tabs = [table.tabs EXCEPT ![d] = table.tabs[d] \cup {tab}]]
        \/ table' = [table EXCEPT !.tabs = [table.tabs EXCEPT ![d] = table.tabs[d] \ {tab}]]
        \/ table' = [table EXCEPT !.tabs = [table.tabs EXCEPT ![d] = {}]]
    BY <1>1, <1>3 DEF Sockets!Attach, Sockets!Table
  <2>3. QED  BY <2>1, <2>2
<1>5. PICK tabs \in [Device -> SUBSET Tab] : tabs = [table.tabs EXCEPT ![d] = set]
  BY <1>3 DEF Sockets!Table
<1>6. /\ table' \in Sockets!Table /\ table'.conn = table.conn /\ table'.listed = table.listed
      /\ table'.pending = table.pending /\ table'.future = table.future
      /\ \A e \in Device \ {d} : table'.tabs[e] = table.tabs[e]
  BY <1>3, <1>4, <1>5 DEF Sockets!Table
<1>7. Sound(table', cmd)
  BY <1>6 DEF SocketInv, Sound, Present, Findable
<1>8. Deserted(table', sock)
  BY <1>2, <1>6 DEF SocketInv, Deserted, Bare
<1>9. QED  BY <1>2, <1>7, <1>8, TableStep DEF SocketInv

LEMMA IssueKeeps ==
  ASSUME SocketInv, NEW c \in Command, Sockets!Issue(c)
  PROVE  SocketInv'
<1>1. PICK d \in Device : d = cmd[c].dev
  BY DEF SocketInv, Sockets!Caller
<1>2. table \in Sockets!Table /\ cmd \in [Command -> Sockets!Caller] /\ Sound(table, cmd)
  BY DEF SocketInv, Sound
<1>3. cmd[c].at = "idle" /\ sock' = sock
  BY DEF Sockets!Issue
<1>4. CASE table.conn[d] = NoSocket
  <2>1. PICK m : m = [cmd[c] EXCEPT !.at = "done"]
    OBVIOUS
  <2>2. cmd' = [cmd EXCEPT ![c] = m] /\ table' = table
    BY <1>1, <1>4, <2>1 DEF Sockets!Issue
  <2>3. m \in Sockets!Caller /\ m.at = "done" /\ m.dev = d /\ m.via = cmd[c].via
    BY <1>1, <1>2, <2>1 DEF Sockets!Caller
  <2>4. Present(table, cmd') /\ Findable(table, cmd')
    BY <1>1, <1>2, <2>2, <2>3 DEF Sound, Present, Findable
  <2>5. QED  BY <1>2, <1>3, <2>2, <2>3, <2>4, TableStep DEF SocketInv, Sound
<1>5. CASE table.conn[d] # NoSocket
  <2>1. PICK v \in Socket : v = table.conn[d]
    BY <1>2, <1>5 DEF Sockets!Table
  <2>2. PICK m : m = [cmd[c] EXCEPT !.at = "send", !.via = v]
    OBVIOUS
  <2>3. PICK more \in SUBSET (Device \X Command) : more = table.pending \cup {<<d, c>>}
    <3>1. table.pending \subseteq Device \X Command /\ <<d, c>> \in Device \X Command
      BY <1>2 DEF Sockets!Table
    <3>2. QED  BY <3>1
  <2>4. PICK list \in [Device -> SUBSET Command] :
          list = [table.listed EXCEPT ![d] = table.listed[d] \cup {c}]
    BY <1>2 DEF Sockets!Table
  <2>5. PICK fate \in [Command -> Sockets!Future] : fate = [table.future EXCEPT ![c] = "open"]
    BY <1>2 DEF Sockets!Table, Sockets!Future
  <2>6. /\ cmd' = [cmd EXCEPT ![c] = m]
        /\ table' = [table EXCEPT !.pending = more, !.listed = list, !.future = fate]
    BY <1>1, <1>2, <1>5, <2>1, <2>2, <2>3, <2>4, <2>5 DEF Sockets!Issue, Sockets!Table
  <2>7. m \in Sockets!Caller /\ m.at = "send" /\ m.dev = d /\ m.via = v
    BY <1>1, <1>2, <2>1, <2>2 DEF Sockets!Caller
  <2>8. /\ table' \in Sockets!Table /\ table'.conn = table.conn /\ table'.tabs = table.tabs
        /\ table'.pending = more /\ table'.listed = list /\ table'.future = fate
    BY <1>2, <2>6 DEF Sockets!Table
  <2>9. Present(table', cmd')
    <3> SUFFICES ASSUME NEW e \in Device, NEW x \in Command, <<e, x>> \in table'.pending
                 PROVE  /\ cmd'[x].dev = e
                        /\ table'.conn[e] # NoSocket /\ table'.conn[e] = cmd'[x].via
                        /\ x \in table'.listed[e]
      BY DEF Present
    <3>1. CASE x = c
      <4>1. e = d
        BY <1>1, <1>2, <2>3, <2>8, <3>1 DEF Sound, Present
      <4>2. QED  BY <1>2, <1>5, <2>1, <2>4, <2>6, <2>7, <2>8, <3>1, <4>1 DEF Sockets!Table
    <3>2. CASE x # c
      <4>1. <<e, x>> \in table.pending /\ cmd'[x] = cmd[x]
        BY <1>2, <2>3, <2>6, <2>8, <3>2
      <4>2. x \in table'.listed[e]
        BY <1>2, <2>4, <2>8, <4>1 DEF Sound, Present, Sockets!Table
      <4>3. QED  BY <1>2, <2>8, <4>1, <4>2 DEF Sound, Present
    <3>3. QED  BY <3>1, <3>2
  <2>10. Findable(table', cmd')
    <3> SUFFICES ASSUME NEW x \in Command, cmd'[x].at \in {"send", "wait"}, table'.future[x] = "open"
                 PROVE  <<cmd'[x].dev, x>> \in table'.pending
      BY DEF Findable
    <3>1. CASE x = c
      BY <1>2, <2>3, <2>6, <2>7, <2>8, <3>1
    <3>2. CASE x # c
      BY <1>2, <2>3, <2>5, <2>6, <2>8, <3>2 DEF Sound, Findable, Sockets!Table
    <3>3. QED  BY <3>1, <3>2
  <2>11. Deserted(table', sock)
    <3>1. Served(sock, d)
      BY <1>5 DEF SocketInv, Deserted, Bare
    <3>2. \A e \in Device : e # d /\ Bare(table, e) => Bare(table', e)
      BY <1>2, <2>4, <2>8 DEF Bare, Sockets!Table
    <3>3. QED  BY <3>1, <3>2 DEF SocketInv, Deserted
  <2>12. cmd' \in [Command -> Sockets!Caller]
    BY <1>2, <2>6, <2>7
  <2>13. QED  BY <1>3, <2>8, <2>9, <2>10, <2>11, <2>12, TableStep DEF Sound
<1>6. QED  BY <1>4, <1>5

\* The send or the wait is over, and the command is forgotten.
LEMMA ForgottenKeeps ==
  ASSUME SocketInv, NEW t, NEW d \in Device, NEW c \in Command, cmd[c].dev = d,
         Sound(t, cmd), Deserted(t, sock), sock' = sock,
         table' = Sockets!Forgotten(t, d, c), cmd' = Sockets!Over(c)
  PROVE  SocketInv'
<1>1. "none" \in Sockets!Future /\ cmd \in [Command -> Sockets!Caller]
  BY DEF Sockets!Future, SocketInv
<1>2. table' = [Sockets!Unregistered(t, d, c) EXCEPT !.future[c] = "none"]
  BY DEF Sockets!Forgotten
<1>3. Sound(table', cmd) /\ Released(t, table', c)
  BY <1>1, <1>2, UnregisteredIsSound
<1>4. cmd' = [cmd EXCEPT ![c].at = "done", ![c].via = NoSocket]
  BY DEF Sockets!Over
<1>5. cmd' \in [Command -> Sockets!Caller] /\ Sound(table', cmd')
  <2>1. \A e \in Device : <<e, c>> \notin table'.pending
    BY <1>3 DEF Released
  <2>2. QED  BY <1>1, <1>3, <1>4, <2>1, CallerLeaves
<1>6. Deserted(table', sock)
  BY <1>3 DEF Deserted, Released
<1>7. QED  BY <1>5, <1>6, TableStep

LEMMA SendReturnsKeeps ==
  ASSUME SocketInv, NEW c \in Command, Sockets!SendReturns(c)
  PROVE  SocketInv'
<1>1. PICK d \in Device : d = cmd[c].dev
  BY DEF SocketInv, Sockets!Caller
<1>2. PICK o \in Sockets!Outcome(cmd[c].via) :
        /\ table' = IF o \in {"sent", "raised"} THEN Sockets!AfterSend(table, d, o)
                    ELSE Sockets!Forgotten(Sockets!AfterSend(table, d, o), d, c)
        /\ cmd' = IF o = "sent" THEN [cmd EXCEPT ![c].at = "wait"]
                  ELSE IF o = "raised" THEN [cmd EXCEPT ![c].at = "done"]
                  ELSE Sockets!Over(c)
  BY <1>1 DEF Sockets!SendReturns
<1>3. sock' = sock /\ cmd[c].at = "send" /\ cmd \in [Command -> Sockets!Caller]
  BY DEF Sockets!SendReturns, SocketInv
<1>4. CASE o \in {"sent", "raised"}
  <2>1. PICK place \in {"wait", "done"} : cmd' = [cmd EXCEPT ![c].at = place]
    BY <1>2, <1>4
  <2>2. PICK m : m = [cmd[c] EXCEPT !.at = place]
    OBVIOUS
  <2>3. /\ cmd' = [cmd EXCEPT ![c] = m] /\ m \in Sockets!Caller /\ m.at = place
        /\ m.dev = d /\ m.via = cmd[c].via
    BY <1>1, <1>3, <2>1, <2>2 DEF Sockets!Caller
  <2>4. table' = table
    BY <1>2, <1>4 DEF Sockets!AfterSend
  <2>5. Present(table, cmd') /\ Findable(table, cmd')
    BY <1>1, <1>3, <2>3 DEF SocketInv, Sound, Present, Findable
  <2>6. QED  BY <1>3, <2>3, <2>4, <2>5, TableStep DEF SocketInv, Sound
<1>5. CASE o \notin {"sent", "raised"}
  <2>1. PICK t : t = Sockets!AfterSend(table, d, o)
    OBVIOUS
  <2>2. Sound(t, cmd) /\ (t = table \/ Without(table, t, d))
    BY <1>3, <2>1, AfterSendIs DEF SocketInv
  <2>3. Deserted(t, sock)
    BY <2>2, DesertedWithout DEF SocketInv
  <2>4. table' = Sockets!Forgotten(t, d, c) /\ cmd' = Sockets!Over(c)
    BY <1>2, <1>5, <2>1
  <2>5. QED  BY <1>1, <1>3, <2>2, <2>3, <2>4, ForgottenKeeps
<1>6. QED  BY <1>4, <1>5

LEMMA ReturnsKeeps ==
  ASSUME SocketInv, NEW c \in Command, Sockets!Returns(c)
  PROVE  SocketInv'
<1>1. PICK d \in Device : d = cmd[c].dev
  BY DEF SocketInv, Sockets!Caller
<1>2. table' = Sockets!Forgotten(table, d, c) /\ cmd' = Sockets!Over(c) /\ sock' = sock
  BY <1>1 DEF Sockets!Returns
<1>3. QED  BY <1>1, <1>2, ForgottenKeeps DEF SocketInv

LEMMA SocketInit == Sockets!Init => SocketInv
<1> SUFFICES ASSUME Sockets!Init  PROVE SocketInv
  OBVIOUS
<1>1. table \in Sockets!Table
  BY DEF Sockets!Init, Sockets!Table, Sockets!Future
<1>2. sock \in [Socket -> Sockets!Endpoint] /\ cmd \in [Command -> Sockets!Caller]
  <2>1. {[at |-> "new", dev |-> d, up |-> TRUE, via |-> NoSocket] : d \in Device}
          \subseteq Sockets!Endpoint
    <3> SUFFICES ASSUME NEW d \in Device
                 PROVE  [at |-> "new", dev |-> d, up |-> TRUE, via |-> NoSocket] \in Sockets!Endpoint
      OBVIOUS
    <3>1. QED  BY DEF Sockets!Endpoint
  <2>2. {[at |-> "idle", dev |-> d, via |-> NoSocket] : d \in Device} \subseteq Sockets!Caller
    BY DEF Sockets!Caller
  <2>3. QED  BY <2>1, <2>2 DEF Sockets!Init
<1>3. Present(table, cmd) /\ Findable(table, cmd) /\ Deserted(table, sock)
  BY DEF Sockets!Init, Present, Findable, Deserted, Bare
<1>4. QED  BY <1>1, <1>2, <1>3 DEF SocketInv, Sound

LEMMA SocketStep == SocketInv /\ Sockets!Next => SocketInv'
<1> SUFFICES ASSUME SocketInv, Sockets!Next  PROVE SocketInv'
  OBVIOUS
<1>1. CASE \E s \in Socket : \/ Sockets!Connect(s) \/ Sockets!Proceed(s) \/ Sockets!Break(s)
                             \/ Sockets!Idle(s) \/ Sockets!FrameFails(s)
  BY <1>1, ConnectKeeps, ReplaceKeeps, PingedKeeps, ClosedKeeps, ReceiveFailsKeeps, EndKeeps,
     BreakKeeps, IdleKeeps DEF Sockets!Proceed
<1>2. CASE \E s \in Socket : \/ \E c \in Command : Sockets!Result(s, c)
                             \/ \E tab \in Tab : Sockets!Attach(s, tab)
  BY <1>2, ResultKeeps, AttachKeeps
<1>3. CASE \E c \in Command : Sockets!Issue(c) \/ Sockets!SendReturns(c) \/ Sockets!Returns(c)
  BY <1>3, IssueKeeps, SendReturnsKeeps, ReturnsKeeps
<1>4. QED  BY <1>1, <1>2, <1>3 DEF Sockets!Next

LEMMA SocketStill == SocketInv /\ UNCHANGED socketVars => SocketInv'
BY DEF SocketInv, socketVars, Sound, Present, Findable, Deserted, Served, Bare

LEMMA SocketInvIsEnough == SocketInv => Sockets!TypeOK /\ CommandsAreReachable
<1> SUFFICES ASSUME SocketInv  PROVE Sockets!TypeOK /\ CommandsAreReachable
  OBVIOUS
<1>1. Sockets!TypeOK
  BY DEF SocketInv, Sound, Sockets!TypeOK
<1>2. Sockets!PendingIsOnPresentSocket
  BY DEF SocketInv, Sound, Present, Sockets!PendingIsOnPresentSocket
<1>3. Sockets!WaiterIsReachable
  BY DEF SocketInv, Sound, Findable, Sockets!WaiterIsReachable
<1>4. Sockets!NothingOutlivesEndpoints
  BY DEF SocketInv, Deserted, Served, Bare, Sockets!NothingOutlivesEndpoints
<1>5. QED  BY <1>1, <1>2, <1>3, <1>4 DEF CommandsAreReachable

-----------------------------------------------------------------------------
(* LiveSessions                                                            *)

\* The keys of a device.
KeyOf(d) == {d} \X Name

LEMMA KeysAreOfOne ==
  /\ \A d \in Device : KeyOf(d) \subseteq Device \X Name /\ NoKey \notin KeyOf(d)
  /\ \A d, e \in Device : \A k \in KeyOf(d) : k \in KeyOf(e) => d = e
  /\ \A k \in Device \X Name : k # NoKey
BY NoneAssumption DEF KeyOf

\* Whoever starts a session holds _lock, its device has none, and keys are of their device.
Starting ==
  \A e \in VoiceEndpoint :
    /\ endpoint[e].at = "start" => holder = e /\ bound[endpoint[e].dev] = NoKey
    /\ endpoint[e].at \in {"askstart", "start", "askstop"} => endpoint[e].key \in KeyOf(endpoint[e].dev)
    /\ endpoint[e].last => endpoint[e].at \in {"askstop", "join", "gone"}

\* An endpoint waits for a pump that was cancelled.
Joining ==
  \A e \in VoiceEndpoint :
    endpoint[e].at = "join" => endpoint[e].pump \in Pump /\ pump[endpoint[e].pump].cancel # "no"

\* Keys of pumps, and the pump of a record.
Recorded ==
  /\ \A p \in Pump : pump[p].at # "none" => pump[p].key \in KeyOf(pump[p].dev)
  /\ \A k \in Device \X Name :
       sessions[k] # NoPump => pump[sessions[k]].at # "none" /\ pump[sessions[k]].key = k

Serves(e, d) == endpoint[e].dev = d /\ endpoint[e].at \notin {"new", "gone"}

\* A device whose endpoints never overlapped: a pump that is not over is on record, or its
\* endpoint, the only one, has cancelled it, waits for it, and starts no other meanwhile.
Alone ==
  \A d \in Device \ overlapped :
    /\ \A e, f \in VoiceEndpoint : Serves(e, d) /\ Serves(f, d) => e = f
    /\ \A e \in VoiceEndpoint : endpoint[e].dev = d /\ endpoint[e].at = "join" => bound[d] = NoKey
    /\ \A p \in Pump :
         pump[p].dev = d /\ pump[p].at \in {"run", "unlink"} =>
           \/ sessions[pump[p].key] = p
           \/ \E e \in VoiceEndpoint :
                Serves(e, d) /\ endpoint[e].at = "join" /\ endpoint[e].pump = p

VoiceInv ==
  /\ Voice!TypeOK /\ Starting /\ Joining /\ Recorded
  /\ Voice!BindingIsMutual /\ Voice!SessionHasEndpoint /\ Alone

\* With no session on record under a device there is none of its keys.
LEMMA UnboundIsUnrecorded ==
  ASSUME VoiceInv, NEW d \in Device, bound[d] = NoKey
  PROVE  /\ \A k \in KeyOf(d) : sessions[k] = NoPump
         /\ \A k \in Device \X Name : sessions[k] # NoPump => pump[sessions[k]].dev # d
<1>1. ASSUME NEW k \in Device \X Name, sessions[k] # NoPump
      PROVE  /\ sessions[k] \in Pump /\ pump[sessions[k]].dev \in Device
             /\ bound[pump[sessions[k]].dev] = k /\ k \in KeyOf(pump[sessions[k]].dev)
  <2>1. sessions[k] \in Pump
    BY <1>1 DEF VoiceInv, Voice!TypeOK
  <2>2. pump[sessions[k]].dev \in Device
    BY <2>1 DEF VoiceInv, Voice!TypeOK, Voice!PumpState
  <2>3. QED  BY <1>1, <2>1, <2>2 DEF VoiceInv, Recorded, Voice!BindingIsMutual
<1>2. QED  BY <1>1, KeysAreOfOne

LEMMA VoiceInit == Voice!Init => VoiceInv
<1> SUFFICES ASSUME Voice!Init  PROVE VoiceInv
  OBVIOUS
<1>1. ASSUME NEW e \in VoiceEndpoint
      PROVE  /\ endpoint[e] \in Voice!EndpointState
             /\ endpoint[e].at = "new" /\ endpoint[e].last = FALSE
  <2>1. PICK d \in Device : endpoint[e] = [at |-> "new", dev |-> d, key |-> NoKey, pump |-> NoPump,
                                          last |-> FALSE]
    BY DEF Voice!Init
  <2>2. QED  BY <2>1 DEF Voice!EndpointState
<1>2. ASSUME NEW p \in Pump
      PROVE  pump[p] \in Voice!PumpState /\ pump[p].at = "none"
  <2>1. PICK d \in Device : d = CHOOSE x \in Device : TRUE
    BY DeviceAssumption
  <2>2. pump[p] = [at |-> "none", dev |-> d, key |-> NoKey, cancel |-> "no"]
    BY <2>1 DEF Voice!Init
  <2>3. QED  BY <2>2 DEF Voice!PumpState
<1>3. Voice!TypeOK
  <2>1. waiting \in Seq(VoiceEndpoint \cup Pump)
    BY EmptySeq DEF Voice!Init
  <2>2. endpoint \in [VoiceEndpoint -> Voice!EndpointState]
    <3>1. endpoint = [e \in VoiceEndpoint |-> endpoint[e]]
      BY DEF Voice!Init
    <3>2. QED  BY <1>1, <3>1
  <2>3. pump \in [Pump -> Voice!PumpState]
    <3>1. pump = [p \in Pump |-> pump[p]]
      BY DEF Voice!Init
    <3>2. QED  BY <1>2, <3>1
  <2>4. QED  BY <2>1, <2>2, <2>3 DEF Voice!Init, Voice!TypeOK
<1>4. Starting /\ Joining
  BY <1>1 DEF Starting, Joining
<1>5. Recorded /\ Voice!BindingIsMutual /\ Voice!SessionHasEndpoint
  BY <1>2 DEF Voice!Init, Recorded, Voice!BindingIsMutual, Voice!SessionHasEndpoint
<1>6. Alone
  BY <1>1, <1>2 DEF Alone, Serves
<1>7. QED  BY <1>3, <1>4, <1>5, <1>6 DEF VoiceInv

\* Waiters for _lock come and go.
LEMMA WaitersAreKnown ==
  ASSUME Voice!TypeOK
  PROVE  /\ \A x \in VoiceEndpoint \cup Pump :
              Voice!Asks(x) => waiting' \in Seq(VoiceEndpoint \cup Pump)
         /\ \A x : Voice!Gets(x) => waiting' \in Seq(VoiceEndpoint \cup Pump)
         /\ \A i \in DOMAIN waiting : Voice!RemoveAt(waiting, i) \in Seq(VoiceEndpoint \cup Pump)
<1> DEFINE W == VoiceEndpoint \cup Pump
<1>1. waiting \in Seq(W)
  BY DEF Voice!TypeOK
<1>2. ASSUME NEW x \in W, Voice!Asks(x)  PROVE waiting' \in Seq(W)
  BY <1>1, <1>2, AppendProperties DEF Voice!Asks
<1>3. ASSUME NEW x, Voice!Gets(x)  PROVE waiting' \in Seq(W)
  BY <1>1, <1>3, HeadTailProperties DEF Voice!Gets
<1>4. ASSUME NEW i \in DOMAIN waiting  PROVE Voice!RemoveAt(waiting, i) \in Seq(W)
  <2>1. Len(waiting) \in Nat /\ i \in 1..Len(waiting) /\ \A j \in 1..Len(waiting) : waiting[j] \in W
    BY <1>1, <1>4, LenProperties, ElementOfSeq
  <2>2. /\ \A j \in 1..(i - 1) : waiting[j] \in W
        /\ \A j \in (i + 1)..Len(waiting) : waiting[j] \in W
    BY <2>1
  <2>3. SubSeq(waiting, 1, i - 1) \in Seq(W) /\ SubSeq(waiting, i + 1, Len(waiting)) \in Seq(W)
    BY <2>1, <2>2, SubSeqProperties
  <2>4. QED  BY <2>3, ConcatProperties DEF Voice!RemoveAt
<1>5. QED  BY <1>2, <1>3, <1>4

\* An endpoint z that will stop the session under k.
Watches(z, k) ==
  z.at \notin {"new", "gone"} /\ (~z.last \/ (z.at = "askstop" /\ z.key = k))

\* An endpoint goes from x to z and touches no record, no pump, and joins none.
Moves(x, z, e) ==
  /\ x \in Voice!EndpointState /\ z \in Voice!EndpointState /\ z.dev = x.dev
  /\ x.at # "new"
  /\ z.at = "start" => holder' = e /\ bound[z.dev] = NoKey
  /\ z.at \in {"askstart", "start", "askstop"} => z.key \in KeyOf(z.dev)
  /\ z.last => z.at \in {"askstop", "join", "gone"}
  /\ z.at # "join" /\ x.at # "gone"
  /\ x.at = "join" => pump[x.pump].at = "over"
  /\ \A k \in Device \X Name :
       sessions[k] # NoPump /\ pump[sessions[k]].dev = x.dev /\ Watches(x, k) => Watches(z, k)

LEMMA EndpointMoves ==
  ASSUME VoiceInv, NEW e \in VoiceEndpoint, NEW z, Moves(endpoint[e], z, e),
         endpoint' = [endpoint EXCEPT ![e] = z],
         waiting' \in Seq(VoiceEndpoint \cup Pump), holder' \in VoiceEndpoint \cup {NoEndpoint},
         \A f \in VoiceEndpoint \ {e} : endpoint[f].at = "start" => holder' = f,
         UNCHANGED <<sessions, bound, pump, overlapped>>
  PROVE  VoiceInv'
<1> PICK x : x = endpoint[e]
  OBVIOUS
<1>1. Voice!TypeOK' /\ Voice!TypeOK
  <2>1. Voice!TypeOK
    BY DEF VoiceInv
  <2>2. endpoint' \in [VoiceEndpoint -> Voice!EndpointState]
    BY <2>1 DEF Voice!TypeOK, Moves
  <2>3. QED  BY <2>1, <2>2 DEF Voice!TypeOK
<1>2. /\ endpoint'[e] = z /\ z.dev = x.dev
      /\ \A f \in VoiceEndpoint \ {e} : endpoint'[f] = endpoint[f]
  BY <1>1 DEF Voice!TypeOK, Moves
<1>3. Starting'
  <2> SUFFICES ASSUME NEW f \in VoiceEndpoint
               PROVE  /\ endpoint'[f].at = "start" => holder' = f /\ bound[endpoint'[f].dev] = NoKey
                      /\ endpoint'[f].at \in {"askstart", "start", "askstop"}
                           => endpoint'[f].key \in KeyOf(endpoint'[f].dev)
                      /\ endpoint'[f].last => endpoint'[f].at \in {"askstop", "join", "gone"}
    BY DEF Starting
  <2>1. CASE f = e
    BY <1>2, <2>1 DEF Moves
  <2>2. CASE f # e
    BY <1>2, <2>2 DEF VoiceInv, Starting
  <2>3. QED  BY <2>1, <2>2
<1>4. Joining'
  BY <1>2 DEF VoiceInv, Joining, Moves
<1>5. Recorded' /\ Voice!BindingIsMutual'
  BY DEF VoiceInv, Recorded, Voice!BindingIsMutual
<1>6. Voice!SessionHasEndpoint'
  <2> SUFFICES ASSUME NEW k \in Device \X Name, sessions[k] # NoPump
               PROVE  \E f \in VoiceEndpoint :
                        endpoint'[f].dev = pump[sessions[k]].dev /\ Watches(endpoint'[f], k)
    BY DEF Voice!SessionHasEndpoint, Voice!Serves, Watches
  <2>1. PICK f \in VoiceEndpoint :
          endpoint[f].dev = pump[sessions[k]].dev /\ Watches(endpoint[f], k)
    BY DEF VoiceInv, Voice!SessionHasEndpoint, Voice!Serves, Watches
  <2>2. CASE f = e
    BY <1>2, <2>1, <2>2 DEF Moves
  <2>3. CASE f # e
    BY <1>2, <2>1, <2>3
  <2>4. QED  BY <2>2, <2>3
<1>7. Alone'
  <2> SUFFICES ASSUME NEW d \in Device, d \notin overlapped
               PROVE  /\ \A f, g \in VoiceEndpoint : Serves(f, d)' /\ Serves(g, d)' => f = g
                      /\ \A f \in VoiceEndpoint :
                           endpoint'[f].dev = d /\ endpoint'[f].at = "join" => bound[d] = NoKey
                      /\ \A p \in Pump :
                           pump[p].dev = d /\ pump[p].at \in {"run", "unlink"} =>
                             \/ sessions[pump[p].key] = p
                             \/ \E f \in VoiceEndpoint :
                                  Serves(f, d)' /\ endpoint'[f].at = "join" /\ endpoint'[f].pump = p
    BY DEF Alone
  <2>1. \A f \in VoiceEndpoint : Serves(f, d)' => Serves(f, d)
    BY <1>2 DEF Serves, Moves
  <2>2. \A f \in VoiceEndpoint : endpoint'[f].at = "join" => f # e
    BY <1>2 DEF Moves
  <2>3. ASSUME NEW p \in Pump, pump[p].dev = d, pump[p].at \in {"run", "unlink"},
               sessions[pump[p].key] # p
        PROVE  \E f \in VoiceEndpoint :
                 Serves(f, d)' /\ endpoint'[f].at = "join" /\ endpoint'[f].pump = p
    <3>1. PICK f \in VoiceEndpoint :
            Serves(f, d) /\ endpoint[f].at = "join" /\ endpoint[f].pump = p
      BY <2>3 DEF VoiceInv, Alone
    <3>2. f # e
      BY <2>3, <3>1 DEF Moves
    <3>3. QED  BY <1>2, <3>1, <3>2 DEF Serves
  <2>4. QED  BY <1>2, <2>1, <2>2, <2>3 DEF VoiceInv, Alone
<1>8. QED  BY <1>1, <1>3, <1>4, <1>5, <1>6, <1>7 DEF VoiceInv

LEMMA OpenKeeps ==
  ASSUME VoiceInv, NEW e \in VoiceEndpoint, Voice!Open(e)
  PROVE  VoiceInv'
<1>1. PICK z : z = [endpoint[e] EXCEPT !.at = "open"]
  OBVIOUS
<1>2. PICK d \in Device : d = endpoint[e].dev
  BY DEF VoiceInv, Voice!TypeOK, Voice!EndpointState
<1>3. /\ endpoint' = [endpoint EXCEPT ![e] = z]
      /\ overlapped' = IF \E f \in VoiceEndpoint : Serves(f, d) THEN overlapped \cup {d} ELSE overlapped
      /\ UNCHANGED <<sessions, bound, holder, waiting, pump>> /\ endpoint[e].at = "new"
  BY <1>1, <1>2 DEF Voice!Open, Voice!Serves, Serves
<1>4. /\ z \in Voice!EndpointState /\ z.at = "open" /\ z.dev = d /\ z.last = endpoint[e].last
  BY <1>1, <1>2 DEF VoiceInv, Voice!TypeOK, Voice!EndpointState
<1>5. Voice!TypeOK'
  BY <1>3, <1>4 DEF VoiceInv, Voice!TypeOK
<1>6. endpoint'[e] = z /\ \A f \in VoiceEndpoint \ {e} : endpoint'[f] = endpoint[f]
  BY <1>3 DEF VoiceInv, Voice!TypeOK
<1>7. ~endpoint[e].last
  BY <1>3 DEF VoiceInv, Starting
<1>8. Starting' /\ Joining'
  BY <1>3, <1>4, <1>6, <1>7 DEF VoiceInv, Starting, Joining
<1>9. Recorded' /\ Voice!BindingIsMutual'
  BY <1>3 DEF VoiceInv, Recorded, Voice!BindingIsMutual
<1>10. Voice!SessionHasEndpoint'
  <2> SUFFICES ASSUME NEW k \in Device \X Name, sessions[k] # NoPump
               PROVE  \E f \in VoiceEndpoint :
                        endpoint'[f].dev = pump[sessions[k]].dev /\ Watches(endpoint'[f], k)
    BY <1>3 DEF Voice!SessionHasEndpoint, Voice!Serves, Watches
  <2>1. PICK f \in VoiceEndpoint :
          endpoint[f].dev = pump[sessions[k]].dev /\ Watches(endpoint[f], k)
    BY DEF VoiceInv, Voice!SessionHasEndpoint, Voice!Serves, Watches
  <2>2. f # e
    BY <1>3, <2>1 DEF Watches
  <2>3. QED  BY <1>6, <2>1, <2>2
<1>11. Alone'
  <2> SUFFICES ASSUME NEW c \in Device, c \notin overlapped'
               PROVE  /\ \A f, g \in VoiceEndpoint : Serves(f, c)' /\ Serves(g, c)' => f = g
                      /\ \A f \in VoiceEndpoint :
                           endpoint'[f].dev = c /\ endpoint'[f].at = "join" => bound[c] = NoKey
                      /\ \A p \in Pump :
                           pump[p].dev = c /\ pump[p].at \in {"run", "unlink"} =>
                             \/ sessions[pump[p].key] = p
                             \/ \E f \in VoiceEndpoint :
                                  Serves(f, c)' /\ endpoint'[f].at = "join" /\ endpoint'[f].pump = p
    BY <1>3 DEF Alone
  <2>1. c \notin overlapped /\ (c = d => ~ \E f \in VoiceEndpoint : Serves(f, d))
    BY <1>3
  <2>2. \A f \in VoiceEndpoint : f # e => (Serves(f, c)' <=> Serves(f, c))
    BY <1>6 DEF Serves
  <2>3. Serves(e, c)' => c = d
    BY <1>4, <1>6 DEF Serves
  <2>4. \A f, g \in VoiceEndpoint : Serves(f, c)' /\ Serves(g, c)' => f = g
    BY <2>1, <2>2, <2>3 DEF VoiceInv, Alone
  <2>5. \A f \in VoiceEndpoint :
          endpoint'[f].dev = c /\ endpoint'[f].at = "join" => bound[c] = NoKey
    BY <1>4, <1>6, <2>1 DEF VoiceInv, Alone
  <2>6. ASSUME NEW p \in Pump, pump[p].dev = c, pump[p].at \in {"run", "unlink"},
               sessions[pump[p].key] # p
        PROVE  \E f \in VoiceEndpoint :
                 Serves(f, c)' /\ endpoint'[f].at = "join" /\ endpoint'[f].pump = p
    <3>1. PICK f \in VoiceEndpoint :
            Serves(f, c) /\ endpoint[f].at = "join" /\ endpoint[f].pump = p
      BY <2>1, <2>6 DEF VoiceInv, Alone
    <3>2. f # e
      BY <1>3, <3>1
    <3>3. QED  BY <1>6, <2>2, <3>1, <3>2
  <2>7. QED  BY <2>4, <2>5, <2>6
<1>12. QED  BY <1>5, <1>8, <1>9, <1>10, <1>11 DEF VoiceInv

\* The key of a device's session is one of its own.
LEMMA BoundIsOwn ==
  ASSUME VoiceInv, NEW d \in Device, bound[d] # NoKey
  PROVE  /\ bound[d] \in KeyOf(d) /\ sessions[bound[d]] \in Pump
         /\ pump[sessions[bound[d]]].dev = d
<1>1. /\ bound[d] \in Device \X Name /\ sessions[bound[d]] # NoPump
      /\ pump[sessions[bound[d]]].dev = d
  BY DEF VoiceInv, Voice!TypeOK, Voice!BindingIsMutual
<1>2. PICK p \in Pump : p = sessions[bound[d]]
  BY <1>1 DEF VoiceInv, Voice!TypeOK
<1>3. pump[p].at # "none" /\ pump[p].key = bound[d]
  BY <1>1, <1>2 DEF VoiceInv, Recorded
<1>4. QED  BY <1>1, <1>2, <1>3 DEF VoiceInv, Recorded

LEMMA LookUpMoves ==
  ASSUME VoiceInv, NEW e \in VoiceEndpoint, NEW last \in BOOLEAN,
         endpoint[e].at \in {"open", "start"}, Voice!LookUp(e, last)
  PROVE  /\ \E z : Moves(endpoint[e], z, e) /\ endpoint' = [endpoint EXCEPT ![e] = z]
         /\ waiting' \in Seq(VoiceEndpoint \cup Pump)
<1>1. PICK x \in Voice!EndpointState : x = endpoint[e]
  BY DEF VoiceInv, Voice!TypeOK
<1>2. x.dev \in Device
  BY DEF Voice!EndpointState
<1>3. PICK k \in (Device \X Name) \cup {NoKey} : k = bound[x.dev]
  BY <1>2 DEF VoiceInv, Voice!TypeOK
<1>4. PICK place \in {"askstop", "gone", "open"} :
        place = IF k # NoKey THEN "askstop" ELSE IF last THEN "gone" ELSE "open"
  OBVIOUS
<1>5. PICK z : z = [x EXCEPT !.last = last, !.key = k, !.at = place]
  OBVIOUS
<1>6. endpoint' = [endpoint EXCEPT ![e] = z]
  BY <1>1, <1>3, <1>4, <1>5 DEF Voice!LookUp, VoiceInv, Voice!TypeOK
<1>7. z \in Voice!EndpointState /\ z.dev = x.dev /\ z.at = place /\ z.last = last /\ z.key = k
  BY <1>5 DEF Voice!EndpointState
<1>8. k # NoKey => k \in KeyOf(x.dev)
  BY <1>2, <1>3, BoundIsOwn
<1>9. ASSUME NEW j \in Device \X Name, sessions[j] # NoPump, pump[sessions[j]].dev = x.dev
      PROVE  k = j /\ k # NoKey
  BY <1>3, <1>9, KeysAreOfOne DEF VoiceInv, Voice!BindingIsMutual
<1>10. Moves(x, z, e)
  <2>1. z.at = "askstop" => z.key \in KeyOf(z.dev)
    BY <1>4, <1>7, <1>8
  <2>2. z.last => z.at \in {"askstop", "gone"}
    BY <1>4, <1>7
  <2>3. \A j \in Device \X Name :
          sessions[j] # NoPump /\ pump[sessions[j]].dev = x.dev => Watches(z, j)
    BY <1>4, <1>7, <1>9 DEF Watches
  <2>4. QED  BY <1>1, <1>7, <2>1, <2>2, <2>3 DEF Moves
<1>11. waiting' \in Seq(VoiceEndpoint \cup Pump)
  <2>1. CASE k # NoKey
    BY <1>1, <1>3, <2>1, WaitersAreKnown DEF Voice!LookUp, VoiceInv
  <2>2. CASE k = NoKey
    BY <1>1, <1>3, <2>2 DEF Voice!LookUp, VoiceInv, Voice!TypeOK
  <2>3. QED  BY <2>1, <2>2
<1>12. QED  BY <1>1, <1>6, <1>10, <1>11

\* An endpoint that is done stops no session any more, so there must be none.
LEMMA DoneMoves ==
  ASSUME VoiceInv, NEW e \in VoiceEndpoint, Voice!Done(e),
         endpoint[e].at \in {"askstart", "start", "askstop", "join"},
         endpoint[e].at = "askstop" => sessions[endpoint[e].key] = NoPump,
         endpoint[e].at = "join" => pump[endpoint[e].pump].at = "over"
  PROVE  \E z : Moves(endpoint[e], z, e) /\ endpoint' = [endpoint EXCEPT ![e] = z]
<1>1. PICK x \in Voice!EndpointState : x = endpoint[e]
  BY DEF VoiceInv, Voice!TypeOK
<1>2. PICK place \in {"gone", "open"} : place = IF x.last THEN "gone" ELSE "open"
  OBVIOUS
<1>3. PICK z : z = [x EXCEPT !.at = place, !.key = NoKey, !.pump = NoPump]
  OBVIOUS
<1>4. endpoint' = [endpoint EXCEPT ![e] = z]
  BY <1>1, <1>2, <1>3 DEF Voice!Done, VoiceInv, Voice!TypeOK
<1>5. z \in Voice!EndpointState /\ z.dev = x.dev /\ z.at = place /\ z.last = x.last
  BY <1>3 DEF Voice!EndpointState
<1>6. ASSUME NEW j \in Device \X Name, sessions[j] # NoPump, Watches(x, j)
      PROVE  Watches(z, j)
  BY <1>1, <1>2, <1>5, <1>6 DEF Watches
<1>7. Moves(x, z, e)
  BY <1>1, <1>2, <1>5, <1>6 DEF Moves
<1>8. QED  BY <1>1, <1>4, <1>7

LEMMA StartFrameKeeps ==
  ASSUME VoiceInv, NEW e \in VoiceEndpoint, NEW k \in Device \X Name, Voice!StartFrame(e, k)
  PROVE  VoiceInv'
<1>1. PICK x \in Voice!EndpointState : x = endpoint[e]
  BY DEF VoiceInv, Voice!TypeOK
<1>2. PICK z : z = [x EXCEPT !.at = "askstart", !.key = k]
  OBVIOUS
<1>3. /\ endpoint' = [endpoint EXCEPT ![e] = z] /\ x.at = "open"
      /\ UNCHANGED <<sessions, bound, holder, pump, overlapped>>
  BY <1>1, <1>2 DEF Voice!StartFrame, VoiceInv, Voice!TypeOK
<1>4. k \in KeyOf(x.dev)
  BY <1>1 DEF Voice!StartFrame, KeyOf, Voice!EndpointState
<1>5. z \in Voice!EndpointState /\ z.at = "askstart" /\ z.dev = x.dev /\ z.last = x.last /\ z.key = k
  BY <1>2 DEF Voice!EndpointState
<1>6. ~x.last
  BY <1>1, <1>3 DEF VoiceInv, Starting
<1>7. Moves(x, z, e)
  BY <1>3, <1>4, <1>5, <1>6 DEF Moves, Watches
<1>8. waiting' \in Seq(VoiceEndpoint \cup Pump)
  BY WaitersAreKnown DEF Voice!StartFrame, VoiceInv
<1>9. holder' \in VoiceEndpoint \cup {NoEndpoint}
  BY <1>3 DEF VoiceInv, Voice!TypeOK
<1>10. \A f \in VoiceEndpoint : endpoint[f].at = "start" => holder' = f
  BY <1>3 DEF VoiceInv, Starting
<1>11. QED  BY <1>1, <1>3, <1>7, <1>8, <1>9, <1>10, EndpointMoves

LEMMA BeginStartKeeps ==
  ASSUME VoiceInv, NEW e \in VoiceEndpoint, Voice!BeginStart(e)
  PROVE  VoiceInv'
<1>1. PICK x \in Voice!EndpointState : x = endpoint[e]
  BY DEF VoiceInv, Voice!TypeOK
<1>2. x.dev \in Device
  BY DEF Voice!EndpointState
<1>3. /\ x.at = "askstart" /\ Voice!Gets(e) /\ UNCHANGED <<sessions, bound, pump, overlapped>>
  BY <1>1 DEF Voice!BeginStart
<1>4. waiting' \in Seq(VoiceEndpoint \cup Pump)
  BY <1>3, WaitersAreKnown DEF VoiceInv
<1>5. \A f \in VoiceEndpoint : endpoint[f].at # "start"
  BY <1>3, NoneAssumption DEF VoiceInv, Starting, Voice!Gets
<1>6. CASE bound[x.dev] # NoKey
  <2>1. sessions[bound[x.dev]] # NoPump
    BY <1>2, <1>6 DEF VoiceInv, Voice!BindingIsMutual
  <2>2. Voice!Done(e) /\ holder' = holder
    BY <1>1, <1>6, <2>1 DEF Voice!BeginStart
  <2>3. PICK z : Moves(endpoint[e], z, e) /\ endpoint' = [endpoint EXCEPT ![e] = z]
    BY <1>1, <1>3, <2>2, DoneMoves
  <2>4. holder' \in VoiceEndpoint \cup {NoEndpoint}
    BY <2>2 DEF VoiceInv, Voice!TypeOK
  <2>5. QED  BY <1>3, <1>4, <1>5, <2>3, <2>4, EndpointMoves
<1>7. CASE bound[x.dev] = NoKey
  <2>1. PICK z : z = [x EXCEPT !.at = "start"]
    OBVIOUS
  <2>2. endpoint' = [endpoint EXCEPT ![e] = z] /\ holder' = e
    BY <1>1, <1>7, <2>1 DEF Voice!BeginStart, VoiceInv, Voice!TypeOK
  <2>3. /\ z \in Voice!EndpointState /\ z.at = "start" /\ z.dev = x.dev /\ z.last = x.last
        /\ z.key = x.key
    BY <2>1 DEF Voice!EndpointState
  <2>4. ~x.last /\ x.key \in KeyOf(x.dev)
    BY <1>1, <1>3 DEF VoiceInv, Starting
  <2>5. Moves(x, z, e)
    BY <1>3, <1>7, <2>2, <2>3, <2>4 DEF Moves, Watches
  <2>6. QED  BY <1>1, <1>3, <1>4, <1>5, <2>2, <2>5, EndpointMoves
<1>8. QED  BY <1>6, <1>7

LEMMA StartFailsKeeps ==
  ASSUME VoiceInv, NEW e \in VoiceEndpoint, Voice!StartFails(e)
  PROVE  VoiceInv'
<1>1. /\ endpoint[e].at = "start" /\ holder' = NoEndpoint
      /\ Voice!LookUp(e, TRUE) \/ (Voice!Done(e) /\ UNCHANGED waiting)
      /\ UNCHANGED <<sessions, bound, pump, overlapped>>
  BY DEF Voice!StartFails
<1>2. PICK z : Moves(endpoint[e], z, e) /\ endpoint' = [endpoint EXCEPT ![e] = z]
  BY <1>1, LookUpMoves, DoneMoves
<1>3. waiting' \in Seq(VoiceEndpoint \cup Pump)
  BY <1>1, LookUpMoves DEF VoiceInv, Voice!TypeOK
<1>4. \A f \in VoiceEndpoint \ {e} : endpoint[f].at # "start"
  BY <1>1 DEF VoiceInv, Starting
<1>5. QED  BY <1>1, <1>2, <1>3, <1>4, EndpointMoves

LEMMA LookUpKeeps ==
  ASSUME VoiceInv, NEW e \in VoiceEndpoint, Voice!End(e) \/ Voice!StopFrame(e)
  PROVE  VoiceInv'
<1>1. /\ endpoint[e].at = "open" /\ \E last \in BOOLEAN : Voice!LookUp(e, last)
      /\ UNCHANGED <<sessions, bound, holder, pump, overlapped>>
  BY DEF Voice!End, Voice!StopFrame
<1>2. PICK last \in BOOLEAN : Voice!LookUp(e, last)
  BY <1>1
<1>3. PICK z : Moves(endpoint[e], z, e) /\ endpoint' = [endpoint EXCEPT ![e] = z]
  BY <1>1, <1>2, LookUpMoves
<1>4. waiting' \in Seq(VoiceEndpoint \cup Pump)
  BY <1>1, <1>2, LookUpMoves
<1>5. holder' \in VoiceEndpoint \cup {NoEndpoint}
  BY <1>1 DEF VoiceInv, Voice!TypeOK
<1>6. \A f \in VoiceEndpoint \ {e} : endpoint[f].at = "start" => holder' = f
  BY <1>1 DEF VoiceInv, Starting
<1>7. QED  BY <1>1, <1>3, <1>4, <1>5, <1>6, EndpointMoves

LEMMA JoinedKeeps ==
  ASSUME VoiceInv, NEW e \in VoiceEndpoint, Voice!Joined(e)
  PROVE  VoiceInv'
<1>1. /\ endpoint[e].at = "join" /\ pump[endpoint[e].pump].at = "over" /\ Voice!Done(e)
      /\ UNCHANGED <<sessions, bound, holder, waiting, pump, overlapped>>
  BY DEF Voice!Joined
<1>2. PICK z : Moves(endpoint[e], z, e) /\ endpoint' = [endpoint EXCEPT ![e] = z]
  BY <1>1, DoneMoves
<1>3. waiting' \in Seq(VoiceEndpoint \cup Pump) /\ holder' \in VoiceEndpoint \cup {NoEndpoint}
  BY <1>1 DEF VoiceInv, Voice!TypeOK
<1>4. \A f \in VoiceEndpoint \ {e} : endpoint[f].at = "start" => holder' = f
  BY <1>1 DEF VoiceInv, Starting
<1>5. QED  BY <1>1, <1>2, <1>3, <1>4, EndpointMoves

\* A pump goes on from x to y: as the same pump, and a cancellation stays one.
Ages(x, y) ==
  /\ x \in Voice!PumpState /\ y \in Voice!PumpState
  /\ y.dev = x.dev /\ y.key = x.key /\ (y.at = "none" <=> x.at = "none")
  /\ x.cancel # "no" => y.cancel # "no"
  /\ y.at \in {"run", "unlink"} => x.at \in {"run", "unlink"}

PumpsAge == \A q \in Pump : Ages(pump[q], pump'[q])

\* One pump goes on.
LEMMA PumpAges ==
  ASSUME Voice!TypeOK, NEW p \in Pump, NEW y, Ages(pump[p], y), pump' = [pump EXCEPT ![p] = y]
  PROVE  pump' \in [Pump -> Voice!PumpState] /\ PumpsAge /\ pump'[p] = y
<1>1. pump \in [Pump -> Voice!PumpState] /\ y \in Voice!PumpState
  BY DEF Voice!TypeOK, Ages
<1>2. pump' \in [Pump -> Voice!PumpState] /\ pump'[p] = y
  BY <1>1
<1>3. ASSUME NEW q \in Pump  PROVE Ages(pump[q], pump'[q])
  <2>1. CASE q = p
    BY <1>2, <2>1
  <2>2. CASE q # p
    <3>1. pump'[q] = pump[q] /\ pump[q] \in Voice!PumpState
      BY <1>1, <2>2
    <3>2. QED  BY <3>1 DEF Ages
  <2>3. QED  BY <2>1, <2>2
<1>4. QED  BY <1>2, <1>3 DEF PumpsAge

LEMMA PumpMoves ==
  ASSUME VoiceInv, pump' \in [Pump -> Voice!PumpState], PumpsAge,
         waiting' \in Seq(VoiceEndpoint \cup Pump),
         UNCHANGED <<sessions, bound, holder, endpoint, overlapped>>
  PROVE  VoiceInv'
<1>1. ASSUME NEW k \in Device \X Name, sessions[k] # NoPump
      PROVE  /\ sessions[k] \in Pump /\ pump'[sessions[k]].dev = pump[sessions[k]].dev
             /\ pump'[sessions[k]].key = pump[sessions[k]].key
             /\ pump[sessions[k]].at # "none" => pump'[sessions[k]].at # "none"
  BY <1>1 DEF VoiceInv, Voice!TypeOK, PumpsAge, Ages
<1>2. Voice!TypeOK'
  BY DEF VoiceInv, Voice!TypeOK
<1>3. Starting'
  BY DEF VoiceInv, Starting
<1>4. Joining'
  BY DEF VoiceInv, Joining, PumpsAge, Ages
<1>5. Recorded'
  BY <1>1 DEF VoiceInv, Recorded, PumpsAge, Ages
<1>6. Voice!BindingIsMutual'
  <2>1. ASSUME NEW d \in Device, bound[d] # NoKey
        PROVE  sessions[bound[d]] # NoPump /\ pump'[sessions[bound[d]]].dev = d
    <3>1. bound[d] \in Device \X Name
      BY <2>1 DEF VoiceInv, Voice!TypeOK
    <3>2. QED  BY <1>1, <2>1, <3>1 DEF VoiceInv, Voice!BindingIsMutual
  <2>2. QED  BY <1>1, <2>1 DEF VoiceInv, Voice!BindingIsMutual
<1>7. Voice!SessionHasEndpoint'
  BY <1>1 DEF VoiceInv, Voice!SessionHasEndpoint, Voice!Serves
<1>8. Alone'
  BY DEF VoiceInv, Alone, Serves, PumpsAge, Ages
<1>9. QED  BY <1>2, <1>3, <1>4, <1>5, <1>6, <1>7, <1>8 DEF VoiceInv

LEMMA PumpFailsKeeps ==
  ASSUME VoiceInv, NEW p \in Pump, Voice!PumpFails(p)
  PROVE  VoiceInv'
<1>1. PICK x \in Voice!PumpState : x = pump[p]
  BY DEF VoiceInv, Voice!TypeOK
<1>2. PICK r \in {"no", "asked", "told"} : r = IF x.cancel = "asked" THEN "told" ELSE x.cancel
  BY DEF Voice!PumpState
<1>3. PICK y : y = [x EXCEPT !.at = "unlink", !.cancel = r]
  OBVIOUS
<1>4. x.at = "run" /\ pump' = [pump EXCEPT ![p] = y]
  BY <1>1, <1>2, <1>3 DEF Voice!PumpFails, VoiceInv, Voice!TypeOK
<1>5. Ages(x, y)
  BY <1>2, <1>3, <1>4 DEF Ages, Voice!PumpState
<1>6. pump' \in [Pump -> Voice!PumpState] /\ PumpsAge
  BY <1>1, <1>4, <1>5, PumpAges DEF VoiceInv
<1>7. waiting' \in Seq(VoiceEndpoint \cup Pump)
  BY WaitersAreKnown DEF Voice!PumpFails, VoiceInv
<1>8. QED  BY <1>6, <1>7, PumpMoves DEF Voice!PumpFails

\* A pump is over.
LEMMA PumpIsOver ==
  ASSUME Voice!TypeOK, NEW p \in Pump, pump[p].at = "unlink",
         pump' = [pump EXCEPT ![p].at = "over"]
  PROVE  /\ pump' \in [Pump -> Voice!PumpState] /\ PumpsAge
         /\ pump'[p].at = "over"
<1>1. PICK x \in Voice!PumpState : x = pump[p]
  BY DEF Voice!TypeOK
<1>2. PICK y : y = [x EXCEPT !.at = "over"]
  OBVIOUS
<1>3. pump' = [pump EXCEPT ![p] = y]
  BY <1>1, <1>2 DEF Voice!TypeOK
<1>4. Ages(x, y) /\ y.at = "over"
  BY <1>1, <1>2 DEF Ages, Voice!PumpState
<1>5. QED  BY <1>1, <1>3, <1>4, PumpAges

LEMMA PumpCancelledKeeps ==
  ASSUME VoiceInv, NEW p \in Pump, Voice!PumpCancelled(p)
  PROVE  VoiceInv'
<1>1. pump' \in [Pump -> Voice!PumpState] /\ PumpsAge
  BY PumpIsOver DEF Voice!PumpCancelled, VoiceInv
<1>2. waiting' \in Seq(VoiceEndpoint \cup Pump)
  <2>1. PICK i \in DOMAIN waiting : waiting' = Voice!RemoveAt(waiting, i)
    BY DEF Voice!PumpCancelled
  <2>2. QED  BY <2>1, WaitersAreKnown DEF VoiceInv
<1>3. QED  BY <1>1, <1>2, PumpMoves DEF Voice!PumpCancelled

\* The record under k and the entry of its device d go, and no other.
Forgets(k, d) ==
  /\ sessions' \in [Device \X Name -> Pump \cup {NoPump}]
  /\ bound' \in [Device -> (Device \X Name) \cup {NoKey}]
  /\ bound[d] = k /\ bound'[d] = NoKey
  /\ \A c \in Device : bound'[c] \in {bound[c], NoKey}
  /\ \A j \in Device \X Name : sessions'[j] # NoPump =>
       /\ j # k /\ sessions'[j] = sessions[j] /\ sessions[j] \in Pump
       /\ pump'[sessions[j]].dev = pump[sessions[j]].dev /\ pump[sessions[j]].dev # d

LEMMA RecordGoes ==
  ASSUME VoiceInv, NEW k \in Device \X Name, NEW d \in Device,
         sessions[k] # NoPump, pump[sessions[k]].dev = d,
         sessions' = [sessions EXCEPT ![k] = NoPump], bound' = [bound EXCEPT ![d] = NoKey],
         PumpsAge
  PROVE  Forgets(k, d) /\ Recorded' /\ Voice!BindingIsMutual'
<1>1. bound[d] = k
  BY DEF VoiceInv, Voice!BindingIsMutual
<1>2. /\ sessions' \in [Device \X Name -> Pump \cup {NoPump}]
      /\ bound' \in [Device -> (Device \X Name) \cup {NoKey}]
      /\ bound'[d] = NoKey /\ \A c \in Device \ {d} : bound'[c] = bound[c]
      /\ sessions'[k] = NoPump /\ \A j \in (Device \X Name) \ {k} : sessions'[j] = sessions[j]
  BY DEF VoiceInv, Voice!TypeOK
<1>3. ASSUME NEW j \in Device \X Name, sessions'[j] # NoPump
      PROVE  /\ j # k /\ sessions'[j] = sessions[j] /\ sessions[j] \in Pump
             /\ pump'[sessions[j]].dev = pump[sessions[j]].dev
             /\ pump'[sessions[j]].key = j /\ pump'[sessions[j]].at # "none"
             /\ bound[pump[sessions[j]].dev] = j /\ pump[sessions[j]].dev # d
  <2>1. j # k /\ sessions'[j] = sessions[j]
    BY <1>2, <1>3
  <2>2. PICK q \in Pump : q = sessions[j]
    BY <1>3, <2>1 DEF VoiceInv, Voice!TypeOK
  <2>3. pump[q].at # "none" /\ pump[q].key = j /\ bound[pump[q].dev] = j
    BY <1>3, <2>1, <2>2 DEF VoiceInv, Recorded, Voice!BindingIsMutual
  <2>4. pump'[q].dev = pump[q].dev /\ pump'[q].key = pump[q].key /\ pump'[q].at # "none"
    BY <2>3 DEF PumpsAge, Ages
  <2>5. QED  BY <1>1, <2>1, <2>2, <2>3, <2>4
<1>4. Recorded'
  <2>1. \A p \in Pump : pump'[p].at # "none" => pump'[p].key \in KeyOf(pump'[p].dev)
    BY DEF VoiceInv, Recorded, PumpsAge, Ages
  <2>2. QED  BY <1>3, <2>1 DEF Recorded
<1>5. Voice!BindingIsMutual'
  <2>1. ASSUME NEW c \in Device, bound'[c] # NoKey
        PROVE  sessions'[bound'[c]] # NoPump /\ pump'[sessions'[bound'[c]]].dev = c
    <3>1. c # d /\ bound'[c] = bound[c] /\ bound[c] # NoKey
      BY <1>2, <2>1
    <3>2. /\ bound[c] \in KeyOf(c) /\ sessions[bound[c]] \in Pump
          /\ pump[sessions[bound[c]]].dev = c
      BY <3>1, BoundIsOwn
    <3>3. bound[c] # k /\ bound[c] \in Device \X Name
      <4>1. k \in KeyOf(d)
        BY <1>1, BoundIsOwn, KeysAreOfOne
      <4>2. QED  BY <3>1, <3>2, <4>1, KeysAreOfOne
    <3>4. sessions'[bound[c]] = sessions[bound[c]]
      BY <1>2, <3>3
    <3>5. sessions'[bound[c]] # NoPump
      BY <3>2, <3>4, NoneAssumption
    <3>6. QED  BY <1>3, <3>1, <3>2, <3>3, <3>4, <3>5
  <2>2. ASSUME NEW j \in Device \X Name, sessions'[j] # NoPump
        PROVE  bound'[pump'[sessions'[j]].dev] = j
    <3>1. PICK c \in Device : c = pump[sessions[j]].dev
      BY <1>3, <2>2 DEF VoiceInv, Voice!TypeOK, Voice!PumpState
    <3>2. QED  BY <1>2, <1>3, <2>2, <3>1
  <2>3. QED  BY <2>1, <2>2 DEF Voice!BindingIsMutual
<1>6. Forgets(k, d)
  BY <1>1, <1>2, <1>3 DEF Forgets
<1>7. QED  BY <1>4, <1>5, <1>6

LEMMA StopKeeps ==
  ASSUME VoiceInv, NEW e \in VoiceEndpoint, Voice!Stop(e)
  PROVE  VoiceInv'
<1>1. PICK x \in Voice!EndpointState : x = endpoint[e]
  BY DEF VoiceInv, Voice!TypeOK
<1>2. /\ x.at = "askstop" /\ Voice!Gets(e) /\ UNCHANGED <<holder, overlapped>>
  BY <1>1 DEF Voice!Stop
<1>3. waiting' \in Seq(VoiceEndpoint \cup Pump)
  BY <1>2, WaitersAreKnown DEF VoiceInv
<1>4. \A f \in VoiceEndpoint : endpoint[f].at # "start"
  BY <1>2, NoneAssumption DEF VoiceInv, Starting, Voice!Gets
<1>5. PICK k \in Device \X Name : k = x.key /\ k \in KeyOf(x.dev)
  BY <1>1, <1>2 DEF VoiceInv, Starting, KeyOf, Voice!EndpointState
<1>6. CASE sessions[k] = NoPump
  <2>1. Voice!Done(e) /\ UNCHANGED <<sessions, bound, pump>>
    BY <1>1, <1>5, <1>6 DEF Voice!Stop
  <2>2. PICK z : Moves(endpoint[e], z, e) /\ endpoint' = [endpoint EXCEPT ![e] = z]
    BY <1>1, <1>2, <1>5, <1>6, <2>1, DoneMoves
  <2>3. holder' \in VoiceEndpoint \cup {NoEndpoint}
    BY <1>2 DEF VoiceInv, Voice!TypeOK
  <2>4. QED  BY <1>2, <1>3, <1>4, <2>1, <2>2, <2>3, EndpointMoves
<1>7. CASE sessions[k] # NoPump
  <2>1. PICK p \in Pump : p = sessions[k]
    BY <1>7 DEF VoiceInv, Voice!TypeOK
  <2>2. PICK y \in Voice!PumpState : y = pump[p]
    BY DEF VoiceInv, Voice!TypeOK
  <2>3. PICK d \in Device : d = y.dev
    BY DEF Voice!PumpState
  <2>4. x.dev = d
    <3>1. y.key = k /\ y.key \in KeyOf(d)
      BY <1>7, <2>1, <2>2, <2>3 DEF VoiceInv, Recorded
    <3>2. QED  BY <1>5, <2>3, <3>1, KeysAreOfOne DEF Voice!EndpointState
  <2>5. PICK w : w = [y EXCEPT !.cancel = "asked"]
    OBVIOUS
  <2>6. PICK z : z = [x EXCEPT !.at = "join", !.pump = p]
    OBVIOUS
  <2>7. /\ sessions' = [sessions EXCEPT ![k] = NoPump] /\ bound' = [bound EXCEPT ![d] = NoKey]
        /\ pump' = [pump EXCEPT ![p] = w] /\ endpoint' = [endpoint EXCEPT ![e] = z]
    BY <1>1, <1>5, <1>7, <2>1, <2>2, <2>3, <2>5, <2>6 DEF Voice!Stop, VoiceInv, Voice!TypeOK
  <2>8. Ages(y, w) /\ w.cancel = "asked"
    BY <2>2, <2>5 DEF Ages, Voice!PumpState
  <2>9. pump' \in [Pump -> Voice!PumpState] /\ PumpsAge /\ pump'[p] = w
    BY <2>2, <2>7, <2>8, PumpAges DEF VoiceInv
  <2>10. /\ z \in Voice!EndpointState /\ z.at = "join" /\ z.pump = p /\ z.dev = d
         /\ z.last = x.last
    BY <2>4, <2>6 DEF Voice!EndpointState
  <2>11. /\ endpoint' \in [VoiceEndpoint -> Voice!EndpointState] /\ endpoint'[e] = z
         /\ \A f \in VoiceEndpoint \ {e} : endpoint'[f] = endpoint[f]
    BY <2>7, <2>10 DEF VoiceInv, Voice!TypeOK
  <2>12. Forgets(k, d) /\ Recorded' /\ Voice!BindingIsMutual'
    BY <1>7, <2>1, <2>2, <2>3, <2>7, <2>9, RecordGoes
  <2>13. Voice!TypeOK'
    BY <1>2, <1>3, <2>9, <2>11, <2>12 DEF VoiceInv, Voice!TypeOK, Forgets
  <2>14. Starting'
    <3>1. ASSUME NEW f \in VoiceEndpoint
          PROVE  /\ endpoint'[f].at # "start"
                 /\ endpoint'[f].at \in {"askstart", "start", "askstop"}
                      => endpoint'[f].key \in KeyOf(endpoint'[f].dev)
                 /\ endpoint'[f].last => endpoint'[f].at \in {"askstop", "join", "gone"}
      <4>1. CASE f = e
        BY <2>10, <2>11, <4>1
      <4>2. CASE f # e
        BY <1>4, <2>11, <4>2 DEF VoiceInv, Starting
      <4>3. QED  BY <4>1, <4>2
    <3>2. QED  BY <3>1 DEF Starting
  <2>15. Joining'
    <3>1. ASSUME NEW f \in VoiceEndpoint, endpoint'[f].at = "join"
          PROVE  endpoint'[f].pump \in Pump /\ pump'[endpoint'[f].pump].cancel # "no"
      <4>1. CASE f = e
        BY <2>8, <2>9, <2>10, <2>11, <4>1
      <4>2. CASE f # e
        BY <2>9, <2>11, <3>1, <4>2 DEF VoiceInv, Joining, PumpsAge, Ages
      <4>3. QED  BY <4>1, <4>2
    <3>2. QED  BY <3>1 DEF Joining
  <2>16. Voice!SessionHasEndpoint'
    <3> SUFFICES ASSUME NEW j \in Device \X Name, sessions'[j] # NoPump
                 PROVE  \E f \in VoiceEndpoint :
                          endpoint'[f].dev = pump'[sessions'[j]].dev /\ Watches(endpoint'[f], j)
      BY DEF Voice!SessionHasEndpoint, Voice!Serves, Watches
    <3>1. PICK q \in Pump : /\ q = sessions[j] /\ sessions'[j] = q /\ q # NoPump
                            /\ pump'[q].dev = pump[q].dev /\ pump[q].dev # d
      BY <2>12 DEF Forgets
    <3>2. PICK f \in VoiceEndpoint : endpoint[f].dev = pump[q].dev /\ Watches(endpoint[f], j)
      BY <3>1 DEF VoiceInv, Voice!SessionHasEndpoint, Voice!Serves, Watches
    <3>3. f # e
      BY <1>1, <2>4, <3>1, <3>2
    <3>4. QED  BY <2>11, <3>1, <3>2, <3>3
  <2>17. Alone'
    <3> SUFFICES ASSUME NEW c \in Device, c \notin overlapped
                 PROVE  /\ \A f, g \in VoiceEndpoint : Serves(f, c)' /\ Serves(g, c)' => f = g
                        /\ \A f \in VoiceEndpoint :
                             endpoint'[f].dev = c /\ endpoint'[f].at = "join" => bound'[c] = NoKey
                        /\ \A q \in Pump :
                             pump'[q].dev = c /\ pump'[q].at \in {"run", "unlink"} =>
                               \/ sessions'[pump'[q].key] = q
                               \/ \E f \in VoiceEndpoint :
                                    Serves(f, c)' /\ endpoint'[f].at = "join" /\ endpoint'[f].pump = q
      BY <1>2 DEF Alone
    <3>1. \A f \in VoiceEndpoint : Serves(f, c)' <=> Serves(f, c)
      BY <1>1, <1>2, <2>4, <2>10, <2>11 DEF Serves
    <3>2. ASSUME NEW f \in VoiceEndpoint, endpoint'[f].dev = c, endpoint'[f].at = "join"
          PROVE  bound'[c] = NoKey
      <4>1. CASE f = e
        BY <2>10, <2>11, <2>12, <3>2, <4>1 DEF Forgets
      <4>2. CASE f # e
        BY <2>11, <2>12, <3>2, <4>2 DEF VoiceInv, Alone, Forgets
      <4>3. QED  BY <4>1, <4>2
    <3>3. ASSUME NEW q \in Pump, pump'[q].dev = c, pump'[q].at \in {"run", "unlink"},
                 sessions'[pump'[q].key] # q
          PROVE  \E f \in VoiceEndpoint :
                   Serves(f, c)' /\ endpoint'[f].at = "join" /\ endpoint'[f].pump = q
      <4>1. pump[q].dev = c /\ pump[q].at \in {"run", "unlink"} /\ pump'[q].key = pump[q].key
        BY <2>9, <3>3 DEF PumpsAge, Ages
      <4>2. pump[q].key \in Device \X Name
        BY <4>1, KeysAreOfOne DEF VoiceInv, Recorded
      <4>3. CASE sessions[pump[q].key] = q
        <5>1. pump[q].key = k
          BY <2>7, <3>3, <4>1, <4>2, <4>3 DEF VoiceInv, Voice!TypeOK
        <5>2. q = p /\ c = d
          BY <2>1, <2>2, <2>3, <4>1, <4>3, <5>1
        <5>3. QED  BY <2>10, <2>11, <5>2 DEF Serves
      <4>4. CASE sessions[pump[q].key] # q
        <5>1. PICK f \in VoiceEndpoint :
                Serves(f, c) /\ endpoint[f].at = "join" /\ endpoint[f].pump = q
          BY <4>1, <4>4 DEF VoiceInv, Alone
        <5>2. f # e
          BY <1>1, <1>2, <5>1
        <5>3. QED  BY <2>11, <3>1, <5>1, <5>2
      <4>5. QED  BY <4>3, <4>4
    <3>4. \A f, g \in VoiceEndpoint : Serves(f, c)' /\ Serves(g, c)' => f = g
      BY <3>1 DEF VoiceInv, Alone
    <3>5. QED  BY <3>2, <3>3, <3>4
  <2>18. QED  BY <2>12, <2>13, <2>14, <2>15, <2>16, <2>17 DEF VoiceInv
<1>8. QED  BY <1>6, <1>7

LEMMA UnlinkKeeps ==
  ASSUME VoiceInv, NEW p \in Pump, Voice!Unlink(p)
  PROVE  VoiceInv'
<1>1. PICK x \in Voice!PumpState : x = pump[p]
  BY DEF VoiceInv, Voice!TypeOK
<1>2. x.at = "unlink" /\ Voice!Gets(p) /\ UNCHANGED <<holder, endpoint, overlapped>>
  BY <1>1 DEF Voice!Unlink
<1>3. pump' \in [Pump -> Voice!PumpState] /\ PumpsAge /\ pump'[p].at = "over"
  BY <1>1, <1>2, PumpIsOver DEF Voice!Unlink, VoiceInv
<1>4. waiting' \in Seq(VoiceEndpoint \cup Pump)
  BY <1>2, WaitersAreKnown DEF VoiceInv
<1>5. PICK d \in Device : d = x.dev
  BY DEF Voice!PumpState
<1>6. PICK k \in Device \X Name : k = x.key
  BY <1>1, <1>2, <1>5, KeysAreOfOne DEF VoiceInv, Recorded
<1>7. CASE ~(sessions[k] # NoPump /\ pump[sessions[k]].dev = d)
  <2>1. UNCHANGED <<sessions, bound>>
    BY <1>1, <1>5, <1>6, <1>7 DEF Voice!Unlink
  <2>2. QED  BY <1>2, <1>3, <1>4, <2>1, PumpMoves
<1>8. CASE sessions[k] # NoPump /\ pump[sessions[k]].dev = d
  <2>1. sessions' = [sessions EXCEPT ![k] = NoPump] /\ bound' = [bound EXCEPT ![d] = NoKey]
    BY <1>1, <1>5, <1>6, <1>8 DEF Voice!Unlink
  <2>2. Forgets(k, d) /\ Recorded' /\ Voice!BindingIsMutual'
    BY <1>3, <1>8, <2>1, RecordGoes
  <2>3. Voice!TypeOK'
    BY <1>2, <1>3, <1>4, <2>2 DEF VoiceInv, Voice!TypeOK, Forgets
  <2>4. Starting'
    <3>1. \A f \in VoiceEndpoint : endpoint[f].at # "start"
      BY <1>2, NoneAssumption DEF VoiceInv, Starting, Voice!Gets
    <3>2. QED  BY <1>2, <3>1 DEF VoiceInv, Starting
  <2>5. Joining'
    BY <1>2, <1>3 DEF VoiceInv, Joining, PumpsAge, Ages
  <2>6. Voice!SessionHasEndpoint'
    <3> SUFFICES ASSUME NEW j \in Device \X Name, sessions'[j] # NoPump
                 PROVE  \E f \in VoiceEndpoint :
                          endpoint[f].dev = pump'[sessions'[j]].dev /\ Watches(endpoint[f], j)
      BY <1>2 DEF Voice!SessionHasEndpoint, Voice!Serves, Watches
    <3>1. sessions'[j] = sessions[j] /\ pump'[sessions[j]].dev = pump[sessions[j]].dev
      BY <2>2 DEF Forgets
    <3>2. QED  BY <3>1 DEF VoiceInv, Voice!SessionHasEndpoint, Voice!Serves, Watches
  <2>7. Alone'
    <3> SUFFICES ASSUME NEW c \in Device, c \notin overlapped
                 PROVE  /\ \A f, g \in VoiceEndpoint : Serves(f, c) /\ Serves(g, c) => f = g
                        /\ \A f \in VoiceEndpoint :
                             endpoint[f].dev = c /\ endpoint[f].at = "join" => bound'[c] = NoKey
                        /\ \A q \in Pump :
                             pump'[q].dev = c /\ pump'[q].at \in {"run", "unlink"} =>
                               \/ sessions'[pump'[q].key] = q
                               \/ \E f \in VoiceEndpoint :
                                    Serves(f, c) /\ endpoint[f].at = "join" /\ endpoint[f].pump = q
      BY <1>2 DEF Alone, Serves
    <3>1. ASSUME NEW q \in Pump, pump'[q].dev = c, pump'[q].at \in {"run", "unlink"},
                 sessions'[pump'[q].key] # q
          PROVE  \E f \in VoiceEndpoint :
                   Serves(f, c) /\ endpoint[f].at = "join" /\ endpoint[f].pump = q
      <4>1. pump[q].dev = c /\ pump[q].at \in {"run", "unlink"} /\ pump'[q].key = pump[q].key
        BY <1>3, <3>1 DEF PumpsAge, Ages
      <4>2. pump[q].key \in Device \X Name
        BY <4>1, KeysAreOfOne DEF VoiceInv, Recorded
      <4>3. sessions[pump[q].key] # q
        <5> SUFFICES ASSUME sessions[pump[q].key] = q  PROVE FALSE
          OBVIOUS
        <5>1. pump[q].key = k
          BY <2>1, <3>1, <4>1, <4>2 DEF VoiceInv, Voice!TypeOK
        <5>2. sessions[k] = q /\ c = d /\ q # p
          BY <1>3, <1>8, <3>1, <4>1, <5>1
        <5>3. ~ \E f \in VoiceEndpoint :
                Serves(f, d) /\ endpoint[f].at = "join" /\ endpoint[f].pump = p
          BY <2>2, <5>2, KeysAreOfOne DEF VoiceInv, Alone, Serves, Forgets
        <5>4. sessions[k] = p
          BY <1>1, <1>2, <1>5, <1>6, <5>2, <5>3 DEF VoiceInv, Alone
        <5>5. QED  BY <5>2, <5>4
      <4>4. QED  BY <4>1, <4>3 DEF VoiceInv, Alone
    <3>2. QED  BY <2>2, <3>1 DEF VoiceInv, Alone, Forgets
  <2>8. QED  BY <2>2, <2>3, <2>4, <2>5, <2>6, <2>7 DEF VoiceInv
<1>9. QED  BY <1>7, <1>8

LEMMA StartedKeeps ==
  ASSUME VoiceInv, NEW e \in VoiceEndpoint, NEW p \in Pump, Voice!Started(e, p)
  PROVE  VoiceInv'
<1>1. PICK x \in Voice!EndpointState : x = endpoint[e]
  BY DEF VoiceInv, Voice!TypeOK
<1>2. PICK d \in Device : d = x.dev
  BY DEF Voice!EndpointState
<1>3. /\ x.at = "start" /\ pump[p].at = "none" /\ holder = e /\ bound[d] = NoKey /\ ~x.last
      /\ x.key \in KeyOf(d)
  BY <1>1, <1>2 DEF Voice!Started, VoiceInv, Starting
<1>4. PICK k \in Device \X Name : k = x.key
  BY <1>3, KeysAreOfOne
<1>5. PICK y \in Voice!PumpState : y = pump[p]
  BY DEF VoiceInv, Voice!TypeOK
<1>6. PICK w : w = [y EXCEPT !.at = "run", !.dev = d, !.key = k]
  OBVIOUS
<1>7. PICK z : z = [x EXCEPT !.at = "open", !.key = NoKey, !.pump = NoPump]
  OBVIOUS
<1>8. /\ sessions' = [sessions EXCEPT ![k] = p] /\ bound' = [bound EXCEPT ![d] = k]
      /\ pump' = [pump EXCEPT ![p] = w] /\ endpoint' = [endpoint EXCEPT ![e] = z]
      /\ holder' = NoEndpoint /\ UNCHANGED <<waiting, overlapped>>
  BY <1>1, <1>2, <1>3, <1>4, <1>5, <1>6, <1>7
     DEF Voice!Started, Voice!Done, VoiceInv, Voice!TypeOK
<1>9. /\ w \in Voice!PumpState /\ w.at = "run" /\ w.dev = d /\ w.key = k
      /\ w.cancel = y.cancel
  BY <1>6 DEF Voice!PumpState
<1>10. z \in Voice!EndpointState /\ z.at = "open" /\ z.dev = d /\ ~z.last
  BY <1>2, <1>3, <1>7 DEF Voice!EndpointState
<1>11. /\ Voice!TypeOK'
       /\ sessions'[k] = p /\ \A j \in (Device \X Name) \ {k} : sessions'[j] = sessions[j]
       /\ bound'[d] = k /\ \A c \in Device \ {d} : bound'[c] = bound[c]
       /\ pump'[p] = w /\ \A q \in Pump \ {p} : pump'[q] = pump[q]
       /\ endpoint'[e] = z /\ \A f \in VoiceEndpoint \ {e} : endpoint'[f] = endpoint[f]
  BY <1>8, <1>9, <1>10 DEF VoiceInv, Voice!TypeOK
<1>12. /\ p # NoPump /\ k # NoKey /\ k \in KeyOf(d)
       /\ \A c \in Device : k \in KeyOf(c) => c = d
  BY <1>3, <1>4, KeysAreOfOne, NoneAssumption
<1>13. ASSUME NEW j \in Device \X Name, j # k, sessions[j] # NoPump
       PROVE  /\ sessions[j] \in Pump \ {p} /\ pump[sessions[j]].dev \in Device \ {d}
              /\ pump'[sessions[j]] = pump[sessions[j]] /\ sessions'[j] = sessions[j]
  <2>1. PICK q \in Pump : q = sessions[j]
    BY <1>13 DEF VoiceInv, Voice!TypeOK
  <2>2. pump[q].at # "none" /\ q # p
    BY <1>3, <1>13, <2>1 DEF VoiceInv, Recorded
  <2>3. pump[q].dev \in Device
    BY DEF VoiceInv, Voice!TypeOK, Voice!PumpState
  <2>4. pump[q].dev # d
    BY <1>3, <1>13, <2>1, UnboundIsUnrecorded
  <2>5. QED  BY <1>11, <1>13, <2>1, <2>2, <2>3, <2>4
<1>14. Starting'
  <2>1. ASSUME NEW f \in VoiceEndpoint
        PROVE  /\ endpoint'[f].at # "start"
               /\ endpoint'[f].at \in {"askstart", "start", "askstop"}
                    => endpoint'[f].key \in KeyOf(endpoint'[f].dev)
               /\ endpoint'[f].last => endpoint'[f].at \in {"askstop", "join", "gone"}
    <3>1. CASE f = e
      BY <1>10, <1>11, <3>1
    <3>2. CASE f # e
      BY <1>3, <1>11, <3>2 DEF VoiceInv, Starting
    <3>3. QED  BY <3>1, <3>2
  <2>2. QED  BY <2>1 DEF Starting
<1>15. Joining'
  <2>1. ASSUME NEW f \in VoiceEndpoint, endpoint'[f].at = "join"
        PROVE  endpoint'[f].pump \in Pump /\ pump'[endpoint'[f].pump].cancel # "no"
    <3>1. endpoint'[f] = endpoint[f]
      BY <1>10, <1>11, <2>1
    <3>2. PICK q \in Pump : q = endpoint[f].pump /\ pump[q].cancel # "no"
      BY <2>1, <3>1 DEF VoiceInv, Joining
    <3>3. pump'[q].cancel = pump[q].cancel
      BY <1>5, <1>9, <1>11
    <3>4. QED  BY <3>1, <3>2, <3>3
  <2>2. QED  BY <2>1 DEF Joining
<1>16. Recorded'
  <2>1. ASSUME NEW q \in Pump, pump'[q].at # "none"
        PROVE  pump'[q].key \in KeyOf(pump'[q].dev)
    BY <1>9, <1>11, <1>12, <2>1 DEF VoiceInv, Recorded
  <2>2. ASSUME NEW j \in Device \X Name, sessions'[j] # NoPump
        PROVE  pump'[sessions'[j]].at # "none" /\ pump'[sessions'[j]].key = j
    <3>1. CASE j = k
      BY <1>9, <1>11, <3>1
    <3>2. CASE j # k
      BY <1>11, <1>13, <2>2, <3>2 DEF VoiceInv, Recorded
    <3>3. QED  BY <3>1, <3>2
  <2>3. QED  BY <2>1, <2>2 DEF Recorded
<1>17. Voice!BindingIsMutual'
  <2>1. ASSUME NEW c \in Device, bound'[c] # NoKey
        PROVE  sessions'[bound'[c]] # NoPump /\ pump'[sessions'[bound'[c]]].dev = c
    <3>1. CASE c = d
      BY <1>9, <1>11, <1>12, <3>1
    <3>2. CASE c # d
      <4>1. /\ bound'[c] = bound[c] /\ bound[c] \in KeyOf(c) /\ sessions[bound[c]] \in Pump
            /\ pump[sessions[bound[c]]].dev = c
        BY <1>11, <2>1, <3>2, BoundIsOwn
      <4>2. PICK j \in Device \X Name : j = bound[c] /\ j # k /\ sessions[j] # NoPump
        BY <1>12, <3>2, <4>1, KeysAreOfOne, NoneAssumption
      <4>3. QED  BY <1>13, <4>1, <4>2
    <3>3. QED  BY <3>1, <3>2
  <2>2. ASSUME NEW j \in Device \X Name, sessions'[j] # NoPump
        PROVE  bound'[pump'[sessions'[j]].dev] = j
    <3>1. CASE j = k
      BY <1>9, <1>11, <3>1
    <3>2. CASE j # k
      BY <1>11, <1>13, <2>2, <3>2 DEF VoiceInv, Voice!BindingIsMutual
    <3>3. QED  BY <3>1, <3>2
  <2>3. QED  BY <2>1, <2>2 DEF Voice!BindingIsMutual
<1>18. Voice!SessionHasEndpoint'
  <2> SUFFICES ASSUME NEW j \in Device \X Name, sessions'[j] # NoPump
               PROVE  \E f \in VoiceEndpoint :
                        endpoint'[f].dev = pump'[sessions'[j]].dev /\ Watches(endpoint'[f], j)
    BY DEF Voice!SessionHasEndpoint, Voice!Serves, Watches
  <2>1. CASE j = k
    <3>1. endpoint'[e].dev = pump'[sessions'[j]].dev /\ Watches(endpoint'[e], j)
      BY <1>9, <1>10, <1>11, <2>1 DEF Watches
    <3>2. QED  BY <3>1
  <2>2. CASE j # k
    <3>1. /\ sessions[j] # NoPump /\ sessions'[j] = sessions[j]
          /\ pump'[sessions[j]] = pump[sessions[j]] /\ pump[sessions[j]].dev # d
      BY <1>11, <1>13, <2>2
    <3>2. PICK f \in VoiceEndpoint :
            endpoint[f].dev = pump[sessions[j]].dev /\ Watches(endpoint[f], j)
      BY <3>1 DEF VoiceInv, Voice!SessionHasEndpoint, Voice!Serves, Watches
    <3>3. f # e
      BY <1>1, <1>2, <3>1, <3>2
    <3>4. QED  BY <1>11, <3>1, <3>2, <3>3
  <2>3. QED  BY <2>1, <2>2
<1>19. Alone'
  <2> SUFFICES ASSUME NEW c \in Device, c \notin overlapped
               PROVE  /\ \A f, g \in VoiceEndpoint : Serves(f, c)' /\ Serves(g, c)' => f = g
                      /\ \A f \in VoiceEndpoint :
                           endpoint'[f].dev = c /\ endpoint'[f].at = "join" => bound'[c] = NoKey
                      /\ \A q \in Pump :
                           pump'[q].dev = c /\ pump'[q].at \in {"run", "unlink"} =>
                             \/ sessions'[pump'[q].key] = q
                             \/ \E f \in VoiceEndpoint :
                                  Serves(f, c)' /\ endpoint'[f].at = "join" /\ endpoint'[f].pump = q
    BY <1>8 DEF Alone
  <2>1. \A f \in VoiceEndpoint : Serves(f, c)' <=> Serves(f, c)
    BY <1>1, <1>2, <1>3, <1>10, <1>11 DEF Serves
  <2>2. \A f, g \in VoiceEndpoint : Serves(f, c)' /\ Serves(g, c)' => f = g
    BY <2>1 DEF VoiceInv, Alone
  <2>3. ASSUME NEW f \in VoiceEndpoint, endpoint'[f].dev = c, endpoint'[f].at = "join"
        PROVE  bound'[c] = NoKey
    <3>1. f # e /\ endpoint'[f] = endpoint[f]
      BY <1>10, <1>11, <2>3
    <3>2. c # d
      <4>1. Serves(f, c) /\ Serves(e, d)
        BY <1>1, <1>2, <1>3, <2>3, <3>1 DEF Serves
      <4>2. QED  BY <3>1, <4>1 DEF VoiceInv, Alone
    <3>3. QED  BY <1>11, <2>3, <3>1, <3>2 DEF VoiceInv, Alone
  <2>4. ASSUME NEW q \in Pump, pump'[q].dev = c, pump'[q].at \in {"run", "unlink"},
               sessions'[pump'[q].key] # q
        PROVE  \E f \in VoiceEndpoint :
                 Serves(f, c)' /\ endpoint'[f].at = "join" /\ endpoint'[f].pump = q
    <3>1. q # p /\ pump'[q] = pump[q]
      BY <1>9, <1>11, <2>4
    <3>2. pump[q].key \in KeyOf(c) /\ pump[q].key \in Device \X Name
      BY <2>4, <3>1, KeysAreOfOne DEF VoiceInv, Recorded
    <3>3. sessions[pump[q].key] # q
      <4>1. CASE pump[q].key = k
        BY <1>3, <1>12, <4>1, UnboundIsUnrecorded, NoneAssumption
      <4>2. CASE pump[q].key # k
        BY <1>11, <2>4, <3>1, <3>2, <4>2
      <4>3. QED  BY <4>1, <4>2
    <3>4. PICK f \in VoiceEndpoint :
            Serves(f, c) /\ endpoint[f].at = "join" /\ endpoint[f].pump = q
      BY <2>4, <3>1, <3>3 DEF VoiceInv, Alone
    <3>5. f # e
      BY <1>1, <1>3, <3>4
    <3>6. QED  BY <1>11, <2>1, <3>4, <3>5
  <2>5. QED  BY <2>2, <2>3, <2>4
<1>20. QED  BY <1>11, <1>14, <1>15, <1>16, <1>17, <1>18, <1>19 DEF VoiceInv

LEMMA VoiceStep == VoiceInv /\ Voice!Next => VoiceInv'
<1> SUFFICES ASSUME VoiceInv, Voice!Next  PROVE VoiceInv'
  OBVIOUS
<1>1. CASE \E e \in VoiceEndpoint : Voice!Open(e)
  BY <1>1, OpenKeeps
<1>2. CASE \E e \in VoiceEndpoint : Voice!StopFrame(e) \/ Voice!End(e)
  BY <1>2, LookUpKeeps
<1>3. CASE \E e \in VoiceEndpoint : Voice!Proceed(e)
  <2>1. PICK e \in VoiceEndpoint :
          Voice!BeginStart(e) \/ Voice!StartFails(e) \/ (\E p \in Pump : Voice!Started(e, p))
          \/ Voice!Stop(e) \/ Voice!Joined(e)
    BY <1>3 DEF Voice!Proceed
  <2>2. QED  BY <2>1, BeginStartKeeps, StartFailsKeeps, StartedKeeps, StopKeeps, JoinedKeeps
<1>4. CASE \E e \in VoiceEndpoint : \E k \in Device \X Name : Voice!StartFrame(e, k)
  BY <1>4, StartFrameKeeps
<1>5. CASE \E p \in Pump : Voice!PumpFails(p) \/ Voice!PumpCancelled(p) \/ Voice!Unlink(p)
  BY <1>5, PumpFailsKeeps, PumpCancelledKeeps, UnlinkKeeps
<1>6. QED  BY <1>1, <1>2, <1>3, <1>4, <1>5 DEF Voice!Next

LEMMA VoiceStill == VoiceInv /\ UNCHANGED voiceVars => VoiceInv'
BY DEF voiceVars, VoiceInv, Voice!TypeOK, Starting, Joining, Recorded, Alone, Serves,
       Voice!BindingIsMutual, Voice!SessionHasEndpoint, Voice!Serves

LEMMA VoiceInvIsEnough == VoiceInv => Voice!TypeOK /\ VoiceIsStoppable
<1> SUFFICES ASSUME VoiceInv  PROVE Voice!RunningPumpIsKnown
  BY DEF VoiceInv, VoiceIsStoppable
<1> SUFFICES ASSUME NEW p \in Pump, pump[p].at = "run", pump[p].cancel = "no",
                    pump[p].dev \notin overlapped
             PROVE  sessions[pump[p].key] = p
  BY DEF Voice!RunningPumpIsKnown
<1>1. pump[p].dev \in Device
  BY DEF VoiceInv, Voice!TypeOK, Voice!PumpState
<1>2. QED  BY <1>1 DEF VoiceInv, Alone, Joining

-----------------------------------------------------------------------------
(* SessionStream                                                           *)

\* A broadcast has a set of subscribers and a frame.
Casting(src) ==
  \A s \in Source : src[s].at = "cast" => src[s].subs \in Object /\ src[s].frame \in Picture!Frame

PictureInv == Picture!TypeOK /\ Casting(source) /\ WatchersAreServed

LEMMA NoFrame == 0 \in 0..MaxFrame
BY BoundAssumption

LEMMA PictureInit == Picture!Init => PictureInv
<1> SUFFICES ASSUME Picture!Init  PROVE PictureInv
  OBVIOUS
<1>1. Picture!Off \in Picture!View
  BY BoundAssumption, EmptySeq DEF Picture!Off, Picture!View
<1>2. viewer \in [Viewer -> Picture!View]
  BY <1>1 DEF Picture!Init
<1>3. source \in [Source -> Picture!Endpoint] /\ \A s \in Source : source[s].at = "new"
  BY BoundAssumption DEF Picture!Init, Picture!Endpoint
<1>4. Picture!TypeOK
  <2>1. members \in [Object -> SUBSET Watcher]
    BY DEF Picture!Init
  <2>2. QED  BY <1>2, <1>3, <2>1, NoFrame DEF Picture!Init, Picture!TypeOK
<1>5. Casting(source)
  BY <1>3 DEF Casting
<1>6. WatchersAreServed
  BY DEF Picture!Init, WatchersAreServed, Picture!EntryHasWatchers, Picture!WatcherIsKept
<1>7. QED  BY <1>4, <1>5, <1>6 DEF PictureInv

\* The runner's endpoint moves, and nothing else but perhaps its connection.
LEMMA SourceStep ==
  ASSUME PictureInv, source' \in [Source -> Picture!Endpoint], Casting(source'),
         conn' \in Source \cup {NoSource},
         UNCHANGED <<latest, entry, members, viewer, told, orphaned, lastPut>>
  PROVE  PictureInv'
BY DEF PictureInv, Picture!TypeOK, WatchersAreServed, Picture!EntryHasWatchers,
       Picture!WatcherIsKept

LEMMA SourceGoes ==
  ASSUME PictureInv, NEW s \in Source,
         NEW place \in {"new", "replace", "serve", "ping", "close", "end"}, Picture!Goes(s, place)
  PROVE  source' \in [Source -> Picture!Endpoint] /\ Casting(source')
<1>1. PICK x \in Picture!Endpoint : x = source[s]
  BY DEF PictureInv, Picture!TypeOK
<1>2. PICK up \in BOOLEAN : up = (x.up /\ place # "end")
  OBVIOUS
<1>3. PICK y : y = [x EXCEPT !.at = place, !.up = up]
  OBVIOUS
<1>4. source' = [source EXCEPT ![s] = y]
  BY <1>1, <1>2, <1>3 DEF Picture!Goes, PictureInv, Picture!TypeOK
<1>5. y \in Picture!Endpoint /\ y.at = place
  BY <1>3 DEF Picture!Endpoint
<1>6. source' \in [Source -> Picture!Endpoint]
  BY <1>4, <1>5 DEF PictureInv, Picture!TypeOK
<1>7. \A r \in Source : source'[r] = IF r = s THEN y ELSE source[r]
  BY <1>4 DEF PictureInv, Picture!TypeOK
<1>8. QED  BY <1>5, <1>6, <1>7 DEF PictureInv, Casting

\* Sockets that are closed or break.
LEMMA SourceBreaks ==
  ASSUME PictureInv, NEW s \in Source, source' = [source EXCEPT ![s].up = FALSE]
  PROVE  source' \in [Source -> Picture!Endpoint] /\ Casting(source')
<1>1. ASSUME NEW r \in Source
      PROVE  /\ source'[r] \in Picture!Endpoint /\ source'[r].at = source[r].at
             /\ source'[r].subs = source[r].subs /\ source'[r].frame = source[r].frame
  BY DEF PictureInv, Picture!TypeOK, Picture!Endpoint
<1>2. source' \in [Source -> Picture!Endpoint]
  BY <1>1 DEF PictureInv, Picture!TypeOK
<1>3. QED  BY <1>1, <1>2 DEF PictureInv, Casting

LEMMA RunnerConnectKeeps ==
  ASSUME PictureInv, NEW s \in Source, Picture!Connect(s)
  PROVE  PictureInv'
<1>1. CASE conn = NoSource
  <2>1. Picture!Goes(s, "serve") /\ conn' = s /\ UNCHANGED Picture!frames
    BY <1>1 DEF Picture!Connect
  <2>2. QED  BY <2>1, SourceGoes, SourceStep DEF Picture!frames
<1>2. CASE conn # NoSource
  <2>1. PICK old \in Source : old = conn
    BY <1>2 DEF PictureInv, Picture!TypeOK
  <2>2. /\ source' = [source EXCEPT ![s].at = "replace", ![old].up = FALSE]
        /\ conn' = conn /\ UNCHANGED Picture!frames
    BY <1>2, <2>1 DEF Picture!Connect
  <2>3. ASSUME NEW r \in Source
        PROVE  /\ source'[r] \in Picture!Endpoint
               /\ source'[r].at = IF r = s THEN "replace" ELSE source[r].at
               /\ source'[r].subs = source[r].subs /\ source'[r].frame = source[r].frame
    BY ZenonT(40), <2>2 DEF PictureInv, Picture!TypeOK, Picture!Endpoint
  <2>4. source' \in [Source -> Picture!Endpoint]
    BY <2>2, <2>3 DEF PictureInv, Picture!TypeOK
  <2>5. Casting(source')
    BY <2>3 DEF PictureInv, Casting
  <2>6. QED  BY <2>1, <2>2, <2>4, <2>5, SourceStep DEF Picture!frames
<1>3. QED  BY <1>1, <1>2

LEMMA RunnerKeeps ==
  ASSUME PictureInv, NEW s \in Source,
         Picture!Replace(s) \/ Picture!Break(s) \/ Picture!Idle(s) \/ Picture!Pinged(s)
         \/ Picture!End(s)
  PROVE  PictureInv'
<1>1. /\ conn' \in Source \cup {NoSource}
      /\ UNCHANGED <<latest, entry, members, viewer, told, orphaned, lastPut>>
  BY DEF Picture!Replace, Picture!Break, Picture!Idle, Picture!Pinged, Picture!End,
         Picture!frames, PictureInv, Picture!TypeOK
<1>2. CASE Picture!Break(s)
  BY <1>1, <1>2, SourceBreaks, SourceStep DEF Picture!Break
<1>3. CASE ~Picture!Break(s)
  <2>1. \E place \in {"serve", "close", "ping", "end"} : Picture!Goes(s, place)
    BY <1>3 DEF Picture!Replace, Picture!Idle, Picture!Pinged, Picture!End
  <2>2. QED  BY <1>1, <2>1, SourceGoes, SourceStep
<1>4. QED  BY <1>2, <1>3

\* A frame is put into the queues.
LEMMA PutKeepsViews ==
  ASSUME PictureInv, NEW f \in Picture!Frame, Picture!Put(f)
  PROVE  viewer' \in [Viewer -> Picture!View] /\ lastPut' \in 0..MaxFrame
<1>1. lastPut' \in 0..MaxFrame
  BY BoundAssumption DEF Picture!Put, Picture!Frame
<1>2. ASSUME NEW v \in Viewer  PROVE viewer'[v] \in Picture!View
  <2>1. PICK x \in Picture!View : x = viewer[v]
    BY DEF PictureInv, Picture!TypeOK
  <2>2. x.queue \in Seq(Picture!Frame)
    BY DEF Picture!View
  <2>3. PICK q \in Seq(Picture!Frame) : q = Append(x.queue, f)
    BY <2>2, AppendProperties
  <2>4. [x EXCEPT !.queue = q] \in Picture!View
    BY DEF Picture!View
  <2>5. viewer'[v] = IF x.listens THEN [x EXCEPT !.queue = q] ELSE x
    BY <2>1, <2>3 DEF Picture!Put
  <2>6. QED  BY <2>4, <2>5
<1>3. viewer' = [v \in Viewer |-> viewer'[v]]
  BY DEF Picture!Put
<1>4. QED  BY <1>1, <1>2, <1>3

LEMMA CastKeeps ==
  ASSUME PictureInv, NEW s \in Source, Picture!Cast(s)
  PROVE  PictureInv'
<1>1. PICK f \in Picture!Frame : f = latest + 1
  BY DEF Picture!Cast
<1>2. latest' = f /\ UNCHANGED <<conn, entry, members, told, orphaned>>
  BY <1>1 DEF Picture!Cast
<1>3. f \in 0..MaxFrame
  BY BoundAssumption DEF Picture!Frame
<1>4. WatchersAreServed'
  BY <1>2 DEF PictureInv, WatchersAreServed, Picture!EntryHasWatchers, Picture!WatcherIsKept
<1>5. CASE entry = NoObject
  <2>1. Picture!Put(f) /\ source' = source
    BY <1>1, <1>5 DEF Picture!Cast
  <2>2. viewer' \in [Viewer -> Picture!View] /\ lastPut' \in 0..MaxFrame
    BY <2>1, PutKeepsViews
  <2>3. QED  BY <1>2, <1>3, <1>4, <2>1, <2>2 DEF PictureInv, Picture!TypeOK
<1>6. CASE entry # NoObject
  <2>1. entry \in Object /\ members[entry] \subseteq Watcher
    BY <1>6 DEF PictureInv, Picture!TypeOK
  <2>2. PICK x \in Picture!Endpoint : x = source[s]
    BY DEF PictureInv, Picture!TypeOK
  <2>3. PICK y : y = [x EXCEPT !.at = "cast", !.frame = f, !.subs = entry, !.to = members[entry]]
    OBVIOUS
  <2>4. source' = [source EXCEPT ![s] = y] /\ UNCHANGED <<viewer, lastPut>>
    BY <1>1, <1>6, <2>2, <2>3 DEF Picture!Cast, PictureInv, Picture!TypeOK
  <2>5. y \in Picture!Endpoint /\ y.subs \in Object /\ y.frame = f
    BY <1>3, <2>1, <2>3 DEF Picture!Endpoint
  <2>6. /\ source' \in [Source -> Picture!Endpoint]
        /\ \A r \in Source : source'[r] = IF r = s THEN y ELSE source[r]
    BY <2>4, <2>5 DEF PictureInv, Picture!TypeOK
  <2>7. Casting(source')
    BY <2>5, <2>6 DEF PictureInv, Casting
  <2>8. QED  BY <1>2, <1>3, <1>4, <2>4, <2>6, <2>7 DEF PictureInv, Picture!TypeOK
<1>7. QED  BY <1>5, <1>6

LEMMA CastEndsKeeps ==
  ASSUME PictureInv, NEW s \in Source, NEW failed \in SUBSET Watcher, Picture!CastEnds(s, failed)
  PROVE  PictureInv'
<1>1. PICK x \in Picture!Endpoint : x = source[s]
  BY DEF PictureInv, Picture!TypeOK
<1>2. x.at = "cast" /\ x.subs \in Object /\ x.frame \in Picture!Frame
  BY <1>1 DEF Picture!CastEnds, PictureInv, Casting
<1>3. PICK o \in Object : o = x.subs
  BY <1>2
<1>4. PICK left \in SUBSET Watcher : left = members[o] \ failed
  BY DEF PictureInv, Picture!TypeOK
<1>5. PICK lost : lost = IF left = {} /\ entry \notin {o, NoObject} THEN members[entry] ELSE {}
  OBVIOUS
<1>6. /\ members' = [members EXCEPT ![o] = left]
      /\ entry' = IF left = {} THEN NoObject ELSE entry
      /\ told' = told \ failed /\ orphaned' = (orphaned \cup lost) \cap told'
      /\ Picture!Put(x.frame) /\ UNCHANGED <<conn, latest>>
  BY <1>1, <1>3, <1>4, <1>5 DEF Picture!CastEnds, Picture!Stays
<1>7. PICK y : y = [x EXCEPT !.at = "serve", !.frame = 0, !.subs = NoObject, !.to = {}]
  OBVIOUS
<1>8. source' = [source EXCEPT ![s] = y]
  BY <1>1, <1>7 DEF Picture!CastEnds, PictureInv, Picture!TypeOK
<1>9. y \in Picture!Endpoint /\ y.at = "serve"
  BY <1>7, NoFrame DEF Picture!Endpoint
<1>10. /\ source' \in [Source -> Picture!Endpoint]
       /\ \A r \in Source : source'[r] = IF r = s THEN y ELSE source[r]
  BY <1>8, <1>9 DEF PictureInv, Picture!TypeOK
<1>11. Casting(source')
  BY <1>9, <1>10 DEF PictureInv, Casting
<1>12. viewer' \in [Viewer -> Picture!View] /\ lastPut' \in 0..MaxFrame
  BY <1>2, <1>6, PutKeepsViews
<1>13. /\ members' \in [Object -> SUBSET Watcher]
       /\ members'[o] = left /\ \A j \in Object \ {o} : members'[j] = members[j]
  BY <1>6 DEF PictureInv, Picture!TypeOK
<1>14. Picture!TypeOK'
  BY <1>6, <1>10, <1>12, <1>13 DEF PictureInv, Picture!TypeOK
<1>15. Picture!EntryHasWatchers'
  BY <1>4, <1>6, <1>13 DEF PictureInv, Picture!TypeOK, WatchersAreServed, Picture!EntryHasWatchers
<1>16. Picture!WatcherIsKept'
  <2> SUFFICES ASSUME NEW w \in told' \ orphaned'
               PROVE  entry' # NoObject /\ w \in members'[entry']
    BY DEF Picture!WatcherIsKept
  <2>1. w \in told \ orphaned /\ w \notin failed /\ w \notin lost
    BY <1>6
  <2>2. entry \in Object /\ entry # NoObject /\ w \in members[entry]
    BY <2>1, NoneAssumption DEF PictureInv, Picture!TypeOK, WatchersAreServed, Picture!WatcherIsKept
  <2>3. left # {}
    BY <1>4, <1>5, <2>1, <2>2
  <2>4. QED  BY <1>4, <1>6, <1>13, <2>1, <2>2, <2>3
<1>17. QED  BY <1>11, <1>14, <1>15, <1>16 DEF PictureInv, WatchersAreServed

LEMMA SubscribeKeeps ==
  ASSUME PictureInv, NEW w \in Watcher, Picture!Subscribe(w)
  PROVE  PictureInv'
<1>1. PICK o \in Object : /\ entry # NoObject => o = entry
                          /\ entry' = o /\ members' = [members EXCEPT ![o] = members'[o]]
                          /\ members'[o] = IF entry # NoObject THEN members[o] \cup {w} ELSE {w}
  <2>1. CASE entry # NoObject
    <3>1. entry \in Object /\ entry' = entry /\ members' = [members EXCEPT ![entry] = @ \cup {w}]
      BY <2>1 DEF Picture!Subscribe, PictureInv, Picture!TypeOK
    <3>2. members'[entry] = members[entry] \cup {w}
      BY <3>1 DEF PictureInv, Picture!TypeOK
    <3>3. members' = [members EXCEPT ![entry] = members'[entry]]
      BY <3>1, <3>2
    <3>4. QED  BY <2>1, <3>1, <3>2, <3>3
  <2>2. CASE entry = NoObject
    <3>1. PICK f \in [Source -> Object \cup {NoObject}] : f = [r \in Source |-> source[r].subs]
      BY DEF PictureInv, Picture!TypeOK, Picture!Endpoint
    <3>2. \E o \in Object : ~Picture!InUse(o)
      BY <2>2, <3>1, ObjectAssumption, NoneAssumption DEF Picture!InUse
    <3>3. entry' \in Object /\ members' = [members EXCEPT ![entry'] = {w}]
      BY <2>2, <3>2 DEF Picture!Subscribe
    <3>4. PICK o \in Object : o = entry' /\ members' = [members EXCEPT ![o] = {w}]
      BY <3>3
    <3>5. members'[o] = {w}
      BY <3>4 DEF PictureInv, Picture!TypeOK
    <3>6. QED  BY <2>2, <3>4, <3>5
  <2>3. QED  BY <2>1, <2>2
<1>2. /\ told' = told \cup {w} /\ orphaned' = orphaned \ {w}
      /\ UNCHANGED <<conn, source, latest, viewer, lastPut>>
  BY DEF Picture!Subscribe, Picture!others
<1>3. members'[o] \in SUBSET Watcher /\ w \in members'[o]
  BY <1>1 DEF PictureInv, Picture!TypeOK
<1>4. members' \in [Object -> SUBSET Watcher]
  BY <1>1, <1>3 DEF PictureInv, Picture!TypeOK
<1>5. Picture!TypeOK'
  BY <1>1, <1>2, <1>4 DEF PictureInv, Picture!TypeOK
<1>6. Picture!EntryHasWatchers'
  BY <1>1, <1>3 DEF Picture!EntryHasWatchers
<1>7. Picture!WatcherIsKept'
  <2> SUFFICES ASSUME NEW x \in told' \ orphaned'
               PROVE  entry' # NoObject /\ x \in members'[entry']
    BY DEF Picture!WatcherIsKept
  <2>1. o # NoObject
    BY NoneAssumption
  <2>2. CASE x = w
    BY <1>1, <1>3, <2>1, <2>2
  <2>3. CASE x # w
    <3>1. x \in told \ orphaned
      BY <1>2, <2>3
    <3>2. entry # NoObject /\ x \in members[entry]
      BY <3>1 DEF PictureInv, WatchersAreServed, Picture!WatcherIsKept
    <3>3. QED  BY <1>1, <2>1, <3>2
  <2>4. QED  BY <2>2, <2>3
<1>8. QED  BY <1>2, <1>5, <1>6, <1>7 DEF PictureInv, WatchersAreServed

LEMMA UnsubscribeKeeps ==
  ASSUME PictureInv, NEW w \in Watcher, Picture!Unsubscribe(w)
  PROVE  PictureInv'
<1>1. PICK o \in Object : o = entry
  BY DEF Picture!Unsubscribe, PictureInv, Picture!TypeOK
<1>2. /\ members' = [members EXCEPT ![o] = members[o] \ {w}]
      /\ entry' = IF members'[o] = {} THEN NoObject ELSE o
      /\ told' = told \ {w} /\ orphaned' = orphaned \ {w}
      /\ UNCHANGED <<conn, source, latest, viewer, lastPut>>
  BY <1>1 DEF Picture!Unsubscribe, Picture!others
<1>3. /\ members'[o] = members[o] \ {w} /\ members' \in [Object -> SUBSET Watcher]
      /\ entry' \in Object \cup {NoObject}
  BY <1>2 DEF PictureInv, Picture!TypeOK
<1>4. Picture!TypeOK'
  BY <1>2, <1>3 DEF PictureInv, Picture!TypeOK
<1>5. Picture!EntryHasWatchers'
  BY <1>2, <1>3 DEF Picture!EntryHasWatchers
<1>6. Picture!WatcherIsKept'
  <2> SUFFICES ASSUME NEW x \in told' \ orphaned'
               PROVE  entry' # NoObject /\ x \in members'[entry']
    BY DEF Picture!WatcherIsKept
  <2>1. x \in told \ orphaned /\ x # w
    BY <1>2
  <2>2. x \in members[o]
    BY <1>1, <2>1 DEF PictureInv, WatchersAreServed, Picture!WatcherIsKept
  <2>3. QED  BY <1>2, <1>3, <2>1, <2>2, NoneAssumption
<1>7. QED  BY <1>2, <1>4, <1>5, <1>6 DEF PictureInv, WatchersAreServed

\* Views come, go and read what is there.
LEMMA ViewStep ==
  ASSUME PictureInv, NEW v \in Viewer, NEW y \in Picture!View, viewer' = [viewer EXCEPT ![v] = y],
         UNCHANGED Picture!rest
  PROVE  PictureInv'
BY DEF PictureInv, Picture!TypeOK, WatchersAreServed, Picture!EntryHasWatchers,
       Picture!WatcherIsKept, Picture!rest

LEMMA ViewKeeps ==
  ASSUME PictureInv, NEW v \in Viewer,
         Picture!Join(v) \/ Picture!JoinStream(v) \/ Picture!Watches(v) \/ Picture!Leave(v)
  PROVE  PictureInv'
<1>1. PICK x \in Picture!View : x = viewer[v]
  BY DEF PictureInv, Picture!TypeOK
<1>2. PICK n \in 0..MaxFrame : n = latest
  BY DEF PictureInv, Picture!TypeOK
<1>3. PICK z : z = Picture!Off
  OBVIOUS
<1>4. z \in Picture!View
  BY <1>3, NoFrame, EmptySeq DEF Picture!Off, Picture!View
<1>5. UNCHANGED Picture!rest
  BY DEF Picture!Join, Picture!JoinStream, Picture!Watches, Picture!Hello, Picture!FirstSent,
         Picture!Take, Picture!Leave
<1>6. CASE Picture!Join(v)
  <2>1. [z EXCEPT !.at = "hello", !.listens = TRUE] \in Picture!View
    BY <1>4 DEF Picture!View
  <2>2. QED  BY <1>3, <1>5, <1>6, <2>1, ViewStep DEF Picture!Join
<1>7. CASE Picture!JoinStream(v)
  <2>1. PICK u : u = [z EXCEPT !.way = "stream", !.shown = n]
    OBVIOUS
  <2>2. u \in Picture!View
    BY <1>4, <2>1 DEF Picture!View
  <2>3. /\ [u EXCEPT !.at = "loop", !.listens = TRUE] \in Picture!View
        /\ [u EXCEPT !.at = "first"] \in Picture!View
    BY <2>2 DEF Picture!View
  <2>4. PICK y \in Picture!View : viewer' = [viewer EXCEPT ![v] = y]
    BY <1>2, <1>3, <1>7, <2>1, <2>3 DEF Picture!JoinStream
  <2>5. QED  BY <1>5, <2>4, ViewStep
<1>8. CASE Picture!Hello(v)
  <2>1. PICK place \in {"loop", "first"} : place = IF latest = 0 THEN "loop" ELSE "first"
    OBVIOUS
  <2>2. PICK y : y = [x EXCEPT !.at = place, !.shown = n]
    OBVIOUS
  <2>3. y \in Picture!View
    BY <2>2 DEF Picture!View
  <2>4. viewer' = [viewer EXCEPT ![v] = y]
    BY <1>1, <1>2, <1>8, <2>1, <2>2 DEF Picture!Hello, PictureInv, Picture!TypeOK
  <2>5. QED  BY <1>5, <2>3, <2>4, ViewStep
<1>9. CASE Picture!FirstSent(v)
  <2>1. PICK y : y = [x EXCEPT !.at = "loop", !.listens = TRUE]
    OBVIOUS
  <2>2. y \in Picture!View
    BY <2>1 DEF Picture!View
  <2>3. viewer' = [viewer EXCEPT ![v] = y]
    BY <1>1, <1>9, <2>1 DEF Picture!FirstSent, PictureInv, Picture!TypeOK
  <2>4. QED  BY <1>5, <2>2, <2>3, ViewStep
<1>10. CASE Picture!Take(v)
  <2>1. x.queue \in Seq(Picture!Frame) /\ x.queue # <<>>
    BY <1>1, <1>10 DEF Picture!Take, Picture!View
  <2>2. PICK f \in Picture!Frame : f = Head(x.queue)
    BY <2>1, HeadTailProperties
  <2>3. PICK q \in Seq(Picture!Frame) : q = Tail(x.queue)
    BY <2>1, HeadTailProperties
  <2>4. f \in 0..MaxFrame
    BY BoundAssumption DEF Picture!Frame
  <2>5. PICK y : y = [x EXCEPT !.shown = f, !.queue = q]
    OBVIOUS
  <2>6. y \in Picture!View
    BY <2>4, <2>5 DEF Picture!View
  <2>7. viewer' = [viewer EXCEPT ![v] = y]
    BY <1>1, <1>10, <2>2, <2>3, <2>5 DEF Picture!Take, PictureInv, Picture!TypeOK
  <2>8. QED  BY <1>5, <2>6, <2>7, ViewStep
<1>11. CASE Picture!Leave(v)
  BY <1>3, <1>4, <1>5, <1>11, ViewStep DEF Picture!Leave
<1>12. QED  BY <1>6, <1>7, <1>8, <1>9, <1>10, <1>11 DEF Picture!Watches

LEMMA PictureStep == PictureInv /\ Picture!Next => PictureInv'
<1> SUFFICES ASSUME PictureInv, Picture!Next  PROVE PictureInv'
  OBVIOUS
<1>1. CASE \E s \in Source : Picture!Connect(s)
  BY <1>1, RunnerConnectKeeps
<1>2. CASE \E s \in Source : \/ Picture!Replace(s) \/ Picture!Break(s) \/ Picture!Idle(s)
                             \/ Picture!Pinged(s) \/ Picture!End(s)
  BY <1>2, RunnerKeeps
<1>3. CASE \E s \in Source : Picture!Cast(s) \/ Picture!CastOver(s)
  BY <1>3, CastKeeps, CastEndsKeeps DEF Picture!CastOver
<1>4. CASE \E w \in Watcher : Picture!Subscribe(w) \/ Picture!Unsubscribe(w)
  BY <1>4, SubscribeKeeps, UnsubscribeKeeps
<1>5. CASE \E v \in Viewer : \/ Picture!Join(v) \/ Picture!JoinStream(v) \/ Picture!Watches(v)
                             \/ Picture!Leave(v)
  BY <1>5, ViewKeeps
<1>6. QED  BY <1>1, <1>2, <1>3, <1>4, <1>5 DEF Picture!Next

LEMMA PictureStill == PictureInv /\ UNCHANGED pictureVars => PictureInv'
BY DEF pictureVars, PictureInv, Picture!TypeOK, WatchersAreServed, Picture!EntryHasWatchers,
       Picture!WatcherIsKept

-----------------------------------------------------------------------------
(* LocalRunner                                                             *)

Starts(c) == call[c].at \in {"clean", "create", "await", "kill"}
Stops(c) == call[c].at \in {"term", "final"}

\* As long as no start went on beside a stop: the handle's task watches the handle's process,
\* starts and stops work on that, and it runs unnoticed by none of them only if it is ready.
Orderly ==
  /\ \A c, e \in Call : ~(Starts(c) /\ Stops(e))
  /\ task \in {NoProc, handle.process}
  /\ \A p \in Proc : watch[p].at # "none" => p = task /\ (watch[p].at = "wait" => watch[p].on = p)
  /\ \A c \in Call :
       /\ Starts(c) \/ call[c].at = "final" => task = NoProc
       /\ call[c].at \in {"clean", "final"} => ~Local!Up(handle.process)
       /\ call[c].at = "create" => handle.process = NoProc /\ handle.state = "starting"
       /\ call[c].at \in {"await", "kill"} =>
            handle.process = call[c].proc /\ handle.state = "starting"
       /\ call[c].at = "term" /\ Local!Up(handle.process) => handle.process = call[c].proc
  /\ Local!Up(handle.process) =>
       \/ handle.state \in {"ready", "starting"}
       \/ \E c \in Call : call[c].at = "term"

\* A start holds start_lock, and a request has the process it works on.
Booked ==
  \A c \in Call :
    /\ Starts(c) => lock = c
    /\ call[c].at \in {"await", "kill", "term"} => call[c].proc \in Proc
    /\ call[c].at \notin {"await", "kill", "term"} => call[c].proc = NoProc

LocalInv == Local!TypeOK /\ Booked /\ (~raced => Orderly) /\ Local!WorkerIsKnown

LEMMA LocalInit == Local!Init => LocalInv
<1> SUFFICES ASSUME Local!Init  PROVE LocalInv
  OBVIOUS
<1>1. Local!TypeOK
  BY DEF Local!Init, Local!TypeOK, Local!NoWatch, Local!State, Local!Starting, Local!Stopping
<1>2. Booked
  BY DEF Local!Init, Booked, Starts
<1>3. Orderly
  BY DEF Local!Init, Orderly, Starts, Stops, Local!Up, Local!NoWatch
<1>4. Local!WorkerIsKnown
  BY DEF Local!Init, Local!WorkerIsKnown
<1>5. QED  BY <1>1, <1>2, <1>3, <1>4 DEF LocalInv

Caller == [at : {"idle"} \cup Local!Starting \cup Local!Stopping, proc : Proc \cup {NoProc}]

\* A request goes to a place with a process, the others stay where they are.
GoesTo(c, place, p) ==
  /\ call' \in [Call -> Caller] /\ call'[c].at = place /\ call'[c].proc = p
  /\ \A e \in Call \ {c} : call'[e] = call[e]

LEMMA RequestGoes ==
  ASSUME Local!TypeOK, NEW c \in Call,
         NEW place \in {"idle", "clean", "create", "await", "kill", "term", "final"},
         NEW p \in Proc \cup {NoProc}, Local!Goes(c, place, p)
  PROVE  GoesTo(c, place, p)
<1>1. [at |-> place, proc |-> p] \in Caller
  BY DEF Caller, Local!Starting, Local!Stopping
<1>2. call \in [Call -> Caller]
  BY DEF Local!TypeOK, Caller
<1>3. QED  BY <1>1, <1>2 DEF Local!Goes, GoesTo

LEMMA RequestLeaves ==
  ASSUME Local!TypeOK, NEW c \in Call, Local!Leaves(c)
  PROVE  GoesTo(c, "idle", NoProc) /\ lock' = NoCall
<1>1. Local!Goes(c, "idle", NoProc) /\ lock' = NoCall
  BY DEF Local!Leaves
<1>2. GoesTo(c, "idle", NoProc)
  BY <1>1, RequestGoes
<1>3. QED  BY <1>1, <1>2

LEMMA StateSet ==
  ASSUME Local!TypeOK, NEW st \in Local!State, Local!SetState(st)
  PROVE  handle' \in [process : Proc \cup {NoProc}, state : Local!State]
         /\ handle'.process = handle.process /\ handle'.state = st
BY DEF Local!TypeOK, Local!SetState

LEMMA TasksAreCancelled ==
  ASSUME Local!TypeOK, Local!CancelTasks
  PROVE  /\ watch' \in [Proc -> [at : {"none", "new", "wait"}, on : Proc \cup {NoProc}]]
         /\ task' = NoProc
         /\ \A p \in Proc : watch'[p].at # "none" => p # task /\ watch'[p] = watch[p]
<1>1. Local!NoWatch \in [at : {"none", "new", "wait"}, on : Proc \cup {NoProc}]
      /\ Local!NoWatch.at = "none"
  BY DEF Local!NoWatch
<1>2. CASE task = NoProc
  BY <1>2, NoneAssumption DEF Local!TypeOK, Local!CancelTasks
<1>3. CASE task # NoProc
  BY <1>1, <1>3 DEF Local!TypeOK, Local!CancelTasks
<1>4. QED  BY <1>2, <1>3

\* A worker that ran and that neither the handle nor the request of this step had is known to
\* another one.
LEMMA StillKnown ==
  ASSUME Local!WorkerIsKnown, NEW c \in Call, NEW place, NEW q, GoesTo(c, place, q),
         raced => raced',
         \A p \in Proc :
           proc'[p] = "up" /\ ~raced' =>
             \/ p = q \/ handle'.process = p
             \/ proc[p] = "up" /\ handle.process # p /\ call[c].proc # p
  PROVE  Local!WorkerIsKnown'
<1> SUFFICES ASSUME NEW p \in Proc, proc'[p] = "up", ~raced'
             PROVE  handle'.process = p \/ \E e \in Call : call'[e].proc = p
  BY DEF Local!WorkerIsKnown
<1>1. CASE p = q
  BY <1>1 DEF GoesTo
<1>2. CASE proc[p] = "up" /\ handle.process # p /\ call[c].proc # p
  <2>1. PICK e \in Call : call[e].proc = p
    BY <1>2 DEF Local!WorkerIsKnown
  <2>2. QED  BY <1>2, <2>1 DEF GoesTo
<1>3. QED  BY <1>1, <1>2

LEMMA LocalStartKeeps ==
  ASSUME LocalInv, NEW c \in Call, Local!Start(c)
  PROVE  LocalInv'
<1>1. /\ call[c].at = "idle" /\ lock = NoCall /\ lock' = c /\ proc' = proc
      /\ ~(Local!Up(handle.process) /\ handle.state \in {"ready", "starting"})
      /\ raced' = (raced \/ \E e \in Call : Stops(e))
  BY DEF Local!Start, Stops, Local!Stopping
<1>2. /\ call[c].proc = NoProc /\ Local!TypeOK
      /\ \A e \in Call : ~Starts(e)
  BY <1>1, NoneAssumption DEF LocalInv, Booked
<1>3. raced' \in BOOLEAN
  BY <1>1 DEF LocalInv, Local!TypeOK
<1>4. ~raced' => Orderly /\ \A e \in Call : ~Stops(e)
  BY <1>1 DEF LocalInv
<1>5. CASE handle.process # NoProc /\ ~Local!Up(handle.process)
  <2>1. Local!Goes(c, "clean", NoProc) /\ Local!CancelTasks /\ handle' = handle
    BY <1>5 DEF Local!Start
  <2>2. GoesTo(c, "clean", NoProc)
    BY <1>2, <2>1, RequestGoes
  <2>3. /\ watch' \in [Proc -> [at : {"none", "new", "wait"}, on : Proc \cup {NoProc}]]
        /\ task' = NoProc
        /\ \A p \in Proc : watch'[p].at # "none" => p # task /\ watch'[p] = watch[p]
    BY <1>2, <2>1, TasksAreCancelled
  <2>4. Local!TypeOK'
    BY <1>1, <1>2, <1>3, <2>1, <2>2, <2>3 DEF Local!TypeOK, GoesTo, Caller
  <2>5. Booked'
    BY <1>1, <1>2, <2>2 DEF LocalInv, Booked, Starts, GoesTo
  <2>6. ASSUME ~raced'  PROVE Orderly'
    BY <1>1, <1>2, <1>4, <1>5, <2>1, <2>2, <2>3, <2>6
       DEF Orderly, Starts, Stops, GoesTo, Local!Up
  <2>7. Local!WorkerIsKnown'
    BY <1>1, <1>2, <2>1, <2>2, NoneAssumption, StillKnown DEF LocalInv
  <2>8. QED  BY <2>4, <2>5, <2>6, <2>7 DEF LocalInv
<1>6. CASE ~(handle.process # NoProc /\ ~Local!Up(handle.process))
  <2>1. /\ Local!Goes(c, "create", NoProc) /\ Local!SetState("starting")
        /\ UNCHANGED <<watch, task>>
    BY <1>6 DEF Local!Start
  <2>2. GoesTo(c, "create", NoProc)
    BY <1>2, <2>1, RequestGoes
  <2>3. /\ handle' \in [process : Proc \cup {NoProc}, state : Local!State]
        /\ handle'.process = handle.process /\ handle'.state = "starting"
    BY <1>2, <2>1, StateSet DEF Local!State
  <2>4. Local!TypeOK'
    BY <1>1, <1>2, <1>3, <2>1, <2>2, <2>3 DEF Local!TypeOK, GoesTo, Caller
  <2>5. Booked'
    BY <1>1, <1>2, <2>2 DEF LocalInv, Booked, Starts, GoesTo
  <2>6. ASSUME ~raced'  PROVE Orderly'
    <3>1. handle.process = NoProc
      BY <1>1, <1>4, <1>6, <2>6 DEF Orderly, Stops
    <3>2. QED
      BY <1>1, <1>2, <1>4, <2>1, <2>2, <2>3, <2>6, <3>1
         DEF Orderly, Starts, Stops, GoesTo, Local!Up
  <2>7. Local!WorkerIsKnown'
    BY <1>1, <1>2, <2>2, <2>3, NoneAssumption, StillKnown DEF LocalInv
  <2>8. QED  BY <2>4, <2>5, <2>6, <2>7 DEF LocalInv
<1>7. QED  BY <1>5, <1>6

LEMMA CleanedKeeps ==
  ASSUME LocalInv, NEW c \in Call, Local!Cleaned(c)
  PROVE  LocalInv'
<1>1. /\ call[c].at = "clean" /\ handle' = [process |-> NoProc, state |-> "starting"]
      /\ task' = NoProc /\ Local!Goes(c, "create", NoProc) /\ UNCHANGED <<proc, watch, lock, raced>>
  BY DEF Local!Cleaned
<1>2. GoesTo(c, "create", NoProc)
  BY <1>1, RequestGoes DEF LocalInv
<1>3. handle' \in [process : Proc \cup {NoProc}, state : Local!State]
  BY <1>1 DEF Local!State
<1>4. Local!TypeOK'
  BY <1>1, <1>2, <1>3 DEF LocalInv, Local!TypeOK, GoesTo, Caller
<1>5. Booked'
  BY <1>1, <1>2 DEF LocalInv, Booked, Starts, GoesTo
<1>6. ASSUME ~raced'  PROVE Orderly' /\ ~Local!Up(handle.process)
  <2>1. Orderly /\ \A e \in Call : Starts(e) => e = c
    BY <1>1, <1>6 DEF LocalInv, Booked, Starts
  <2>2. ~Local!Up(handle.process) /\ task = NoProc
    BY <1>1, <2>1 DEF Orderly, Starts
  <2>3. Orderly'
    BY SMTT(30), <1>1, <1>2, <2>1, <2>2, NoneAssumption DEF Orderly, Starts, Stops, GoesTo, Local!Up, LocalInv, Local!TypeOK
  <2>4. QED  BY <2>2, <2>3
<1>7. Local!WorkerIsKnown'
  <2>1. \A p \in Proc : proc'[p] = "up" /\ ~raced' => handle.process # p
    BY <1>1, <1>6, NoneAssumption DEF Local!Up
  <2>2. \A p \in Proc : call[c].proc # p
    BY <1>1, NoneAssumption DEF LocalInv, Booked
  <2>3. QED  BY <1>1, <1>2, <2>1, <2>2, StillKnown DEF LocalInv
<1>8. QED  BY <1>4, <1>5, <1>6, <1>7 DEF LocalInv

LEMMA CreatedKeeps ==
  ASSUME LocalInv, NEW c \in Call, NEW p \in Proc, Local!Created(c, p)
  PROVE  LocalInv'
<1>1. /\ call[c].at = "create" /\ proc[p] = "none" /\ proc' = [proc EXCEPT ![p] = "up"]
      /\ handle' = [handle EXCEPT !.process = p] /\ Local!Goes(c, "await", p)
      /\ UNCHANGED <<watch, task, lock, raced>>
  BY DEF Local!Created
<1>2. GoesTo(c, "await", p)
  BY <1>1, RequestGoes DEF LocalInv
<1>3. /\ handle' \in [process : Proc \cup {NoProc}, state : Local!State]
      /\ handle'.process = p /\ handle'.state = handle.state
  BY <1>1 DEF LocalInv, Local!TypeOK
<1>4. /\ proc' \in [Proc -> {"none", "up", "down"}]
      /\ proc'[p] = "up" /\ \A q \in Proc \ {p} : proc'[q] = proc[q]
  BY <1>1 DEF LocalInv, Local!TypeOK
<1>5. Local!TypeOK'
  BY <1>1, <1>2, <1>3, <1>4 DEF LocalInv, Local!TypeOK, GoesTo, Caller
<1>6. Booked'
  BY <1>1, <1>2 DEF LocalInv, Booked, Starts, GoesTo
<1>7. ASSUME ~raced'  PROVE Orderly' /\ handle.process = NoProc
  <2>1. Orderly /\ \A e \in Call : Starts(e) => e = c
    BY <1>1, <1>7 DEF LocalInv, Booked, Starts
  <2>2. /\ handle.process = NoProc /\ handle.state = "starting" /\ task = NoProc
        /\ \A e \in Call : ~Stops(e)
    BY <1>1, <2>1 DEF Orderly, Starts
  <2>3. \A q \in Proc : watch[q].at = "none"
    BY <2>1, <2>2, NoneAssumption DEF Orderly
  <2>4. Orderly'
    BY <1>1, <1>2, <1>3, <2>1, <2>2, <2>3 DEF Orderly, Starts, Stops, GoesTo, Local!Up
  <2>5. QED  BY <2>2, <2>4
<1>8. Local!WorkerIsKnown'
  <2>1. \A q \in Proc : call[c].proc # q
    BY <1>1, NoneAssumption DEF LocalInv, Booked
  <2>2. \A q \in Proc : ~raced' => handle.process # q
    BY <1>7, NoneAssumption
  <2>3. QED  BY <1>1, <1>2, <1>4, <2>1, <2>2, StillKnown DEF LocalInv
<1>9. QED  BY <1>5, <1>6, <1>7, <1>8 DEF LocalInv

\* A start ends, and its process is the handle's by now.
LEMMA StartLeaves ==
  ASSUME LocalInv, NEW c \in Call, Starts(c), Local!Leaves(c),
         handle' \in [process : Proc \cup {NoProc}, state : Local!State],
         handle'.process = handle.process, handle'.state \in {handle.state, "ready", "error"},
         ~raced /\ handle'.state = "error" => ~Local!Up(handle.process)',
         \A p \in Proc : proc'[p] \in {proc[p], "down"},
         proc' \in [Proc -> {"none", "up", "down"}],
         watch' \in [Proc -> [at : {"none", "new", "wait"}, on : Proc \cup {NoProc}]],
         task' \in Proc \cup {NoProc}, raced' = raced,
         ~raced => /\ task' \in {NoProc, handle.process}
                   /\ \A p \in Proc : watch'[p].at # "none" =>
                        p = task' /\ (watch'[p].at = "wait" => watch'[p].on = p)
  PROVE  LocalInv'
<1>1. GoesTo(c, "idle", NoProc) /\ lock' = NoCall
  BY RequestLeaves DEF LocalInv
<1>2. Local!TypeOK'
  BY <1>1 DEF LocalInv, Local!TypeOK, GoesTo, Caller
<1>3. \A e \in Call : Starts(e) => e = c
  BY DEF LocalInv, Booked
<1>4. Booked'
  BY <1>1, <1>3 DEF LocalInv, Booked, Starts, GoesTo
<1>5. ASSUME ~raced'  PROVE Orderly'
  <2>1. Orderly /\ \A e \in Call : ~Stops(e)
    BY <1>5 DEF LocalInv, Orderly
  <2>2. \A e \in Call : call'[e].at \notin {"clean", "create", "await", "kill", "term", "final"}
    BY <1>1, <1>3, <2>1 DEF Starts, Stops, GoesTo
  <2>3. Local!Up(handle.process)' => Local!Up(handle.process)
    BY DEF Local!Up, LocalInv, Local!TypeOK
  <2>4. handle.state \in {"ready", "starting"} \/ ~Local!Up(handle.process)
    BY <2>1 DEF Orderly, Stops
  <2>5. Local!Up(handle.process)' => handle'.state \in {"ready", "starting"}
    BY <1>5, <2>3, <2>4
  <2>6. task' \in {NoProc, handle'.process}
    BY <1>5
  <2>7. QED  BY <1>5, <2>2, <2>5, <2>6 DEF Orderly, Starts, Stops
<1>6. Local!WorkerIsKnown'
  <2>1. \A p \in Proc : ~raced /\ call[c].proc = p => handle.process = p
    BY NoneAssumption DEF LocalInv, Booked, Orderly, Starts
  <2>2. QED  BY <1>1, <2>1, StillKnown DEF LocalInv, Local!TypeOK
<1>7. QED  BY <1>2, <1>4, <1>5, <1>6 DEF LocalInv

\* Watches that do not change.
LEMMA WatchesStay ==
  ASSUME LocalInv, UNCHANGED <<watch, task, handle>>
  PROVE  /\ handle' \in [process : Proc \cup {NoProc}, state : Local!State]
         /\ watch' \in [Proc -> [at : {"none", "new", "wait"}, on : Proc \cup {NoProc}]]
         /\ task' \in Proc \cup {NoProc}
         /\ ~raced => /\ task' \in {NoProc, handle.process}
                      /\ \A p \in Proc : watch'[p].at # "none" =>
                           p = task' /\ (watch'[p].at = "wait" => watch'[p].on = p)
<1>1. Local!TypeOK /\ (~raced => Orderly)
  BY DEF LocalInv
<1>2. ~raced => /\ task \in {NoProc, handle.process}
                /\ \A p \in Proc : watch[p].at # "none" =>
                     p = task /\ (watch[p].at = "wait" => watch[p].on = p)
  BY <1>1 DEF Orderly
<1>3. QED  BY <1>1, <1>2 DEF Local!TypeOK

LEMMA StartGivesUpKeeps ==
  ASSUME LocalInv, NEW c \in Call, Local!NotCreated(c) \/ Local!Eof(c)
  PROVE  LocalInv'
<1>1. /\ Starts(c) /\ Local!Leaves(c) /\ UNCHANGED <<handle, proc, watch, task, raced>>
      /\ call[c].at \in {"create", "await"}
  BY DEF Local!NotCreated, Local!Eof, Starts
<1>2. ~raced => handle'.state # "error"
  BY <1>1 DEF LocalInv, Orderly
<1>3. QED  BY <1>1, <1>2, WatchesStay, StartLeaves DEF LocalInv, Local!TypeOK

LEMMA ReadyKeeps ==
  ASSUME LocalInv, NEW c \in Call, Local!Ready(c)
  PROVE  LocalInv'
<1>1. PICK p \in Proc : p = call[c].proc
  BY DEF Local!Ready, LocalInv, Booked
<1>2. /\ call[c].at = "await" /\ Starts(c) /\ Local!Leaves(c) /\ UNCHANGED <<proc, raced>>
  BY DEF Local!Ready, Starts
<1>3. ~raced => handle.process = p /\ task = NoProc /\ \A q \in Proc : watch[q].at = "none"
  BY <1>1, <1>2, NoneAssumption DEF LocalInv, Orderly
<1>4. CASE Local!Up(p)
  <2>1. /\ Local!SetState("ready") /\ watch' = [watch EXCEPT ![p].at = "new"] /\ task' = p
    BY <1>1, <1>4 DEF Local!Ready
  <2>2. /\ handle' \in [process : Proc \cup {NoProc}, state : Local!State]
        /\ handle'.process = handle.process /\ handle'.state = "ready"
    BY <2>1, StateSet DEF LocalInv, Local!State
  <2>3. /\ watch' \in [Proc -> [at : {"none", "new", "wait"}, on : Proc \cup {NoProc}]]
        /\ watch'[p].at = "new" /\ \A q \in Proc \ {p} : watch'[q] = watch[q]
    BY <2>1 DEF LocalInv, Local!TypeOK
  <2>4. ~raced => /\ task' \in {NoProc, handle.process}
                  /\ \A q \in Proc : watch'[q].at # "none" =>
                       q = task' /\ (watch'[q].at = "wait" => watch'[q].on = q)
    BY <1>3, <2>1, <2>3
  <2>5. QED  BY <1>2, <2>1, <2>2, <2>3, <2>4, StartLeaves DEF LocalInv, Local!TypeOK
<1>5. CASE ~Local!Up(p)
  <2>1. Local!SetState("error") /\ UNCHANGED <<watch, task>>
    BY <1>1, <1>5 DEF Local!Ready
  <2>2. /\ handle' \in [process : Proc \cup {NoProc}, state : Local!State]
        /\ handle'.process = handle.process /\ handle'.state = "error"
    BY <2>1, StateSet DEF LocalInv, Local!State
  <2>3. ~raced => ~Local!Up(handle.process)'
    BY <1>2, <1>3, <1>5, <2>2 DEF Local!Up
  <2>4. ~raced => /\ task' \in {NoProc, handle.process}
                  /\ \A q \in Proc : watch'[q].at # "none" =>
                       q = task' /\ (watch'[q].at = "wait" => watch'[q].on = q)
    BY <1>3, <2>1
  <2>5. QED  BY <1>2, <2>1, <2>2, <2>3, <2>4, StartLeaves DEF LocalInv, Local!TypeOK
<1>6. QED  BY <1>4, <1>5

LEMMA TimeoutKeeps ==
  ASSUME LocalInv, NEW c \in Call, Local!Timeout(c)
  PROVE  LocalInv'
<1>1. PICK p \in Proc : p = call[c].proc
  BY DEF Local!Timeout, LocalInv, Booked
<1>2. call[c].at = "await" /\ Starts(c) /\ UNCHANGED <<proc, watch, task, raced>>
  BY DEF Local!Timeout, Starts
<1>3. CASE Local!Up(p)
  <2>1. Local!Goes(c, "kill", p) /\ UNCHANGED <<handle, lock>>
    BY <1>1, <1>3 DEF Local!Timeout
  <2>2. GoesTo(c, "kill", p)
    BY <2>1, RequestGoes DEF LocalInv
  <2>3. Local!TypeOK'
    BY <1>2, <2>1, <2>2 DEF LocalInv, Local!TypeOK, GoesTo, Caller
  <2>4. Booked'
    BY <1>2, <2>1, <2>2 DEF LocalInv, Booked, Starts, GoesTo
  <2>5. ASSUME ~raced'  PROVE Orderly'
    <3>1. Orderly
      BY <1>2, <2>5 DEF LocalInv
    <3>2. \A e \in Call : (Starts(e)' <=> Starts(e)) /\ (Stops(e)' <=> Stops(e))
      BY <1>2, <2>2 DEF Starts, Stops, GoesTo
    <3>3. handle.process = p /\ handle.state = "starting"
      BY <1>1, <1>2, <3>1 DEF Orderly
    <3>4. QED  BY <1>2, <2>1, <2>2, <3>1, <3>2, <3>3 DEF Orderly, GoesTo, Local!Up
  <2>6. Local!WorkerIsKnown'
    BY <1>1, <1>2, <2>1, <2>2, StillKnown DEF LocalInv
  <2>7. QED  BY <2>3, <2>4, <2>5, <2>6 DEF LocalInv
<1>4. CASE ~Local!Up(p)
  <2>1. Local!SetState("error") /\ Local!Leaves(c)
    BY <1>1, <1>4 DEF Local!Timeout
  <2>2. /\ handle' \in [process : Proc \cup {NoProc}, state : Local!State]
        /\ handle'.process = handle.process /\ handle'.state = "error"
    BY <2>1, StateSet DEF LocalInv, Local!State
  <2>3. ~raced => ~Local!Up(handle.process)'
    BY <1>1, <1>2, <1>4, <2>2 DEF LocalInv, Orderly, Local!Up
  <2>4. ~raced => /\ task' \in {NoProc, handle.process}
                  /\ \A q \in Proc : watch'[q].at # "none" =>
                       q = task' /\ (watch'[q].at = "wait" => watch'[q].on = q)
    BY <1>2 DEF LocalInv, Orderly
  <2>5. QED  BY <1>2, <2>1, <2>2, <2>3, <2>4, StartLeaves DEF LocalInv, Local!TypeOK
<1>5. QED  BY <1>3, <1>4

LEMMA KilledKeeps ==
  ASSUME LocalInv, NEW c \in Call, Local!Killed(c)
  PROVE  LocalInv'
<1>1. PICK p \in Proc : p = call[c].proc
  BY DEF Local!Killed, LocalInv, Booked
<1>2. /\ call[c].at = "kill" /\ Starts(c) /\ proc' = [proc EXCEPT ![p] = "down"]
      /\ Local!SetState("error") /\ Local!Leaves(c) /\ UNCHANGED <<watch, task, raced>>
  BY <1>1 DEF Local!Killed, Starts
<1>3. /\ proc' \in [Proc -> {"none", "up", "down"}] /\ proc'[p] = "down"
      /\ \A q \in Proc : proc'[q] \in {proc[q], "down"}
  BY <1>2 DEF LocalInv, Local!TypeOK
<1>4. /\ handle' \in [process : Proc \cup {NoProc}, state : Local!State]
      /\ handle'.process = handle.process /\ handle'.state = "error"
  BY <1>2, StateSet DEF LocalInv, Local!State
<1>5. ~raced => ~Local!Up(handle.process)'
  BY <1>1, <1>2, <1>3, <1>4 DEF LocalInv, Orderly, Local!Up
<1>6. ~raced => /\ task' \in {NoProc, handle.process}
                /\ \A q \in Proc : watch'[q].at # "none" =>
                     q = task' /\ (watch'[q].at = "wait" => watch'[q].on = q)
  BY <1>2 DEF LocalInv, Orderly
<1>7. QED  BY <1>2, <1>3, <1>4, <1>5, <1>6, StartLeaves DEF LocalInv, Local!TypeOK

LEMMA LocalStopKeeps ==
  ASSUME LocalInv, NEW c \in Call, Local!Stop(c)
  PROVE  LocalInv'
<1>1. /\ call[c].at = "idle" /\ Local!SetState("stopping") /\ UNCHANGED <<proc, lock>>
      /\ raced' = (raced \/ \E e \in Call : Starts(e))
  BY DEF Local!Stop, Starts, Local!Starting
<1>2. /\ handle' \in [process : Proc \cup {NoProc}, state : Local!State]
      /\ handle'.process = handle.process /\ handle'.state = "stopping"
  BY <1>1, StateSet DEF LocalInv, Local!State
<1>3. raced' \in BOOLEAN /\ (~raced' => Orderly /\ \A e \in Call : ~Starts(e))
  BY <1>1 DEF LocalInv, Local!TypeOK
<1>4. Local!TypeOK /\ \A q \in Proc : call[c].proc # q
  BY <1>1, NoneAssumption DEF LocalInv, Booked
<1>5. CASE Local!Up(handle.process)
  <2>1. PICK p \in Proc : p = handle.process
    BY <1>4, <1>5 DEF Local!TypeOK, Local!Up
  <2>2. Local!Goes(c, "term", p) /\ UNCHANGED <<watch, task>>
    BY <1>5, <2>1 DEF Local!Stop
  <2>3. GoesTo(c, "term", p)
    BY <1>4, <2>2, RequestGoes
  <2>4. Local!TypeOK'
    BY <1>1, <1>2, <1>3, <1>4, <2>2, <2>3 DEF Local!TypeOK, GoesTo, Caller
  <2>5. Booked'
    BY <1>1, <2>3 DEF LocalInv, Booked, Starts, GoesTo
  <2>6. ASSUME ~raced'  PROVE Orderly'
    <3>1. Orderly /\ \A e \in Call : ~Starts(e)
      BY <1>3, <2>6
    <3>2. \A e \in Call : ~Starts(e)'
      BY <2>3, <3>1 DEF Starts, GoesTo
    <3>3. Local!Up(handle.process)' /\ Local!Up(handle.process)
      BY <1>1, <1>2, <1>5 DEF Local!Up
    <3>4. ASSUME NEW e \in Call
          PROVE  /\ call'[e].at \notin {"clean", "create", "await", "kill", "final"}
                 /\ call'[e].at = "term" => handle'.process = call'[e].proc
      BY <1>2, <2>1, <2>3, <3>1, <3>3 DEF Orderly, Starts, GoesTo
    <3>5. \E e \in Call : call'[e].at = "term"
      BY <2>3 DEF GoesTo
    <3>6. QED  BY <1>2, <2>2, <3>1, <3>2, <3>4, <3>5 DEF Orderly
  <2>7. Local!WorkerIsKnown'
    BY <1>1, <1>2, <1>4, <2>3, StillKnown DEF LocalInv
  <2>8. QED  BY <2>4, <2>5, <2>6, <2>7 DEF LocalInv
<1>6. CASE ~Local!Up(handle.process)
  <2>1. Local!Goes(c, "final", NoProc) /\ Local!CancelTasks
    BY <1>6 DEF Local!Stop
  <2>2. GoesTo(c, "final", NoProc)
    BY <1>4, <2>1, RequestGoes
  <2>3. /\ watch' \in [Proc -> [at : {"none", "new", "wait"}, on : Proc \cup {NoProc}]]
        /\ task' = NoProc
        /\ \A p \in Proc : watch'[p].at # "none" => p # task /\ watch'[p] = watch[p]
    BY <1>4, <2>1, TasksAreCancelled
  <2>4. Local!TypeOK'
    BY <1>1, <1>2, <1>3, <1>4, <2>2, <2>3 DEF Local!TypeOK, GoesTo, Caller
  <2>5. Booked'
    BY <1>1, <2>2 DEF LocalInv, Booked, Starts, GoesTo
  <2>6. ASSUME ~raced'  PROVE Orderly'
    <3>1. Orderly /\ \A e \in Call : ~Starts(e)
      BY <1>3, <2>6
    <3>2. \A e \in Call : ~Starts(e)'
      BY <2>2, <3>1 DEF Starts, GoesTo
    <3>3. ~Local!Up(handle.process)'
      BY <1>1, <1>2, <1>6 DEF Local!Up
    <3>4. \A e \in Call : call'[e].at \notin {"clean", "create", "await", "kill"}
      BY <3>2 DEF Starts
    <3>5. \A p \in Proc : watch'[p].at = "none"
      BY <2>3, <3>1 DEF Orderly
    <3>6. QED  BY <2>3, <3>2, <3>3, <3>4, <3>5 DEF Orderly
  <2>7. Local!WorkerIsKnown'
    BY <1>1, <1>2, <1>4, <2>2, StillKnown DEF LocalInv
  <2>8. QED  BY <2>4, <2>5, <2>6, <2>7 DEF LocalInv
<1>7. QED  BY <1>5, <1>6

LEMMA TerminatedKeeps ==
  ASSUME LocalInv, NEW c \in Call, Local!Terminated(c)
  PROVE  LocalInv'
<1>1. PICK p \in Proc : p = call[c].proc
  BY DEF Local!Terminated, LocalInv, Booked
<1>2. /\ call[c].at = "term" /\ proc' = [proc EXCEPT ![p] = "down"]
      /\ Local!Goes(c, "final", NoProc) /\ Local!CancelTasks /\ UNCHANGED <<handle, lock, raced>>
  BY <1>1 DEF Local!Terminated
<1>3. Local!TypeOK /\ GoesTo(c, "final", NoProc)
  BY <1>2, RequestGoes DEF LocalInv
<1>4. /\ watch' \in [Proc -> [at : {"none", "new", "wait"}, on : Proc \cup {NoProc}]]
      /\ task' = NoProc
      /\ \A q \in Proc : watch'[q].at # "none" => q # task /\ watch'[q] = watch[q]
  BY <1>2, <1>3, TasksAreCancelled
<1>5. /\ proc' \in [Proc -> {"none", "up", "down"}] /\ proc'[p] = "down"
      /\ \A q \in Proc : proc'[q] \in {proc[q], "down"}
  BY <1>2, <1>3 DEF Local!TypeOK
<1>6. Local!TypeOK'
  BY <1>2, <1>3, <1>4, <1>5 DEF Local!TypeOK, GoesTo, Caller
<1>7. Booked'
  BY <1>2, <1>3 DEF LocalInv, Booked, Starts, GoesTo
<1>8. ASSUME ~raced'  PROVE Orderly'
  <2>1. Orderly /\ \A e \in Call : ~Starts(e)
    BY <1>2, <1>8 DEF LocalInv, Orderly, Stops
  <2>2. \A e \in Call : ~Starts(e)'
    BY <1>3, <2>1 DEF Starts, GoesTo
  <2>3. ~Local!Up(handle.process)'
    BY <1>1, <1>2, <1>3, <1>5, <2>1 DEF Orderly, Local!Up, Local!TypeOK
  <2>4. \A e \in Call : call'[e].at \notin {"clean", "create", "await", "kill"}
    BY <2>2 DEF Starts
  <2>5. \A q \in Proc : watch'[q].at = "none"
    BY <1>4, <2>1 DEF Orderly
  <2>6. QED  BY <1>4, <2>2, <2>3, <2>4, <2>5 DEF Orderly
<1>9. Local!WorkerIsKnown'
  <2>1. \A q \in Proc : proc'[q] = "up" => proc[q] = "up" /\ call[c].proc # q
    BY <1>1, <1>5
  <2>2. QED  BY <1>2, <1>3, <2>1, StillKnown DEF LocalInv
<1>10. QED  BY <1>6, <1>7, <1>8, <1>9 DEF LocalInv

LEMMA FinalizedKeeps ==
  ASSUME LocalInv, NEW c \in Call, Local!Finalized(c)
  PROVE  LocalInv'
<1>1. /\ call[c].at = "final" /\ handle' = [handle EXCEPT !.process = NoProc]
      /\ task' = NoProc /\ Local!Goes(c, "idle", NoProc) /\ UNCHANGED <<proc, watch, lock, raced>>
  BY DEF Local!Finalized
<1>2. Local!TypeOK /\ GoesTo(c, "idle", NoProc)
  BY <1>1, RequestGoes DEF LocalInv
<1>3. /\ handle' \in [process : Proc \cup {NoProc}, state : Local!State]
      /\ handle'.process = NoProc
  BY <1>1, <1>2 DEF Local!TypeOK
<1>4. Local!TypeOK'
  BY <1>1, <1>2, <1>3 DEF Local!TypeOK, GoesTo, Caller
<1>5. Booked'
  BY <1>1, <1>2 DEF LocalInv, Booked, Starts, GoesTo
<1>6. ASSUME ~raced'  PROVE ~Local!Up(handle.process)
  BY <1>1, <1>6 DEF LocalInv, Orderly
<1>7. ASSUME ~raced'  PROVE Orderly'
  <2>1. Orderly /\ \A e \in Call : ~Starts(e)
    BY <1>1, <1>7 DEF LocalInv, Orderly, Stops
  <2>2. \A e \in Call : ~Starts(e)'
    BY <1>2, <2>1 DEF Starts, GoesTo
  <2>3. ~Local!Up(handle.process)'
    BY <1>3 DEF Local!Up
  <2>4. \A e \in Call : call'[e].at \notin {"clean", "create", "await", "kill"}
    BY <2>2 DEF Starts
  <2>5. \A q \in Proc : watch'[q].at = "none"
    <3> SUFFICES ASSUME NEW q \in Proc, watch[q].at # "none"  PROVE FALSE
      BY <1>1
    <3>1. task = NoProc /\ q = task
      BY <1>1, <2>1 DEF Orderly
    <3>2. QED  BY <3>1, NoneAssumption
  <2>6. QED  BY <1>1, <1>3, <2>2, <2>3, <2>4, <2>5 DEF Orderly
<1>8. Local!WorkerIsKnown'
  <2>1. \A q \in Proc : proc'[q] = "up" /\ ~raced' => handle.process # q
    BY <1>1, <1>6, NoneAssumption DEF Local!Up
  <2>2. \A q \in Proc : call[c].proc # q
    BY <1>1, NoneAssumption DEF LocalInv, Booked
  <2>3. QED  BY <1>1, <1>2, <2>1, <2>2, StillKnown DEF LocalInv
<1>9. QED  BY <1>4, <1>5, <1>7, <1>8 DEF LocalInv

LEMMA DiesKeeps ==
  ASSUME LocalInv, NEW p \in Proc, Local!Dies(p)
  PROVE  LocalInv'
<1>1. /\ proc' = [proc EXCEPT ![p] = "down"]
      /\ UNCHANGED <<handle, watch, task, call, lock, raced>>
  BY DEF Local!Dies
<1>2. /\ proc' \in [Proc -> {"none", "up", "down"}]
      /\ \A q \in Proc : proc'[q] \in {proc[q], "down"}
  BY <1>1 DEF LocalInv, Local!TypeOK
<1>3. Local!Up(handle.process)' => Local!Up(handle.process)
  BY <1>1, <1>2 DEF LocalInv, Local!TypeOK, Local!Up
<1>4. Local!TypeOK' /\ Booked'
  BY <1>1, <1>2 DEF LocalInv, Local!TypeOK, Booked, Starts
<1>5. ASSUME ~raced'  PROVE Orderly'
  BY <1>1, <1>3, <1>5 DEF LocalInv, Orderly, Starts, Stops
<1>6. Local!WorkerIsKnown'
  BY <1>1, <1>2 DEF LocalInv, Local!WorkerIsKnown
<1>7. QED  BY <1>4, <1>5, <1>6 DEF LocalInv

LEMMA WatchesKeep ==
  ASSUME LocalInv, NEW p \in Proc, Local!Watches(p)
  PROVE  LocalInv'
<1>1. Local!TypeOK /\ UNCHANGED <<proc, task, call, lock, raced>>
  BY DEF LocalInv, Local!Watches, Local!WatchBegins, Local!WatchReports
<1>2. /\ handle' \in [process : Proc \cup {NoProc}, state : Local!State]
      /\ handle'.process = handle.process
      /\ \/ handle'.state = handle.state
         \/ watch[p].at = "wait" /\ ~Local!Up(watch[p].on) /\ handle'.state = "error"
  BY <1>1, StateSet
     DEF Local!TypeOK, Local!State, Local!Watches, Local!WatchBegins, Local!WatchReports
<1>3. PICK w \in [at : {"none", "new", "wait"}, on : Proc \cup {NoProc}] :
        /\ watch' = [watch EXCEPT ![p] = w]
        /\ w.at = "none" \/ (watch[p].at # "none" /\ w.on = handle.process)
  BY <1>1 DEF Local!TypeOK, Local!Watches, Local!WatchBegins, Local!WatchReports, Local!NoWatch
<1>4. /\ watch' \in [Proc -> [at : {"none", "new", "wait"}, on : Proc \cup {NoProc}]]
      /\ watch'[p] = w /\ \A q \in Proc \ {p} : watch'[q] = watch[q]
  BY <1>1, <1>3 DEF Local!TypeOK
<1>5. Local!TypeOK' /\ Booked'
  BY <1>1, <1>2, <1>4 DEF LocalInv, Local!TypeOK, Booked, Starts
<1>6. ASSUME ~raced'  PROVE Orderly'
  <2>1. Orderly
    BY <1>1, <1>6 DEF LocalInv
  <2>2. Local!Up(handle.process)' <=> Local!Up(handle.process)
    BY <1>1, <1>2 DEF Local!Up
  <2>3. ASSUME NEW q \in Proc, watch'[q].at # "none"
        PROVE  q = task /\ (watch'[q].at = "wait" => watch'[q].on = q)
    <3>1. CASE q = p
      <4>1. p = task /\ w.on = handle.process
        BY <1>3, <1>4, <2>1, <2>3, <3>1 DEF Orderly
      <4>2. QED  BY <1>4, <2>1, <3>1, <4>1, NoneAssumption DEF Orderly
    <3>2. CASE q # p
      BY <1>4, <2>1, <2>3, <3>2 DEF Orderly
    <3>3. QED  BY <3>1, <3>2
  <2>4. CASE handle'.state = handle.state
    BY <1>1, <1>2, <2>1, <2>2, <2>3, <2>4 DEF Orderly, Starts, Stops
  <2>5. CASE watch[p].at = "wait" /\ ~Local!Up(watch[p].on)
    <3>1. p = task /\ task = handle.process /\ ~Local!Up(handle.process)
      BY <2>1, <2>5, NoneAssumption DEF Orderly
    <3>2. \A e \in Call : ~Starts(e)
      BY <2>1, <3>1, NoneAssumption DEF Orderly
    <3>3. \A e \in Call : call[e].at \notin {"clean", "create", "await", "kill"}
      BY <3>2 DEF Starts
    <3>4. QED  BY <1>1, <1>2, <2>1, <2>2, <2>3, <3>1, <3>2, <3>3 DEF Orderly, Starts, Stops
  <2>6. QED  BY <1>2, <2>4, <2>5
<1>7. Local!WorkerIsKnown'
  BY <1>1, <1>2 DEF LocalInv, Local!WorkerIsKnown
<1>8. QED  BY <1>5, <1>6, <1>7 DEF LocalInv

LEMMA LocalStill == LocalInv /\ UNCHANGED localVars => LocalInv'
BY DEF localVars, LocalInv, Local!TypeOK, Booked, Orderly, Starts, Stops, Local!Up,
       Local!WorkerIsKnown

LEMMA LocalStep == LocalInv /\ Local!Next => LocalInv'
<1> SUFFICES ASSUME LocalInv, Local!Next  PROVE LocalInv'
  OBVIOUS
<1>1. CASE \E c \in Call : Local!Reuse(c)
  BY <1>1, LocalStill DEF Local!Reuse, Local!vars, localVars
<1>2. CASE \E c \in Call : Local!Start(c) \/ Local!Stop(c)
  BY <1>2, LocalStartKeeps, LocalStopKeeps
<1>3. CASE \E c \in Call : Local!Ends(c)
  <2>1. PICK c \in Call : Local!Ends(c)
    BY <1>3
  <2>2. CASE \E p \in Proc : Local!Created(c, p)
    BY <2>2, CreatedKeeps
  <2>3. QED  BY <2>1, <2>2, CleanedKeeps, StartGivesUpKeeps, ReadyKeeps, TimeoutKeeps, KilledKeeps,
                TerminatedKeeps, FinalizedKeeps DEF Local!Ends
<1>4. CASE \E p \in Proc : Local!Dies(p) \/ Local!Watches(p)
  BY <1>4, DiesKeeps, WatchesKeep
<1>5. QED  BY <1>1, <1>2, <1>3, <1>4 DEF Local!Next

-----------------------------------------------------------------------------
(* CloudRunner                                                             *)

\* A request that is under way holds the lock, has an attempt left unless it undoes one, and
\* was not started once a stop succeeded; a start that goes on has not failed yet.
Attempting ==
  \A c \in Call :
    /\ cloud[c].at # "idle" => cloud_lock = c
    /\ cloud[c].at # "undo" => cloud[c].attempts <= 1
    /\ cloud[c].at \in {"status", "check", "delete", "post", "poll", "undo"} => ~stopped
    /\ cloud[c].at = "mark" => svc = 0
    /\ cloud[c].at \in {"check", "delete", "post", "poll"} => phase # "failed"
    /\ cloud[c].at = "undo" /\ cloud[c].attempts = 1 => phase # "failed"

Undoing == \E c \in Call : cloud[c].at = "undo"

CloudInv ==
  /\ Cloud!TypeOK /\ Attempting /\ Cloud!StoppedIsGone
  /\ phase = "failed" /\ undone /\ ~Undoing => svc = 0

LEMMA CloudInit == Cloud!Init => CloudInv
<1> SUFFICES ASSUME Cloud!Init  PROVE CloudInv
  OBVIOUS
<1>1. 0 \in 0..MaxBoot
  BY BoundAssumption
<1>2. Cloud!TypeOK
  <2>1. [at |-> "idle", attempts |-> 0] \in [at : Cloud!At, attempts : 0..2]
    BY DEF Cloud!At
  <2>2. cloud \in [Call -> [at : Cloud!At, attempts : 0..2]]
    BY <2>1 DEF Cloud!Init
  <2>3. phase \in Cloud!Phase
    BY DEF Cloud!Init, Cloud!Phase
  <2>4. QED  BY <1>1, <2>2, <2>3 DEF Cloud!Init, Cloud!TypeOK
<1>3. Attempting
  BY DEF Cloud!Init, Attempting
<1>4. QED  BY <1>2, <1>3 DEF Cloud!Init, CloudInv, Cloud!StoppedIsGone

CloudCaller == [at : Cloud!At, attempts : 0..2]

\* A request goes on from its place, and others do not.
CloudGoesTo(c, place, n) ==
  /\ cloud' \in [Call -> CloudCaller] /\ cloud'[c].at = place /\ cloud'[c].attempts = n
  /\ \A e \in Call \ {c} : cloud'[e] = cloud[e]

LEMMA CloudCallerIs ==
  ASSUME Cloud!TypeOK, NEW c \in Call, NEW place \in Cloud!At, NEW n \in 0..2,
         cloud' = [cloud EXCEPT ![c] = [at |-> place, attempts |-> n]]
  PROVE  CloudGoesTo(c, place, n)
<1>1. cloud \in [Call -> CloudCaller]
  BY DEF Cloud!TypeOK, CloudCaller
<1>2. [at |-> place, attempts |-> n] \in CloudCaller
  BY DEF CloudCaller
<1>3. QED  BY <1>1, <1>2 DEF CloudGoesTo

LEMMA CloudCallerGoes ==
  ASSUME Cloud!TypeOK, NEW c \in Call, NEW place \in Cloud!At, Cloud!Goes(c, place),
         NEW n \in 0..2, n = cloud[c].attempts
  PROVE  CloudGoesTo(c, place, n)
<1>1. PICK x \in CloudCaller : x = cloud[c]
  BY DEF Cloud!TypeOK, CloudCaller
<1>2. [x EXCEPT !.at = place] = [at |-> place, attempts |-> n]
  BY <1>1 DEF CloudCaller
<1>3. cloud' = [cloud EXCEPT ![c] = [at |-> place, attempts |-> n]]
  BY <1>1, <1>2 DEF Cloud!Goes, Cloud!TypeOK
<1>4. QED  BY <1>3, CloudCallerIs

\* The one request under way takes a step.
LEMMA CloudStepKeeps ==
  ASSUME CloudInv, NEW c \in Call, NEW place \in Cloud!At, NEW n \in 0..2,
         CloudGoesTo(c, place, n), Cloud!TypeOK',
         \A e \in Call \ {c} : cloud[e].at = "idle",
         place # "idle" => cloud_lock' = c,
         place # "undo" => n <= 1,
         place \in {"status", "check", "delete", "post", "poll", "undo"} => ~stopped',
         place = "mark" => svc' = 0,
         place \in {"check", "delete", "post", "poll"} => phase' # "failed",
         place = "undo" /\ n = 1 => phase' # "failed",
         stopped' => svc' = 0,
         phase' = "failed" /\ undone' /\ place # "undo" => svc' = 0
  PROVE  CloudInv'
<1>1. Attempting'
  <2> SUFFICES ASSUME NEW e \in Call
               PROVE  /\ cloud'[e].at # "idle" => cloud_lock' = e
                      /\ cloud'[e].at # "undo" => cloud'[e].attempts <= 1
                      /\ cloud'[e].at \in {"status", "check", "delete", "post", "poll", "undo"}
                           => ~stopped'
                      /\ cloud'[e].at = "mark" => svc' = 0
                      /\ cloud'[e].at \in {"check", "delete", "post", "poll"} => phase' # "failed"
                      /\ cloud'[e].at = "undo" /\ cloud'[e].attempts = 1 => phase' # "failed"
    BY DEF Attempting
  <2>1. CASE e = c
    BY <2>1 DEF CloudGoesTo
  <2>2. CASE e # c
    BY <2>2 DEF CloudGoesTo, CloudInv, Attempting
  <2>3. QED  BY <2>1, <2>2
<1>2. place = "undo" => Undoing'
  BY DEF CloudGoesTo, Undoing
<1>3. QED  BY <1>1, <1>2 DEF CloudInv, Cloud!StoppedIsGone

\* Nobody else is under way beside who holds the lock, and nobody if it is free.
LEMMA OthersAreIdle ==
  ASSUME CloudInv, NEW c \in Call, cloud[c].at # "idle" \/ cloud_lock = NoCall
  PROVE  \A e \in Call \ {c} : cloud[e].at = "idle"
BY NoneAssumption DEF CloudInv, Attempting

LEMMA CloudBeginsKeeps ==
  ASSUME CloudInv, NEW c \in Call, Cloud!Start(c) \/ Cloud!Stop(c)
  PROVE  CloudInv'
<1>1. PICK n \in 0..2 : n = cloud[c].attempts
  BY DEF CloudInv, Cloud!TypeOK
<1>2. cloud[c].at = "idle" /\ cloud_lock = NoCall /\ n <= 1
  BY <1>1 DEF CloudInv, Attempting, Cloud!Start, Cloud!Stop
<1>3. (\A e \in Call \ {c} : cloud[e].at = "idle") /\ ~Undoing
  BY <1>2, OthersAreIdle DEF Undoing
<1>4. CASE Cloud!Start(c)
  <2>1. /\ Cloud!Goes(c, "status") /\ cloud_lock' = c /\ stopped' = FALSE
        /\ UNCHANGED <<svc, boots, row, phase, undone>>
    BY <1>4 DEF Cloud!Start
  <2>2. CloudGoesTo(c, "status", n)
    BY <1>1, <2>1, CloudCallerGoes DEF CloudInv, Cloud!At
  <2>3. Cloud!TypeOK'
    BY <2>1, <2>2 DEF CloudInv, Cloud!TypeOK, CloudGoesTo, CloudCaller
  <2>4. "status" \in Cloud!At
    BY DEF Cloud!At
  <2>5. phase' = "failed" /\ undone' => svc' = 0
    BY <1>3, <2>1 DEF CloudInv
  <2>6. QED  BY <1>2, <1>3, <2>1, <2>2, <2>3, <2>4, <2>5, CloudStepKeeps
<1>5. CASE Cloud!Stop(c)
  <2>1. /\ Cloud!Goes(c, "remove") /\ cloud_lock' = c /\ phase' = "idle"
        /\ UNCHANGED <<svc, boots, row, stopped, undone>>
    BY <1>5 DEF Cloud!Stop
  <2>2. CloudGoesTo(c, "remove", n)
    BY <1>1, <2>1, CloudCallerGoes DEF CloudInv, Cloud!At
  <2>3. Cloud!TypeOK'
    BY <2>1, <2>2 DEF CloudInv, Cloud!TypeOK, CloudGoesTo, CloudCaller, Cloud!Phase
  <2>4. "remove" \in Cloud!At
    BY DEF Cloud!At
  <2>5. stopped' => svc' = 0
    BY <2>1 DEF CloudInv, Cloud!StoppedIsGone
  <2>6. QED  BY <1>2, <1>3, <2>1, <2>2, <2>3, <2>4, <2>5, CloudStepKeeps
<1>6. QED  BY <1>4, <1>5

\* A request in an attempt fails or raises, whatever became of the service.
LEMMA AttemptErrs ==
  ASSUME CloudInv, NEW c \in Call, cloud[c].at \in {"check", "delete", "post", "poll"},
         Cloud!Errs(c), svc' \in 0..MaxBoot, boots' \in 0..MaxBoot, UNCHANGED <<row, stopped, undone>>
  PROVE  CloudInv'
<1>1. PICK n \in 0..1 : n = cloud[c].attempts
  BY DEF CloudInv, Cloud!TypeOK, Attempting
<1>2. cloud_lock = c /\ ~stopped /\ phase # "failed" /\ Cloud!TypeOK
  BY DEF CloudInv, Attempting
<1>3. \A e \in Call \ {c} : cloud[e].at = "idle"
  BY OthersAreIdle
<1>4. CASE Cloud!Fails(c)
  <2>1. PICK m \in 1..2 : m = n + 1
    BY <1>1
  <2>2. cloud' = [cloud EXCEPT ![c] = [at |-> "undo", attempts |-> m]]
    BY <1>1, <1>4, <2>1 DEF Cloud!Fails, Cloud!TypeOK, CloudInv
  <2>3. CloudGoesTo(c, "undo", m)
    <3>1. m \in 0..2 /\ "undo" \in Cloud!At
      BY DEF Cloud!At
    <3>2. QED  BY <1>2, <2>2, <3>1, CloudCallerIs
  <2>4. /\ phase' \in Cloud!Phase /\ cloud_lock' = c
        /\ m = 1 => phase' # "failed"
    BY <1>1, <1>2, <1>4, <2>1 DEF Cloud!Fails, Cloud!Phase
  <2>5. Cloud!TypeOK'
    BY <1>2, <2>3, <2>4 DEF Cloud!TypeOK, CloudGoesTo, CloudCaller
  <2>6. "undo" \in Cloud!At
    BY DEF Cloud!At
  <2>7. QED  BY <1>2, <1>3, <2>3, <2>4, <2>5, <2>6, CloudStepKeeps
<1>5. CASE Cloud!Leaves(c) /\ UNCHANGED phase
  <2>1. cloud' = [cloud EXCEPT ![c] = [at |-> "idle", attempts |-> 0]] /\ cloud_lock' = NoCall
    BY <1>5 DEF Cloud!Leaves
  <2>2. CloudGoesTo(c, "idle", 0)
    <3>1. 0 \in 0..2 /\ "idle" \in Cloud!At
      BY DEF Cloud!At
    <3>2. QED  BY <1>2, <2>1, <3>1, CloudCallerIs
  <2>3. Cloud!TypeOK'
    BY <1>2, <1>5, <2>1, <2>2 DEF Cloud!TypeOK, CloudGoesTo, CloudCaller
  <2>4. "idle" \in Cloud!At
    BY DEF Cloud!At
  <2>5. QED  BY <1>2, <1>3, <1>5, <2>2, <2>3, <2>4, CloudStepKeeps
<1>6. QED  BY <1>4, <1>5 DEF Cloud!Errs

\* A request returns or raises.
LEMMA CloudLeavesKeeps ==
  ASSUME CloudInv, NEW c \in Call, cloud[c].at # "idle", Cloud!Leaves(c),
         svc' \in 0..MaxBoot, boots' \in 0..MaxBoot, row' \in {"none", "ready", "stopped"},
         phase' \in Cloud!Phase, stopped' \in BOOLEAN, undone' \in BOOLEAN,
         stopped' => svc' = 0, phase' = "failed" /\ undone' => svc' = 0
  PROVE  CloudInv'
<1>1. cloud' = [cloud EXCEPT ![c] = [at |-> "idle", attempts |-> 0]] /\ cloud_lock' = NoCall
  BY DEF Cloud!Leaves
<1>2. 0 \in 0..2 /\ "idle" \in Cloud!At
  BY DEF Cloud!At
<1>3. CloudGoesTo(c, "idle", 0)
  BY <1>1, <1>2, CloudCallerIs DEF CloudInv
<1>4. Cloud!TypeOK'
  BY <1>1, <1>3 DEF Cloud!TypeOK, CloudGoesTo, CloudCaller
<1>5. \A e \in Call \ {c} : cloud[e].at = "idle"
  BY OthersAreIdle
<1>6. QED  BY <1>2, <1>3, <1>4, <1>5, CloudStepKeeps

\* A request goes on to its next place.
LEMMA CloudGoesOnKeeps ==
  ASSUME CloudInv, NEW c \in Call, cloud[c].at # "idle",
         NEW place \in Cloud!At \ {"idle", "undo"}, Cloud!Goes(c, place), cloud[c].attempts <= 1,
         svc' \in 0..MaxBoot, boots' \in 0..MaxBoot, phase' \in Cloud!Phase, undone' \in BOOLEAN,
         UNCHANGED <<row, cloud_lock, stopped>>,
         place \in {"status", "check", "delete", "post", "poll"} => ~stopped,
         place = "mark" => svc' = 0,
         place \in {"check", "delete", "post", "poll"} => phase' # "failed",
         stopped => svc' = 0,
         phase' = "failed" /\ undone' => svc' = 0
  PROVE  CloudInv'
<1>1. PICK n \in 0..2 : n = cloud[c].attempts
  BY DEF CloudInv, Cloud!TypeOK
<1>2. CloudGoesTo(c, place, n)
  BY <1>1, CloudCallerGoes DEF CloudInv
<1>3. Cloud!TypeOK'
  BY <1>2 DEF CloudInv, Cloud!TypeOK, CloudGoesTo, CloudCaller
<1>4. (\A e \in Call \ {c} : cloud[e].at = "idle") /\ cloud_lock = c
  BY OthersAreIdle DEF CloudInv, Attempting
<1>5. n <= 1
  BY <1>1
<1>6. QED  BY <1>2, <1>3, <1>4, <1>5, CloudStepKeeps

LEMMA StatusKeeps ==
  ASSUME CloudInv, NEW c \in Call, Cloud!Status(c)
  PROVE  CloudInv'
<1>1. /\ cloud[c].at = "status" /\ UNCHANGED <<svc, boots, row, stopped, undone>>
      /\ ~stopped /\ cloud[c].attempts <= 1 /\ ~Undoing
  BY NoneAssumption DEF Cloud!Status, CloudInv, Attempting, Undoing
<1>2. Cloud!TypeOK /\ (phase = "failed" /\ undone => svc = 0)
  BY <1>1 DEF CloudInv
<1>3. CASE Cloud!Leaves(c) /\ UNCHANGED phase
  BY <1>1, <1>2, <1>3, CloudLeavesKeeps DEF Cloud!TypeOK
<1>4. CASE Cloud!Goes(c, "check") /\ phase' = "provisioning" /\ UNCHANGED cloud_lock
  <2>1. "check" \in Cloud!At \ {"idle", "undo"} /\ phase' \in Cloud!Phase
    BY <1>4 DEF Cloud!At, Cloud!Phase
  <2>2. QED  BY <1>1, <1>2, <1>4, <2>1, CloudGoesOnKeeps DEF Cloud!TypeOK
<1>5. QED  BY <1>3, <1>4 DEF Cloud!Status

\* What holds of a request in an attempt.
LEMMA InAttempt ==
  ASSUME CloudInv, NEW c \in Call, cloud[c].at \in {"check", "delete", "post", "poll"}
  PROVE  /\ Cloud!TypeOK /\ ~stopped /\ cloud[c].attempts <= 1 /\ phase # "failed"
         /\ cloud_lock = c
BY DEF CloudInv, Attempting

LEMMA CheckKeeps ==
  ASSUME CloudInv, NEW c \in Call, Cloud!Check(c)
  PROVE  CloudInv'
<1>1. cloud[c].at = "check" /\ UNCHANGED <<svc, boots, row, stopped, undone>>
  BY DEF Cloud!Check
<1>2. Cloud!TypeOK /\ ~stopped /\ cloud[c].attempts <= 1
  BY <1>1, InAttempt
<1>3. CASE Cloud!Errs(c)
  BY <1>1, <1>2, <1>3, AttemptErrs DEF Cloud!TypeOK
<1>4. CASE ~Cloud!Errs(c)
  <2>1. PICK place \in {"delete", "post"} : Cloud!Goes(c, place)
    BY <1>4 DEF Cloud!Check
  <2>2. /\ place \in Cloud!At \ {"idle", "undo"} /\ phase' = "provisioning"
        /\ phase' \in Cloud!Phase /\ UNCHANGED cloud_lock
    BY <1>4 DEF Cloud!Check, Cloud!At, Cloud!Phase
  <2>3. QED  BY <1>1, <1>2, <2>1, <2>2, CloudGoesOnKeeps DEF Cloud!TypeOK
<1>5. QED  BY <1>3, <1>4

LEMMA DeleteKeeps ==
  ASSUME CloudInv, NEW c \in Call, Cloud!Delete(c)
  PROVE  CloudInv'
<1>1. cloud[c].at = "delete" /\ UNCHANGED <<boots, row, stopped, undone>>
  BY DEF Cloud!Delete
<1>2. Cloud!TypeOK /\ ~stopped /\ cloud[c].attempts <= 1 /\ phase # "failed"
  BY <1>1, InAttempt
<1>3. svc' \in 0..MaxBoot
  BY <1>2, BoundAssumption DEF Cloud!Delete, Cloud!TypeOK
<1>4. CASE Cloud!Errs(c)
  BY <1>1, <1>2, <1>3, <1>4, AttemptErrs DEF Cloud!TypeOK
<1>5. CASE ~Cloud!Errs(c)
  <2>1. Cloud!Goes(c, "post") /\ UNCHANGED <<phase, cloud_lock>>
    BY <1>5 DEF Cloud!Delete
  <2>2. "post" \in Cloud!At \ {"idle", "undo"}
    BY DEF Cloud!At
  <2>3. QED  BY <1>1, <1>2, <1>3, <2>1, <2>2, CloudGoesOnKeeps DEF Cloud!TypeOK
<1>6. QED  BY <1>4, <1>5

LEMMA PostKeeps ==
  ASSUME CloudInv, NEW c \in Call, Cloud!Post(c)
  PROVE  CloudInv'
<1>1. cloud[c].at = "post" /\ UNCHANGED <<row, stopped, undone>>
  BY DEF Cloud!Post
<1>2. Cloud!TypeOK /\ ~stopped /\ cloud[c].attempts <= 1 /\ phase # "failed"
  BY <1>1, InAttempt
<1>3. svc' \in 0..MaxBoot /\ boots' \in 0..MaxBoot
  BY <1>2, BoundAssumption DEF Cloud!Post, Cloud!Creates, Cloud!TypeOK
<1>4. CASE Cloud!Errs(c)
  BY <1>1, <1>2, <1>3, <1>4, AttemptErrs DEF Cloud!TypeOK
<1>5. CASE ~Cloud!Errs(c)
  <2>1. Cloud!Goes(c, "poll") /\ phase' = "booting_browser" /\ UNCHANGED cloud_lock
    BY <1>5 DEF Cloud!Post
  <2>2. "poll" \in Cloud!At \ {"idle", "undo"} /\ phase' \in Cloud!Phase
    BY <2>1 DEF Cloud!At, Cloud!Phase
  <2>3. QED  BY <1>1, <1>2, <1>3, <2>1, <2>2, CloudGoesOnKeeps DEF Cloud!TypeOK
<1>6. QED  BY <1>4, <1>5

LEMMA PollKeeps ==
  ASSUME CloudInv, NEW c \in Call, Cloud!Poll(c)
  PROVE  CloudInv'
<1>1. cloud[c].at = "poll" /\ UNCHANGED <<svc, boots, row, stopped, undone>>
  BY DEF Cloud!Poll
<1>2. Cloud!TypeOK /\ ~stopped /\ cloud[c].attempts <= 1 /\ phase # "failed" /\ cloud_lock = c
  BY <1>1, InAttempt
<1>3. CASE Cloud!Errs(c)
  BY <1>1, <1>2, <1>3, AttemptErrs DEF Cloud!TypeOK
<1>4. CASE Cloud!Leaves(c) /\ phase' = "ready"
  <2>1. phase' \in Cloud!Phase
    BY <1>4 DEF Cloud!Phase
  <2>2. QED  BY <1>1, <1>2, <1>4, <2>1, CloudLeavesKeeps DEF Cloud!TypeOK
<1>5. CASE UNCHANGED <<cloud, cloud_lock>> /\ phase' \in {"connecting", phase}
  <2>1. phase' \in Cloud!Phase /\ phase' # "failed"
    BY <1>2, <1>5 DEF Cloud!TypeOK, Cloud!Phase
  <2>2. PICK n \in 0..2 : n = cloud[c].attempts /\ n <= 1
    BY <1>2 DEF Cloud!TypeOK
  <2>3. CloudGoesTo(c, "poll", n)
    BY <1>1, <1>2, <1>5, <2>2 DEF CloudGoesTo, Cloud!TypeOK, CloudCaller
  <2>4. Cloud!TypeOK' /\ "poll" \in Cloud!At
    BY <1>1, <1>2, <1>5, <2>1 DEF Cloud!TypeOK, Cloud!At
  <2>5. \A e \in Call \ {c} : cloud[e].at = "idle"
    BY <1>1, OthersAreIdle
  <2>6. QED  BY <1>1, <1>2, <1>5, <2>1, <2>2, <2>3, <2>4, <2>5, CloudStepKeeps
<1>6. QED  BY <1>3, <1>4, <1>5 DEF Cloud!Poll

LEMMA UndoKeeps ==
  ASSUME CloudInv, NEW c \in Call, Cloud!Undo(c)
  PROVE  CloudInv'
<1>1. /\ cloud[c].at = "undo" /\ UNCHANGED <<boots, row, phase, stopped>>
      /\ \/ svc' = 0 /\ undone' = TRUE
         \/ svc' = svc /\ undone' = FALSE
  BY DEF Cloud!Undo
<1>2. Cloud!TypeOK /\ ~stopped /\ (cloud[c].attempts = 1 => phase # "failed")
  BY <1>1 DEF CloudInv, Attempting
<1>3. /\ svc' \in 0..MaxBoot /\ undone' \in BOOLEAN
      /\ undone' => svc' = 0
  <2>1. CASE svc' = 0 /\ undone' = TRUE
    <3>1. 0 \in 0..MaxBoot
      BY BoundAssumption
    <3>2. QED  BY <2>1, <3>1
  <2>2. CASE svc' = svc /\ undone' = FALSE
    <3>1. svc \in 0..MaxBoot
      BY <1>2 DEF Cloud!TypeOK
    <3>2. QED  BY <2>2, <3>1
  <2>3. QED  BY <1>1, <2>1, <2>2
<1>4. CASE cloud[c].attempts = 1
  <2>1. Cloud!Goes(c, "check") /\ UNCHANGED cloud_lock
    BY <1>4 DEF Cloud!Undo
  <2>2. "check" \in Cloud!At \ {"idle", "undo"} /\ cloud[c].attempts <= 1
    BY <1>4 DEF Cloud!At
  <2>3. QED  BY <1>1, <1>2, <1>3, <1>4, <2>1, <2>2, CloudGoesOnKeeps DEF Cloud!TypeOK
<1>5. CASE cloud[c].attempts # 1
  <2>1. Cloud!Leaves(c)
    BY <1>5 DEF Cloud!Undo
  <2>2. QED  BY <1>1, <1>2, <1>3, <2>1, CloudLeavesKeeps DEF Cloud!TypeOK
<1>6. QED  BY <1>4, <1>5

LEMMA RemoveKeeps ==
  ASSUME CloudInv, NEW c \in Call, Cloud!Remove(c)
  PROVE  CloudInv'
<1>1. /\ cloud[c].at = "remove" /\ svc' \in {svc, 0}
      /\ UNCHANGED <<boots, row, phase, stopped, undone>>
  BY DEF Cloud!Remove
<1>2. /\ Cloud!TypeOK /\ cloud[c].attempts <= 1 /\ ~Undoing
      /\ (stopped => svc = 0) /\ (phase = "failed" /\ undone /\ ~Undoing => svc = 0)
  BY <1>1, NoneAssumption DEF CloudInv, Attempting, Undoing, Cloud!StoppedIsGone
<1>3. svc' \in 0..MaxBoot
  BY <1>1, <1>2, BoundAssumption DEF Cloud!TypeOK
<1>4. CASE svc' = 0 /\ Cloud!Goes(c, "mark") /\ UNCHANGED cloud_lock
  <2>1. "mark" \in Cloud!At \ {"idle", "undo"}
    BY DEF Cloud!At
  <2>2. QED  BY <1>1, <1>2, <1>3, <1>4, <2>1, CloudGoesOnKeeps DEF Cloud!TypeOK
<1>5. CASE Cloud!Leaves(c)
  BY <1>1, <1>2, <1>3, <1>5, CloudLeavesKeeps DEF Cloud!TypeOK
<1>6. QED  BY <1>4, <1>5 DEF Cloud!Remove

LEMMA MarkKeeps ==
  ASSUME CloudInv, NEW c \in Call, Cloud!Mark(c)
  PROVE  CloudInv'
<1>1. /\ cloud[c].at = "mark" /\ stopped' = TRUE /\ Cloud!Leaves(c)
      /\ UNCHANGED <<svc, boots, phase, undone>>
  BY DEF Cloud!Mark
<1>2. Cloud!TypeOK /\ svc = 0
  BY <1>1 DEF CloudInv, Attempting
<1>3. row' \in {"none", "ready", "stopped"}
  BY <1>2 DEF Cloud!Mark, Cloud!TypeOK
<1>4. QED  BY <1>1, <1>2, <1>3, CloudLeavesKeeps DEF Cloud!TypeOK

LEMMA CloudStill == CloudInv /\ UNCHANGED cloudVars => CloudInv'
BY DEF cloudVars, CloudInv, Cloud!TypeOK, Attempting, Undoing, Cloud!StoppedIsGone

LEMMA CloudStep == CloudInv /\ Cloud!Next => CloudInv'
<1> SUFFICES ASSUME CloudInv, Cloud!Next  PROVE CloudInv'
  OBVIOUS
<1>1. CASE \E c \in Call : Cloud!Start(c) \/ Cloud!Stop(c)
  BY <1>1, CloudBeginsKeeps
<1>2. CASE \E c \in Call : Cloud!Ends(c) \/ Cloud!Poll(c)
  BY <1>2, StatusKeeps, CheckKeeps, DeleteKeeps, PostKeeps, PollKeeps, UndoKeeps, RemoveKeeps,
     MarkKeeps DEF Cloud!Ends
<1>3. CASE Cloud!Worker
  <2>1. row' \in {"none", "ready", "stopped"}
    BY <1>3 DEF Cloud!Worker
  <2>2. UNCHANGED <<svc, boots, phase, cloud, cloud_lock, stopped, undone>>
    BY <1>3 DEF Cloud!Worker
  <2>3. QED
    BY <2>1, <2>2 DEF CloudInv, Cloud!TypeOK, Attempting, Undoing, Cloud!StoppedIsGone
<1>4. QED  BY <1>1, <1>2, <1>3 DEF Cloud!Next

LEMMA CloudInvIsEnough ==
  CloudInv => Cloud!TypeOK /\ Cloud!StoppedIsGone /\ Cloud!FailureIsUndone
<1> SUFFICES ASSUME CloudInv, phase = "failed", cloud_lock = NoCall, undone  PROVE svc = 0
  BY DEF CloudInv, Cloud!FailureIsUndone
<1>1. ~Undoing
  BY NoneAssumption DEF CloudInv, Attempting, Undoing
<1>2. QED  BY <1>1 DEF CloudInv

-----------------------------------------------------------------------------
(* ServerBrowser                                                           *)

BrowserInv ==
  /\ Browsers!TypeOK
  /\ launch.at = "boot" => browser[launch.browser] # "none"
  /\ \A s \in Browsers!Session :
       rows[s].browser \in Browsers!Browser => browser[rows[s].browser] # "none"
  /\ Browsers!StopFindsTheBrowser

LEMMA BrowserInit == Browsers!Init => BrowserInv
<1> SUFFICES ASSUME Browsers!Init  PROVE BrowserInv
  OBVIOUS
<1>1. Browsers!TypeOK
  <2>1. rows \in [Browsers!Session -> Browsers!SessionRow]
    BY DEF Browsers!Init, Browsers!SessionRow, Browsers!None
  <2>2. managed \in [Browsers!Session -> Browsers!Browser \cup {Browsers!None}]
    BY DEF Browsers!Init
  <2>3. browser \in [Browsers!Browser -> {"none", "up", "told", "gone"}]
    BY DEF Browsers!Init
  <2>4. QED  BY <2>1, <2>2, <2>3 DEF Browsers!Init, Browsers!TypeOK, Browsers!Holder, Browsers!Free
<1>2. launch.at # "boot" /\ mine = {}
  BY DEF Browsers!Init, Browsers!Free
<1>3. \A s \in Browsers!Session : rows[s].browser \notin Browsers!Browser
  BY DEF Browsers!Init, Browsers!None, Browsers!Browser
<1>4. QED  BY <1>1, <1>2, <1>3 DEF BrowserInv, Browsers!StopFindsTheBrowser

\* Who has the lock, by what it is doing.
LEMMA WhoBoots ==
  ASSUME BrowserInv, launch.at \in {"boot", "reap"}
  PROVE  /\ launch \in [at : {"boot", "reap"}, browser : Browsers!Browser,
                         headless : BOOLEAN, session : Browsers!Session]
         /\ launch.browser \in Browsers!Browser /\ launch.session \in Browsers!Session
         /\ launch.headless \in BOOLEAN
BY DEF BrowserInv, Browsers!TypeOK, Browsers!Holder

LEMMA WhoStops ==
  ASSUME BrowserInv, launch.at = "stop"
  PROVE  launch.session \in Browsers!Session
BY DEF BrowserInv, Browsers!TypeOK, Browsers!Holder

\* A step that gives no row another browser, starts none and ends none's process without
\* telling it: what is left of the invariant is types.
LEMMA BrowsersFade ==
  ASSUME BrowserInv, Browsers!TypeOK', launch'.at # "boot" \/ launch' = launch,
         \A n \in Browsers!Browser : browser[n] # "none" => browser'[n] # "none",
         \A n \in Browsers!Browser : browser'[n] = "up" => browser[n] = "up",
         \A s \in Browsers!Session : rows'[s].browser = rows[s].browser,
         mine' = {} \/ (mine' = mine /\ managed' = managed)
  PROVE  BrowserInv'
<1>1. ASSUME launch'.at = "boot"  PROVE browser'[launch'.browser] # "none"
  BY <1>1, WhoBoots DEF BrowserInv
<1>2. \A s \in Browsers!Session :
        rows'[s].browser \in Browsers!Browser => browser'[rows'[s].browser] # "none"
  BY DEF BrowserInv
<1>3. ASSUME NEW s \in Browsers!Session, rows'[s].browser \in mine',
             browser'[rows'[s].browser] = "up"
      PROVE  managed'[s] = rows'[s].browser
  <2>1. mine' = mine /\ managed' = managed /\ mine \subseteq Browsers!Browser
    BY <1>3 DEF BrowserInv, Browsers!TypeOK
  <2>2. rows[s].browser \in mine /\ browser[rows[s].browser] = "up"
    BY <1>3, <2>1
  <2>3. QED  BY <2>1, <2>2 DEF BrowserInv, Browsers!StopFindsTheBrowser
<1>4. QED  BY <1>1, <1>2, <1>3 DEF BrowserInv, Browsers!StopFindsTheBrowser

LEMMA BrowserStill == BrowserInv /\ UNCHANGED browserVars => BrowserInv'
BY DEF browserVars, BrowserInv, Browsers!TypeOK, Browsers!StopFindsTheBrowser

LEMMA BootFailsKeeps == BrowserInv /\ Browsers!BootFails => BrowserInv'
<1> SUFFICES ASSUME BrowserInv, Browsers!BootFails  PROVE BrowserInv'
  OBVIOUS
<1>1. /\ UNCHANGED <<rows, managed, mine, handed, snapshot>>
      /\ launch' = [launch EXCEPT !.at = "reap"] /\ launch.at = "boot"
  BY DEF Browsers!BootFails
<1>2. PICK m \in Browsers!Browser : m = launch.browser
  BY <1>1, WhoBoots
<1>3. PICK z \in {"none", "up", "told", "gone"} :
        /\ browser' = [browser EXCEPT ![m] = z]
        /\ z # "up" /\ (browser[m] # "none" => z # "none")
  <2>1. browser' = [browser EXCEPT ![m] = IF browser[m] = "up" THEN "told" ELSE browser[m]]
    BY <1>2 DEF Browsers!BootFails
  <2>2. CASE browser[m] = "up"
    BY <2>1, <2>2
  <2>3. CASE browser[m] # "up"
    <3>1. browser[m] \in {"none", "up", "told", "gone"}
      BY DEF BrowserInv, Browsers!TypeOK
    <3>2. QED  BY <2>1, <2>3, <3>1
  <2>4. QED  BY <2>2, <2>3
<1>4. launch'.at = "reap" /\ launch' \in Browsers!Holder
  BY <1>1, WhoBoots DEF Browsers!Holder
<1>5. Browsers!TypeOK'
  BY <1>1, <1>3, <1>4 DEF BrowserInv, Browsers!TypeOK
<1>6. /\ \A n \in Browsers!Browser : browser[n] # "none" => browser'[n] # "none"
      /\ \A n \in Browsers!Browser : browser'[n] = "up" => browser[n] = "up"
  BY <1>3 DEF BrowserInv, Browsers!TypeOK
<1>7. QED  BY <1>1, <1>4, <1>5, <1>6, BrowsersFade

LEMMA LaunchKeeps ==
  ASSUME BrowserInv, NEW n \in Browsers!Browser, NEW h \in BOOLEAN, NEW f \in BOOLEAN,
         Browsers!Launch(n, h, f)
  PROVE  BrowserInv'
<1>1. /\ browser[n] = "none" /\ browser' = [browser EXCEPT ![n] = "up"]
      /\ mine' = mine \cup {n} /\ UNCHANGED <<rows, managed, handed, snapshot>>
  BY DEF Browsers!Launch
<1>2. PICK k \in Browsers!Session :
        launch' = [at |-> "boot", browser |-> n, headless |-> h, session |-> k]
  <2>1. n \in Browsers!Session /\ Browsers!Shared \in Browsers!Session
    BY DEF Browsers!Session
  <2>2. CASE f
    BY <2>1, <2>2 DEF Browsers!Launch
  <2>3. CASE ~f
    BY <2>1, <2>3 DEF Browsers!Launch
  <2>4. QED  BY <2>2, <2>3
<1>3. launch' \in Browsers!Holder /\ launch'.browser = n
  BY <1>2 DEF Browsers!Holder
<1>4. Browsers!TypeOK'
  BY <1>1, <1>3 DEF BrowserInv, Browsers!TypeOK
<1>5. browser'[n] = "up" /\ \A m \in Browsers!Browser \ {n} : browser'[m] = browser[m]
  BY <1>1 DEF BrowserInv, Browsers!TypeOK
<1>6. \A s \in Browsers!Session :
        rows'[s].browser \in Browsers!Browser => browser'[rows'[s].browser] # "none"
  BY <1>1, <1>5 DEF BrowserInv
<1>7. ASSUME NEW s \in Browsers!Session, rows'[s].browser \in mine',
             browser'[rows'[s].browser] = "up"
      PROVE  managed'[s] = rows'[s].browser
  <2>1. rows[s].browser # n
    BY <1>1 DEF BrowserInv
  <2>2. rows[s].browser \in mine /\ rows[s].browser \in Browsers!Browser
    BY <1>1, <1>7, <2>1 DEF BrowserInv, Browsers!TypeOK
  <2>3. browser[rows[s].browser] = "up"
    BY <1>1, <1>5, <1>7, <2>1, <2>2
  <2>4. QED  BY <1>1, <2>2, <2>3 DEF BrowserInv, Browsers!StopFindsTheBrowser
<1>8. QED  BY <1>3, <1>4, <1>5, <1>6, <1>7 DEF BrowserInv, Browsers!StopFindsTheBrowser

LEMMA BootsKeeps == BrowserInv /\ Browsers!Boots => BrowserInv'
<1> SUFFICES ASSUME BrowserInv, Browsers!Boots  PROVE BrowserInv'
  OBVIOUS
<1>1. PICK n \in Browsers!Browser, k \in Browsers!Session, h \in BOOLEAN :
        n = launch.browser /\ k = launch.session /\ h = launch.headless
  BY WhoBoots DEF Browsers!Boots
<1>2. PICK w \in Browsers!SessionRow :
        w = [status |-> "ready", browser |-> n, headless |-> h]
  BY DEF Browsers!SessionRow
<1>3. /\ rows' = [rows EXCEPT ![k] = w] /\ managed' = [managed EXCEPT ![k] = n]
      /\ launch' = Browsers!Free /\ handed' = k /\ UNCHANGED <<browser, mine, snapshot>>
  BY <1>1, <1>2 DEF Browsers!Boots
<1>4. browser[n] # "none" /\ w.browser = n
  BY <1>1, <1>2 DEF Browsers!Boots, BrowserInv
<1>5. /\ rows' \in [Browsers!Session -> Browsers!SessionRow]
      /\ rows'[k] = w /\ \A s \in Browsers!Session \ {k} : rows'[s] = rows[s]
  BY <1>3 DEF BrowserInv, Browsers!TypeOK
<1>6. /\ managed' \in [Browsers!Session -> Browsers!Browser \cup {Browsers!None}]
      /\ managed'[k] = n /\ \A s \in Browsers!Session \ {k} : managed'[s] = managed[s]
  BY <1>3 DEF BrowserInv, Browsers!TypeOK
<1>7. launch' \in Browsers!Holder /\ launch'.at # "boot"
  BY <1>3 DEF Browsers!Holder, Browsers!Free
<1>8. Browsers!TypeOK'
  BY <1>3, <1>5, <1>6, <1>7 DEF BrowserInv, Browsers!TypeOK
<1>9. \A s \in Browsers!Session :
        rows'[s].browser \in Browsers!Browser => browser'[rows'[s].browser] # "none"
  BY <1>3, <1>4, <1>5 DEF BrowserInv
<1>10. Browsers!StopFindsTheBrowser'
  BY <1>3, <1>4, <1>5, <1>6 DEF BrowserInv, Browsers!StopFindsTheBrowser
<1>11. QED  BY <1>7, <1>8, <1>9, <1>10 DEF BrowserInv

LEMMA StopsKeeps ==
  ASSUME BrowserInv, NEW s \in Browsers!Session, Browsers!Stop(s)
  PROVE  BrowserInv'
<1>1. /\ launch' = [at |-> "stop", session |-> s]
      /\ managed' = [managed EXCEPT ![s] = Browsers!None]
      /\ UNCHANGED <<rows, mine, handed, snapshot>>
  BY DEF Browsers!Stop
<1>2. /\ browser' \in [Browsers!Browser -> {"none", "up", "told", "gone"}]
      /\ \A n \in Browsers!Browser : /\ browser[n] # "none" => browser'[n] # "none"
                                     /\ browser'[n] = "up" => browser[n] = "up"
      /\ managed[s] \in Browsers!Browser => browser'[managed[s]] # "up"
  <2>1. browser \in [Browsers!Browser -> {"none", "up", "told", "gone"}]
    BY DEF BrowserInv, Browsers!TypeOK
  <2>2. CASE managed[s] # Browsers!None /\ browser[managed[s]] = "up"
    <3>1. PICK m \in Browsers!Browser : m = managed[s]
      BY <2>2 DEF BrowserInv, Browsers!TypeOK
    <3>2. browser' = [browser EXCEPT ![m] = "told"]
      BY <2>2, <3>1 DEF Browsers!Stop
    <3>3. QED  BY <2>1, <3>1, <3>2
  <2>3. CASE ~(managed[s] # Browsers!None /\ browser[managed[s]] = "up")
    <3>1. browser' = browser
      BY <2>3 DEF Browsers!Stop
    <3>2. managed[s] \in Browsers!Browser => managed[s] # Browsers!None
      BY DEF Browsers!Browser, Browsers!None
    <3>3. QED  BY <2>1, <2>3, <3>1, <3>2
  <2>4. QED  BY <2>2, <2>3
<1>3. managed' \in [Browsers!Session -> Browsers!Browser \cup {Browsers!None}]
  BY <1>1 DEF BrowserInv, Browsers!TypeOK
<1>4. launch' \in Browsers!Holder /\ launch'.at # "boot"
  BY <1>1 DEF Browsers!Holder
<1>5. Browsers!TypeOK'
  BY <1>1, <1>2, <1>3, <1>4 DEF BrowserInv, Browsers!TypeOK
<1>6. \A k \in Browsers!Session :
        rows'[k].browser \in Browsers!Browser => browser'[rows'[k].browser] # "none"
  BY <1>1, <1>2 DEF BrowserInv
<1>7. ASSUME NEW k \in Browsers!Session, rows'[k].browser \in mine',
             browser'[rows'[k].browser] = "up"
      PROVE  managed'[k] = rows'[k].browser
  <2>1. PICK n \in Browsers!Browser : n = rows[k].browser /\ n \in mine
    BY <1>1, <1>7 DEF BrowserInv, Browsers!TypeOK
  <2>2. browser[n] = "up" /\ browser'[n] = "up"
    BY <1>1, <1>2, <1>7, <2>1
  <2>3. managed[k] = n
    BY <2>1, <2>2 DEF BrowserInv, Browsers!StopFindsTheBrowser
  <2>4. k # s
    BY <1>2, <2>2, <2>3
  <2>5. QED  BY <1>1, <2>1, <2>3, <2>4 DEF BrowserInv, Browsers!TypeOK
<1>8. QED  BY <1>4, <1>5, <1>6, <1>7 DEF BrowserInv, Browsers!StopFindsTheBrowser

\* One row gets another status, and keeps its browser.
LEMMA RowIsRemarked ==
  ASSUME BrowserInv, NEW s \in Browsers!Session, NEW x \in {"none", "ready", "stopped"},
         rows' = [rows EXCEPT ![s].status = x]
  PROVE  /\ rows' \in [Browsers!Session -> Browsers!SessionRow]
         /\ \A k \in Browsers!Session : rows'[k].browser = rows[k].browser
<1>1. PICK w \in Browsers!SessionRow : w = rows[s]
  BY DEF BrowserInv, Browsers!TypeOK
<1>2. [w EXCEPT !.status = x] \in Browsers!SessionRow /\ [w EXCEPT !.status = x].browser = w.browser
  BY DEF Browsers!SessionRow
<1> PICK v \in Browsers!SessionRow : v = [w EXCEPT !.status = x] /\ v.browser = w.browser
  BY <1>2
<1>3. rows' = [rows EXCEPT ![s] = v]
  BY <1>1
<1>4. QED  BY <1>1, <1>3 DEF BrowserInv, Browsers!TypeOK

LEMMA BrowserStep == BrowserInv /\ Browsers!Next => BrowserInv'
<1> SUFFICES ASSUME BrowserInv, Browsers!Next  PROVE BrowserInv'
  OBVIOUS
<1>1. Browsers!Free \in Browsers!Holder /\ Browsers!Free.at # "boot"
  BY DEF Browsers!Free, Browsers!Holder
<1>2. CASE Browsers!Reap
  <2>1. UNCHANGED <<browser, rows, managed, mine, handed, snapshot>> /\ launch' = Browsers!Free
    BY <1>2 DEF Browsers!Reap
  <2>2. Browsers!TypeOK'
    BY <1>1, <2>1 DEF BrowserInv, Browsers!TypeOK
  <2>3. QED  BY <1>1, <2>1, <2>2, BrowsersFade
<1>3. CASE Browsers!StopMarks
  <2>1. /\ UNCHANGED <<browser, managed, mine, handed, snapshot>> /\ launch' = Browsers!Free
        /\ launch.session \in Browsers!Session
        /\ rows' = [rows EXCEPT ![launch.session].status = "stopped"]
    BY <1>3, WhoStops DEF Browsers!StopMarks
  <2>2. /\ rows' \in [Browsers!Session -> Browsers!SessionRow]
        /\ \A k \in Browsers!Session : rows'[k].browser = rows[k].browser
    BY <2>1, RowIsRemarked
  <2>3. Browsers!TypeOK'
    BY <1>1, <2>1, <2>2 DEF BrowserInv, Browsers!TypeOK
  <2>4. QED  BY <1>1, <2>1, <2>2, <2>3, BrowsersFade
<1>4. CASE Browsers!SnapshotReads
  <2>1. UNCHANGED <<browser, rows, managed, launch, mine, handed>> /\ snapshot' = handed
    BY <1>4 DEF Browsers!SnapshotReads
  <2>2. Browsers!TypeOK'
    BY <2>1 DEF BrowserInv, Browsers!TypeOK
  <2>3. QED  BY <2>1, <2>2, BrowsersFade
<1>5. CASE Browsers!SnapshotWrites
  <2>1. /\ UNCHANGED <<browser, managed, launch, mine, handed>> /\ snapshot' = Browsers!Nobody
        /\ snapshot \in Browsers!Session
        /\ rows' = [rows EXCEPT ![snapshot].status = "ready"]
    BY <1>5 DEF Browsers!SnapshotWrites, BrowserInv, Browsers!TypeOK
  <2>2. /\ rows' \in [Browsers!Session -> Browsers!SessionRow]
        /\ \A k \in Browsers!Session : rows'[k].browser = rows[k].browser
    BY <2>1, RowIsRemarked
  <2>3. Browsers!TypeOK'
    BY <2>1, <2>2 DEF BrowserInv, Browsers!TypeOK
  <2>4. QED  BY <2>1, <2>2, <2>3, BrowsersFade
<1>6. CASE Browsers!Restart
  <2>1. /\ UNCHANGED <<browser, rows>> /\ launch' = Browsers!Free /\ mine' = {}
        /\ managed' = [s \in Browsers!Session |-> Browsers!None]
        /\ handed' = Browsers!Nobody /\ snapshot' = Browsers!Nobody
    BY <1>6 DEF Browsers!Restart
  <2>2. Browsers!TypeOK'
    BY <1>1, <2>1 DEF BrowserInv, Browsers!TypeOK
  <2>3. QED  BY <1>1, <2>1, <2>2, BrowsersFade
<1>7. ASSUME NEW s \in Browsers!Session, NEW h \in BOOLEAN, Browsers!Reuse(s, h)
      PROVE  BrowserInv'
  <2>1. UNCHANGED <<browser, rows, managed, launch, mine, snapshot>> /\ handed' = s
    BY <1>7 DEF Browsers!Reuse
  <2>2. Browsers!TypeOK'
    BY <2>1 DEF BrowserInv, Browsers!TypeOK
  <2>3. QED  BY <2>1, <2>2, BrowsersFade
<1>8. ASSUME NEW n \in Browsers!Browser, Browsers!Ends(n)  PROVE BrowserInv'
  <2>1. /\ UNCHANGED <<rows, managed, launch, mine, handed, snapshot>>
        /\ browser' = [browser EXCEPT ![n] = "gone"]
    BY <1>8 DEF Browsers!Ends
  <2>2. Browsers!TypeOK'
    BY <2>1 DEF BrowserInv, Browsers!TypeOK
  <2>3. /\ \A m \in Browsers!Browser : browser[m] # "none" => browser'[m] # "none"
        /\ \A m \in Browsers!Browser : browser'[m] = "up" => browser[m] = "up"
    BY <2>1 DEF BrowserInv, Browsers!TypeOK
  <2>4. QED  BY <2>1, <2>2, <2>3, BrowsersFade
<1>9. QED
  BY <1>2, <1>3, <1>4, <1>5, <1>6, <1>7, <1>8, BootFailsKeeps, BootsKeeps, StopsKeeps, LaunchKeeps
     DEF Browsers!Next

-----------------------------------------------------------------------------
(* The composition: one part moves at a time.                              *)

PartsInv == SocketInv /\ VoiceInv /\ PictureInv /\ LocalInv /\ CloudInv /\ BrowserInv

LEMMA PartsInit == MCInit => PartsInv
BY SocketInit, VoiceInit, PictureInit, LocalInit, CloudInit, BrowserInit DEF MCInit, PartsInv

LEMMA PartsStep ==
  PartsInv /\ [MCNext]_<<focus, socketVars, voiceVars, pictureVars, localVars, cloudVars, browserVars>>
    => PartsInv'
<1> SUFFICES ASSUME PartsInv,
             [MCNext]_<<focus, socketVars, voiceVars, pictureVars, localVars, cloudVars, browserVars>>
    PROVE  PartsInv'
  OBVIOUS
<1>1. SocketInv'
  <2>1. Sockets!Next \/ UNCHANGED socketVars
    BY DEF MCNext
  <2>2. QED  BY <2>1, SocketStep, SocketStill DEF PartsInv
<1>2. VoiceInv'
  <2>1. Voice!Next \/ UNCHANGED voiceVars
    BY DEF MCNext
  <2>2. QED  BY <2>1, VoiceStep, VoiceStill DEF PartsInv
<1>3. PictureInv'
  <2>1. Picture!Next \/ UNCHANGED pictureVars
    BY DEF MCNext
  <2>2. QED  BY <2>1, PictureStep, PictureStill DEF PartsInv
<1>4. LocalInv'
  <2>1. Local!Next \/ UNCHANGED localVars
    BY DEF MCNext
  <2>2. QED  BY <2>1, LocalStep, LocalStill DEF PartsInv
<1>5. CloudInv'
  <2>1. Cloud!Next \/ UNCHANGED cloudVars
    BY DEF MCNext
  <2>2. QED  BY <2>1, CloudStep, CloudStill DEF PartsInv
<1>6. BrowserInv'
  <2>1. Browsers!Next \/ UNCHANGED browserVars
    BY DEF MCNext
  <2>2. QED  BY <2>1, BrowserStep, BrowserStill DEF PartsInv
<1>7. QED  BY <1>1, <1>2, <1>3, <1>4, <1>5, <1>6 DEF PartsInv

LEMMA PartsAlways == MCFairSpec => []PartsInv
BY PartsInit, PartsStep, PTL DEF MCFairSpec

\* The connection manager's tables, the voice sessions, the frames' subscribers, the workers
\* of the runtime and the launched browsers keep their types in every reachable state.
THEOREM PartsTypeCorrect == MCFairSpec => []TypeOK
<1>1. PartsInv => TypeOK
  BY SocketInvIsEnough, VoiceInvIsEnough, CloudInvIsEnough
     DEF PartsInv, PictureInv, LocalInv, BrowserInv, TypeOK
<1>2. QED  BY <1>1, PartsAlways, PTL

\* A pending command is on the socket its device has now, whoever waits for an answer is
\* found by the answer or by the end of the connection, and a device none of whose endpoints
\* is left has nothing in the manager's tables, however sockets open, replace each other and
\* break while commands are sent, answered and timed out.
THEOREM CommandsAreAlwaysReachable == MCFairSpec => []CommandsAreReachable
<1>1. PartsInv => CommandsAreReachable
  BY SocketInvIsEnough DEF PartsInv
<1>2. QED  BY <1>1, PartsAlways, PTL

\* A voice session's record and its device's entry name each other and a recorded session has
\* an endpoint left that will stop it, however many endpoints of a device start and stop
\* sessions at once; a pump that nobody cancelled is on record unless its device's endpoints
\* overlapped.
THEOREM VoiceIsAlwaysStoppable == MCFairSpec => []VoiceIsStoppable
<1>1. PartsInv => VoiceIsStoppable
  BY VoiceInvIsEnough DEF PartsInv
<1>2. QED  BY <1>1, PartsAlways, PTL

\* Somebody who was told of its subscription to a session's frames is in the set that frames
\* are sent to, unless a send to it failed or the end of an older broadcast dropped the set,
\* and the table has no empty set, while subscribers come, go and fail during broadcasts.
THEOREM WatchersAreAlwaysServed == MCFairSpec => []WatchersAreServed
<1>1. PartsInv => WatchersAreServed
  BY DEF PartsInv, PictureInv
<1>2. QED  BY <1>1, PartsAlways, PTL

\* A local worker that runs is one that the handle or a request under way names, unless a
\* start went on beside a stop; a worker service is gone once it was stopped, or its failed
\* start undone; and a browser at a session's address is the one that stopping the session
\* terminates.
THEOREM WorkersAreAlwaysKnown == MCFairSpec => []WorkersAreKnown
<1>1. PartsInv => WorkersAreKnown
  BY CloudInvIsEnough DEF PartsInv, LocalInv, BrowserInv, WorkersAreKnown
<1>2. QED  BY <1>1, PartsAlways, PTL
=============================================================================
