---------------------------- MODULE MCConnections ----------------------------
(***************************************************************************)
(* The sockets, sessions, workers and browsers of the backend on small     *)
(* instances.  They share no state, so a behaviour of this module is one   *)
(* of any of them: focus says which, and the others stay as they begin.    *)
(***************************************************************************)
EXTENDS Naturals

CONSTANTS
  a, b, c1, c2, d1, v1,
  Device, Socket, Command, Tab, NoSocket,
  VoiceEndpoint, Pump, Name, NoPump, NoKey, NoEndpoint,
  Source, Watcher, Viewer, Object, MaxFrame, NoSource, NoObject,
  Proc, Call, NoProc, NoCall, MaxBoot, MaxBrowser

ASSUME NoneAssumption ==
  /\ NoSocket \notin Socket /\ NoSource \notin Source /\ NoObject \notin Object
  /\ NoPump \notin Pump /\ NoKey \notin Device \X Name /\ NoEndpoint \notin VoiceEndpoint
  /\ NoProc \notin Proc /\ NoCall \notin Call
ASSUME DeviceAssumption == Device # {}
ASSUME BoundAssumption == MaxFrame \in Nat /\ MaxBoot \in Nat /\ MaxBrowser \in Nat

\* The program can always make another set of subscribers.
ASSUME ObjectAssumption ==
  \A f \in [Source -> Object \cup {NoObject}] : \E o \in Object : \A s \in Source : f[s] # o

VARIABLES
  focus,
  table, sock, cmd,
  sessions, bound, holder, waiting, endpoint, pump, overlapped,
  conn, source, latest, entry, members, viewer, told, orphaned, lastPut,
  handle, proc, watch, task, call, lock, raced,
  svc, boots, row, phase, cloud, cloud_lock, stopped, undone,
  browser, rows, managed, launch, mine, handed, snapshot

Sockets == INSTANCE DeviceSockets
\* Devices do not share keys: a key is a device and the name its client chose.
Voice   == INSTANCE LiveSessions WITH Endpoint <- VoiceEndpoint, Key <- Device \X Name,
                                      KeysOf <- [d \in Device |-> {d} \X Name]
Picture == INSTANCE SessionStream
Local   == INSTANCE LocalRunner
Cloud   == INSTANCE CloudRunner WITH call <- cloud, lock <- cloud_lock
Browsers == INSTANCE ServerBrowser WITH holder <- launch

socketVars  == <<table, sock, cmd>>
voiceVars   == <<sessions, bound, holder, waiting, endpoint, pump, overlapped>>
pictureVars == <<conn, source, latest, entry, members, viewer, told, orphaned, lastPut>>
localVars   == <<handle, proc, watch, task, call, lock, raced>>
cloudVars   == <<svc, boots, row, phase, cloud, cloud_lock, stopped, undone>>
browserVars == <<browser, rows, managed, launch, mine, handed, snapshot>>

MCInit ==
  /\ focus \in {"sockets", "voice", "picture", "runner", "local", "cloud", "browser"}
  /\ Sockets!Init /\ Voice!Init /\ Picture!Init /\ Local!Init /\ Cloud!Init /\ Browsers!Init

MCNext ==
  /\ UNCHANGED focus
  /\ \/ /\ focus = "sockets" /\ Sockets!Next
        /\ UNCHANGED <<voiceVars, pictureVars, localVars, cloudVars, browserVars>>
     \/ /\ focus = "voice" /\ Voice!Next
        /\ UNCHANGED <<socketVars, pictureVars, localVars, cloudVars, browserVars>>
     \/ /\ focus \in {"picture", "runner"} /\ Picture!Next
        /\ UNCHANGED <<socketVars, voiceVars, localVars, cloudVars, browserVars>>
     \/ /\ focus = "local" /\ Local!Next
        /\ UNCHANGED <<socketVars, voiceVars, pictureVars, cloudVars, browserVars>>
     \/ /\ focus = "cloud" /\ Cloud!Next
        /\ UNCHANGED <<socketVars, voiceVars, pictureVars, localVars, browserVars>>
     \/ /\ focus = "browser" /\ Browsers!Next
        /\ UNCHANGED <<socketVars, voiceVars, pictureVars, localVars, cloudVars>>

MCFairSpec ==
  /\ MCInit
  /\ [][MCNext]_<<focus, socketVars, voiceVars, pictureVars, localVars, cloudVars, browserVars>>
  /\ Sockets!Fairness /\ Voice!Fairness /\ Picture!Fairness /\ Local!Fairness /\ Cloud!Fairness

-----------------------------------------------------------------------------
TypeOK ==
  /\ Sockets!TypeOK /\ Voice!TypeOK /\ Picture!TypeOK /\ Local!TypeOK /\ Cloud!TypeOK
  /\ Browsers!TypeOK

\* What the parts' modules state, and say there.

\* Commands of a device are where a result, or the end of its connection, finds them.
CommandsAreReachable ==
  /\ Sockets!PendingIsOnPresentSocket
  /\ Sockets!WaiterIsReachable
  /\ Sockets!NothingOutlivesEndpoints

\* A voice session is on record, and there is somebody left who will stop it.
VoiceIsStoppable ==
  /\ Voice!BindingIsMutual
  /\ Voice!SessionHasEndpoint
  /\ Voice!RunningPumpIsKnown

\* Who subscribed to a session's frames stays in the set they are sent to.
WatchersAreServed == Picture!EntryHasWatchers /\ Picture!WatcherIsKept

\* No worker and no browser runs that a stop would not find; what was stopped or given up is gone.
WorkersAreKnown ==
  /\ Local!WorkerIsKnown /\ Cloud!StoppedIsGone /\ Cloud!FailureIsUndone
  /\ Browsers!StopFindsTheBrowser

\* What each part owes in the end: see DeadSocketLeaves, EndpointEnds, LastFrameIsShown,
\* DeadRunnerLeaves, ExitIsNoticed and StartEnds.
Owed ==
  CASE focus = "sockets" -> Sockets!Dead(a)
    [] focus = "voice" -> endpoint[a].last
    [] focus = "picture" -> Picture!Misses(v1)
    [] focus = "runner" -> Picture!DeadRunner(a)
    [] focus = "local" -> Local!Unnoticed(a)
    [] focus = "cloud" -> cloud_lock = c1
    [] OTHER -> FALSE

Settled ==
  CASE focus = "sockets" -> table.conn[d1] # a
    [] focus = "voice" -> endpoint[a].at = "gone"
    [] focus = "picture" -> viewer[v1].at = "off" \/ viewer[v1].shown = MaxFrame
    [] focus = "runner" -> conn # a
    [] focus = "local" -> ~(handle.state = "ready" /\ handle.process = a)
    [] focus = "cloud" -> cloud_lock # c1
    [] OTHER -> TRUE

OwedIsSettled == Owed ~> Settled
=============================================================================
