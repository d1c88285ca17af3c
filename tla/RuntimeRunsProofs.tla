------------------------- MODULE RuntimeRunsProofs -------------------------
(***************************************************************************)
(* Theorems about RuntimeRuns for any runs, clients and bounds.            *)
(***************************************************************************)
EXTENDS RuntimeRuns, SequenceTheorems, TLAPS

States == {"none", "running", "paused", "cancelled", "failed", "completed"}

\* The inductive invariant behind RunningIsDriven: a known run has a controller, of
\* an execution of its own, and no controller is aborted before it is created.
DriveInv ==
  /\ record \in [Run -> States]
  /\ current \in [Run -> Exec \cup {NoExec}]
  /\ aborted \subseteq Exec
  /\ exec \in [Exec -> [run : Run \cup {NoRun}, phase : Phase]]
  /\ \A r \in Run : record[r] # "none" => current[r] \in Exec
  /\ \A r \in Run : current[r] \in Exec =>
       exec[current[r]].run = r /\ exec[current[r]].phase # "none"
  /\ \A e \in Exec : exec[e].phase \in {"live", "lingering"} => exec[e].run \in Run
  /\ \A e \in Exec : exec[e].phase = "live" => record[exec[e].run] # "none"
  /\ \A e \in aborted : exec[e].phase # "none"
  /\ RunningIsDriven

LEMMA InitDrive == Init => DriveInv
BY DEF Init, DriveInv, States, Phase, RunningIsDriven, NoExec, Exec

LEMMA StartDrive ==
  ASSUME DriveInv, NEW k \in Client, NEW r \in Run, StartRun(k, r)
  PROVE  DriveInv'
<1>1. PICK e \in Exec : /\ exec[e].phase = "none"
                        /\ exec' = [exec EXCEPT ![e] = [run |-> r, phase |-> "live"]]
                        /\ current' = [current EXCEPT ![r] = e]
  BY DEF StartRun
<1>2. record' = [record EXCEPT ![r] = "running"] /\ aborted' = aborted
  BY DEF StartRun
<1>3. exec'[e] = [run |-> r, phase |-> "live"] /\ current'[r] = e /\ e \notin aborted
  BY <1>1 DEF DriveInv
<1>4. \A q \in Run \ {r} : current'[q] = current[q] /\ record'[q] = record[q] /\ current[q] # e
  BY <1>1, <1>2 DEF DriveInv
<1>5. \A f \in Exec \ {e} : exec'[f] = exec[f]
  BY <1>1 DEF DriveInv
<1>6. /\ record' \in [Run -> States]
      /\ current' \in [Run -> Exec \cup {NoExec}]
      /\ aborted' \subseteq Exec
      /\ exec' \in [Exec -> [run : Run \cup {NoRun}, phase : Phase]]
  BY <1>1, <1>2 DEF DriveInv, States, Phase
<1>7. RunningIsDriven'
  <2>1. NoExec \notin Exec
    BY DEF NoExec, Exec
  <2>2. ASSUME NEW q \in Run, record'[q] = "running"
        PROVE  /\ current'[q] # NoExec
               /\ exec'[current'[q]] = [run |-> q, phase |-> "live"]
               /\ current'[q] \notin aborted'
    <3>1. CASE q = r
      BY <1>2, <1>3, <2>1, <3>1
    <3>2. CASE q # r
      <4>1. record[q] = "running" /\ current'[q] = current[q] /\ current[q] # e
        BY <1>4, <2>2, <3>2
      <4>2. current[q] \in Exec /\ exec'[current[q]] = exec[current[q]]
        BY <1>5, <4>1 DEF DriveInv
      <4>. QED BY <1>2, <4>1, <4>2 DEF DriveInv, RunningIsDriven
    <3>. QED BY <3>1, <3>2
  <2>. QED BY <2>2 DEF RunningIsDriven
<1>8. \A q \in Run : record'[q] # "none" => current'[q] \in Exec
  BY <1>3, <1>4 DEF DriveInv
<1>9. \A q \in Run : current'[q] \in Exec =>
        exec'[current'[q]].run = q /\ exec'[current'[q]].phase # "none"
  <2>. SUFFICES ASSUME NEW q \in Run, current'[q] \in Exec
                PROVE  exec'[current'[q]].run = q /\ exec'[current'[q]].phase # "none"
    OBVIOUS
  <2>1. CASE q = r
    BY <1>3, <2>1
  <2>2. CASE q # r
    BY <1>4, <1>5, <2>2 DEF DriveInv
  <2>. QED BY <2>1, <2>2
<1>10. \A f \in Exec : exec'[f].phase \in {"live", "lingering"} => exec'[f].run \in Run
  BY <1>3, <1>5 DEF DriveInv
<1>11. \A f \in Exec : exec'[f].phase = "live" => record'[exec'[f].run] # "none"
  <2>1. \A q \in Run : record[q] # "none" => record'[q] # "none"
    BY <1>2 DEF DriveInv
  <2>2. record'[r] # "none"
    BY <1>2 DEF DriveInv
  <2>. QED BY <1>3, <1>5, <2>1, <2>2 DEF DriveInv
<1>12. \A f \in aborted' : exec'[f].phase # "none"
  BY <1>2, <1>3, <1>5 DEF DriveInv
<1>. QED BY <1>6, <1>7, <1>8, <1>9, <1>10, <1>11, <1>12 DEF DriveInv

\* A pause or a cancellation.
LEMMA InterruptDrive ==
  ASSUME DriveInv, NEW r \in Run, NEW state \in {"paused", "cancelled"}, NEW type,
         Interrupt(r, state, type)
  PROVE  DriveInv'
<1>1. /\ record' = [record EXCEPT ![r] = state]
      /\ aborted' = aborted \cup {current[r]}
      /\ current' = current /\ exec' = exec
      /\ current[r] \in Exec
  BY DEF Interrupt, DriveInv
<1>2. \A q \in Run \ {r} : current[q] \in Exec => current[q] # current[r]
  BY <1>1 DEF DriveInv
<1>3. RunningIsDriven'
  <2>1. ASSUME NEW q \in Run, record'[q] = "running"
        PROVE  /\ current[q] # NoExec
               /\ exec[current[q]] = [run |-> q, phase |-> "live"]
               /\ current[q] \notin aborted'
    <3>1. q # r /\ record[q] = "running"
      BY <1>1, <2>1 DEF DriveInv
    <3>. QED BY <1>1, <1>2, <3>1 DEF DriveInv, RunningIsDriven
  <2>. QED BY <1>1, <2>1 DEF RunningIsDriven
<1>4. \A q \in Run : record'[q] # "none" => current[q] \in Exec
  BY <1>1 DEF DriveInv
<1>5. \A q \in Run : record[q] # "none" => record'[q] # "none"
  BY <1>1 DEF DriveInv
<1>6. record' \in [Run -> States]
  BY <1>1 DEF DriveInv, States
<1>7. \A e \in aborted' : exec'[e].phase # "none"
  BY <1>1 DEF DriveInv
<1>. QED BY <1>1, <1>3, <1>4, <1>5, <1>6, <1>7 DEF DriveInv

LEMMA EndDrive ==
  ASSUME DriveInv, NEW e \in Exec, ExecutionEnds(e)
  PROVE  DriveInv'
<1>. DEFINE r == exec[e].run
<1>1. PICK p \in {"lingering", "done"} : exec' = [exec EXCEPT ![e].phase = p]
  BY DEF ExecutionEnds
<1>2. current' = current /\ aborted' = aborted /\ r \in Run
  BY DEF ExecutionEnds, DriveInv
<1>3. \/ record' = record /\ Silenced(r)
      \/ \E state \in {"completed", "failed"} : record' = [record EXCEPT ![r] = state]
  BY DEF ExecutionEnds, Outcomes
<1>4. record' \in [Run -> States] /\ exec' \in [Exec -> [run : Run \cup {NoRun}, phase : Phase]]
  BY <1>1, <1>2, <1>3 DEF DriveInv, States, Phase
<1>5. \A f \in Exec : exec'[f].run = exec[f].run /\ (f # e => exec'[f] = exec[f])
  BY <1>1 DEF DriveInv
<1>6. exec'[e].phase = p
  BY <1>1 DEF DriveInv
<1>7. \A q \in Run : record'[q] = "running" => q # r /\ record[q] = "running"
  BY <1>2, <1>3 DEF DriveInv, Silenced
<1>8. RunningIsDriven'
  <2>1. ASSUME NEW q \in Run, record'[q] = "running"
        PROVE  /\ current[q] # NoExec
               /\ exec'[current[q]] = [run |-> q, phase |-> "live"]
               /\ current[q] \notin aborted
    <3>1. q # r /\ record[q] = "running"
      BY <1>7, <2>1
    <3>2. current[q] \in Exec /\ exec[current[q]].run = q
      BY <3>1 DEF DriveInv
    <3>3. current[q] # e
      BY <3>1, <3>2
    <3>. QED BY <1>5, <3>1, <3>2, <3>3 DEF DriveInv, RunningIsDriven
  <2>. QED BY <1>2, <2>1 DEF RunningIsDriven
<1>9. \A q \in Run : record'[q] # "none" => current[q] \in Exec
  <2>1. exec[e].phase = "live"
    BY DEF ExecutionEnds
  <2>2. current[r] \in Exec
    BY <1>2, <2>1 DEF DriveInv
  <2>. QED BY <1>2, <1>3, <2>2 DEF DriveInv
<1>10. \A f \in Exec : exec'[f].phase = "none" => exec[f].phase = "none"
  BY <1>5, <1>6
<1>11. \A q \in Run : record[q] # "none" => record'[q] # "none"
  BY <1>2, <1>3 DEF DriveInv
<1>12. \A f \in Exec : exec'[f].phase \in {"live", "lingering"} => exec'[f].run \in Run
  BY <1>2, <1>5 DEF DriveInv
<1>13. \A f \in Exec : exec'[f].phase = "live" => record'[exec'[f].run] # "none"
  BY <1>5, <1>6, <1>11 DEF DriveInv
<1>14. \A f \in aborted : exec'[f].phase # "none"
  BY <1>10 DEF DriveInv
<1>15. \A q \in Run : current[q] \in Exec =>
         exec'[current[q]].run = q /\ exec'[current[q]].phase # "none"
  BY <1>5, <1>10 DEF DriveInv
<1>. QED BY <1>2, <1>4, <1>8, <1>9, <1>12, <1>13, <1>14, <1>15 DEF DriveInv

LEMMA ChildDrive ==
  ASSUME DriveInv, NEW e \in Exec, ChildCloses(e)
  PROVE  DriveInv'
<1>1. /\ exec[e].phase = "lingering" /\ exec' = [exec EXCEPT ![e].phase = "done"]
      /\ record' = record /\ current' = current /\ aborted' = aborted
  BY DEF ChildCloses
<1>2. /\ \A f \in Exec \ {e} : exec'[f] = exec[f]
      /\ exec'[e].run = exec[e].run /\ exec'[e].phase = "done"
  BY <1>1 DEF DriveInv
<1>3. exec' \in [Exec -> [run : Run \cup {NoRun}, phase : Phase]]
  BY <1>1 DEF DriveInv, Phase
<1>4. \A q \in Run : record[q] = "running" => current[q] \in Exec /\ current[q] # e
  <2>1. ASSUME NEW q \in Run, record[q] = "running"
        PROVE  exec[current[q]].phase = "live"
    <3>1. exec[current[q]] = [run |-> q, phase |-> "live"]
      BY <2>1 DEF DriveInv, RunningIsDriven
    <3>. QED BY <3>1
  <2>. QED BY <1>1, <2>1 DEF DriveInv
<1>5. RunningIsDriven'
  BY <1>1, <1>2, <1>4 DEF DriveInv, RunningIsDriven
<1>. QED BY <1>1, <1>2, <1>3, <1>5 DEF DriveInv

LEMMA DiesDrive ==
  ASSUME DriveInv, Dies
  PROVE  DriveInv'
<1>1. NoExec \notin Exec
  BY DEF NoExec, Exec
<1>2. exec' \in [Exec -> [run : Run \cup {NoRun}, phase : Phase]]
  BY DEF Dies, DriveInv, Phase
<1>3. \A e \in Exec : exec'[e].phase \notin {"live", "lingering"}
  BY DEF Dies, DriveInv
<1>. QED BY <1>1, <1>2, <1>3 DEF Dies, DriveInv, States, RunningIsDriven

LEMMA DriveStep ==
  ASSUME DriveInv, [Next]_vars
  PROVE  DriveInv'
<1>1. ASSUME NEW k \in Client, NEW r \in Run, StartRun(k, r)
      PROVE  DriveInv'
  BY <1>1, StartDrive
<1>2. ASSUME NEW r \in Run, PauseRun(r) \/ CancelRun(r)
      PROVE  DriveInv'
  BY <1>2, InterruptDrive DEF PauseRun, CancelRun
<1>3. ASSUME NEW e \in Exec, ExecutionEnds(e) \/ ChildCloses(e)
      PROVE  DriveInv'
  BY <1>3, EndDrive, ChildDrive
<1>4. CASE Dies \/ \E k \in Client : SubscribeToLost(k)
  BY <1>4, DiesDrive DEF SubscribeToLost
<1>5. ASSUME UNCHANGED <<record, current, aborted, exec>>
      PROVE  DriveInv'
  BY <1>5 DEF DriveInv, RunningIsDriven
<1>6. ASSUME NEW k \in Client, \/ \E r \in Run : JoinRun(k, r)
                               \/ Subscribe(k) \/ Receive(k) \/ Leave(k)
      PROVE  DriveInv'
  BY <1>5, <1>6 DEF JoinRun, Subscribe, Receive, Leave
<1>7. ASSUME NEW e \in Exec, Progress(e)
      PROVE  DriveInv'
  BY <1>5, <1>7 DEF Progress
<1>8. CASE UNCHANGED vars
  BY <1>5, <1>8 DEF vars
<1>. QED BY <1>1, <1>2, <1>3, <1>4, <1>6, <1>7, <1>8 DEF Next

LEMMA Driven == Spec => []DriveInv
BY InitDrive, DriveStep, PTL DEF Spec

\* A run's record says "running" only while the execution its last start created is
\* at work, unaborted: startRun, pauseRun, cancelRun and every way executeRun may end
\* keep it so, whatever older executions still do and even if the process dies.
THEOREM RunningIsAlwaysDriven == Spec => []RunningIsDriven
<1>1. DriveInv => RunningIsDriven
  BY DEF DriveInv
<1>. QED BY Driven, <1>1, PTL

-----------------------------------------------------------------------------
(* Types                                                                   *)

LEMMA EventsFromFacts ==
  ASSUME NEW r \in Run, NEW n \in Nat \ {0}, NEW types \in Seq(EventType)
  PROVE  /\ EventsFrom(r, n, types) \in Seq(Event)
         /\ Len(EventsFrom(r, n, types)) = Len(types)
         /\ \A i \in 1..Len(types) : EventsFrom(r, n, types)[i] =
               [run |-> r, number |-> n + i - 1, type |-> types[i]]
<1>1. Len(types) \in Nat /\ \A i \in 1..Len(types) : types[i] \in EventType
  BY LenProperties, ElementOfSeq
<1>2. EventsFrom(r, n, types) \in [1..Len(types) -> Event]
  BY <1>1 DEF EventsFrom, Event
<1>3. EventsFrom(r, n, types) \in Seq(Event)
  BY <1>1, <1>2, SeqDef
<1>4. Len(EventsFrom(r, n, types)) = Len(types)
  BY <1>1, <1>2, <1>3, LenProperties
<1>. QED BY <1>3, <1>4 DEF EventsFrom

\* The types of what RunManager emits.
Emitted == {<<>>, <<"started">>, <<"progress">>, <<"paused">>, <<"failed">>, <<"completed">>,
            <<"incident", "failed">>, <<"waiting">>}

LEMMA EmittedFacts ==
  ASSUME NEW types \in Emitted
  PROVE  types \in Seq(EventType) /\ Len(types) \in 0..2
<1>1. ASSUME NEW t \in EventType
      PROVE  <<t>> \in Seq(EventType) /\ Len(<<t>>) = 1
  BY <1>1
<1>2. <<"incident", "failed">> \in Seq(EventType) /\ Len(<<"incident", "failed">>) = 2
  BY DEF EventType
<1>3. types # <<>> /\ types # <<"incident", "failed">> => \E t \in EventType : types = <<t>>
  BY DEF Emitted, EventType
<1>4. <<>> \in Seq(EventType) /\ Len(<<>>) = 0
  BY EmptySeq
<1>5. CASE types = <<>>
  BY <1>4, <1>5
<1>6. CASE types = <<"incident", "failed">>
  BY <1>2, <1>6
<1>7. CASE \E t \in EventType : types = <<t>>
  BY <1>1, <1>7
<1>. QED BY <1>3, <1>5, <1>6, <1>7

\* TypeOK, and that a client that asked for a run or reads one names it.
ClientInv ==
  /\ log \in [Run -> Seq(EventType)]
  /\ client \in [Client -> ClientType]
  /\ \A k \in Client : client[k].phase # "idle" => client[k].run \in Run

LEMMA LogGrows ==
  ASSUME ClientInv, NEW r \in Run, NEW types \in Seq(EventType)
  PROVE  /\ log[r] \o types \in Seq(EventType)
         /\ Len(log[r]) \in Nat /\ Len(types) \in Nat
         /\ Len(log[r] \o types) = Len(log[r]) + Len(types)
         /\ \A i \in 1..Len(log[r]) : (log[r] \o types)[i] = log[r][i]
         /\ \A i \in 1..Len(types) : (log[r] \o types)[Len(log[r]) + i] = types[i]
<1>1. log[r] \in Seq(EventType)
  BY DEF ClientInv
<1>2. Len(log[r]) \in Nat /\ Len(types) \in Nat
  BY <1>1, LenProperties
<1>3. /\ log[r] \o types \in Seq(EventType)
      /\ Len(log[r] \o types) = Len(log[r]) + Len(types)
      /\ \A i \in 1..(Len(log[r]) + Len(types)) : (log[r] \o types)[i] =
            IF i <= Len(log[r]) THEN log[r][i] ELSE types[i - Len(log[r])]
  BY <1>1, ConcatProperties
<1>. QED BY <1>2, <1>3

LEMMA WrittenFacts ==
  ASSUME ClientInv, NEW r \in Run, NEW types \in Seq(EventType)
  PROVE  /\ Written(r, types) \in [Client -> ClientType]
         /\ \A k \in Client : /\ Written(r, types)[k].phase = client[k].phase
                              /\ Written(r, types)[k].run = client[k].run
                              /\ Written(r, types)[k].cursor = client[k].cursor
                              /\ Written(r, types)[k].last = client[k].last
         /\ \A k \in Client :
              Written(r, types)[k].queue =
                IF client[k].phase = "reading" /\ client[k].run = r
                THEN client[k].queue \o EventsFrom(r, Len(log[r]) + 1, types)
                ELSE client[k].queue
<1>1. ASSUME NEW k \in Client
      PROVE  client[k].queue \o EventsFrom(r, Len(log[r]) + 1, types) \in Seq(Event)
  <2>1. Len(log[r]) + 1 \in Nat \ {0}
    BY LogGrows
  <2>2. client[k].queue \in Seq(Event)
    BY DEF ClientInv, ClientType
  <2>. QED BY <2>1, <2>2, EventsFromFacts, ConcatProperties
<1>. QED BY ZenonT(40), <1>1 DEF ClientInv, ClientType, Written

LEMMA EmitType ==
  ASSUME ClientInv, NEW r \in Run, NEW types \in Seq(EventType), Emit(r, types)
  PROVE  ClientInv'
<1>1. log' \in [Run -> Seq(EventType)]
  BY LogGrows DEF Emit, ClientInv
<1>2. client' \in [Client -> ClientType]
  BY WrittenFacts DEF Emit
<1>3. ASSUME NEW k \in Client, client'[k].phase # "idle"
      PROVE  client'[k].run \in Run
  <2>1. client'[k].phase = client[k].phase /\ client'[k].run = client[k].run
    BY WrittenFacts DEF Emit
  <2>. QED BY <1>3, <2>1 DEF ClientInv
<1>. QED BY <1>1, <1>2, <1>3 DEF ClientInv

LEMMA AsksFacts ==
  ASSUME ClientInv, NEW k \in Client, NEW r \in Run
  PROVE  Asks(k, r) \in ClientType /\ Asks(k, r).run = r
BY LogGrows, EmptySeq DEF Asks, ClientType, ClientInv

LEMMA IdleFacts == Idle \in ClientType /\ Idle.phase = "idle"
BY EmptySeq DEF Idle, ClientType

\* Whatever becomes of one client.
LEMMA OneClient ==
  ASSUME ClientInv, NEW k \in Client, NEW new \in ClientType, new.phase # "idle" => new.run \in Run,
         client' = [client EXCEPT ![k] = new], log' = log
  PROVE  ClientInv'
BY DEF ClientInv

LEMMA StartRunType ==
  ASSUME ClientInv, NEW k \in Client, NEW r \in Run, StartRun(k, r)
  PROVE  ClientInv'
<1>1. <<"started">> \in Seq(EventType)
  BY EmittedFacts DEF Emitted
<1>2. log' = [log EXCEPT ![r] = Append(@, "started")] /\
      client' = [Written(r, <<"started">>) EXCEPT ![k] = Asks(k, r)]
  BY DEF StartRun
<1>3. log[r] \in Seq(EventType) /\ "started" \in EventType
  BY DEF ClientInv, EventType
<1>4. log' \in [Run -> Seq(EventType)]
  BY <1>2, <1>3, AppendProperties DEF ClientInv
<1>5. client' \in [Client -> ClientType]
  BY <1>1, <1>2, WrittenFacts, AsksFacts
<1>6. ASSUME NEW j \in Client, client'[j].phase # "idle"
      PROVE  client'[j].run \in Run
  <2>1. Written(r, <<"started">>)[j].phase = client[j].phase
        /\ Written(r, <<"started">>)[j].run = client[j].run
    BY ZenonT(40), <1>1, WrittenFacts
  <2>2. client'[j] = IF j = k THEN Asks(k, r) ELSE Written(r, <<"started">>)[j]
    BY <1>1, <1>2, WrittenFacts
  <2>. QED BY <1>6, <2>1, <2>2, AsksFacts DEF ClientInv
<1>. QED BY <1>4, <1>5, <1>6 DEF ClientInv

LEMMA SubscribeType ==
  ASSUME ClientInv, NEW k \in Client, Subscribe(k)
  PROVE  ClientInv'
<1>. DEFINE r == client[k].run
            c == client[k].cursor
            rest == SubSeq(log[r], c + 1, Len(log[r]))
<1>1. r \in Run /\ c \in Nat /\ client[k] \in ClientType
  BY DEF Subscribe, ClientInv, ClientType
<1>2. log[r] \in Seq(EventType) /\ Len(log[r]) \in Nat
  BY <1>1, LenProperties DEF ClientInv
<1>3. rest \in Seq(EventType)
  <2>1. \A i \in (c + 1)..Len(log[r]) : log[r][i] \in EventType
    BY <1>1, <1>2, ElementOfSeq
  <2>. QED BY <1>1, <1>2, <2>1, SubSeqProperties
<1>4. EventsFrom(r, c + 1, rest) \in Seq(Event)
  <2>1. c + 1 \in Nat \ {0}
    BY <1>1
  <2>. QED BY <1>1, <1>3, <2>1, EventsFromFacts
<1>. DEFINE new == [client[k] EXCEPT !.phase = "reading", !.cursor = 0,
                                     !.queue = EventsFrom(r, c + 1, rest)]
<1>5. client' = [client EXCEPT ![k] = new] /\ log' = log
  BY <1>1 DEF Subscribe, ClientInv
<1>6. new \in ClientType /\ new.run \in Run
  BY <1>1, <1>4 DEF ClientType
<1>. QED BY <1>5, <1>6, OneClient

LEMMA ReceiveType ==
  ASSUME ClientInv, NEW k \in Client, Receive(k)
  PROVE  ClientInv'
<1>. DEFINE queue == client[k].queue
            event == Head(queue)
            new == IF event.type \in Terminal THEN [Idle EXCEPT !.last = event]
                   ELSE [client[k] EXCEPT !.queue = Tail(queue), !.last = event]
<1>1. client[k] \in ClientType /\ client[k].run \in Run /\ queue # <<>>
  BY DEF Receive, ClientInv
<1>2. event \in Event /\ Tail(queue) \in Seq(Event)
  BY <1>1, HeadTailProperties DEF ClientType
<1>3. [Idle EXCEPT !.last = event] \in ClientType /\ [Idle EXCEPT !.last = event].phase = "idle"
  BY <1>2, IdleFacts DEF Idle, ClientType
<1>4. new \in ClientType /\ (new.phase # "idle" => new.run \in Run)
  BY <1>1, <1>2, <1>3 DEF ClientType
<1>5. client' = [client EXCEPT ![k] = new] /\ log' = log
  BY DEF Receive
<1>. QED BY <1>4, <1>5, OneClient

LEMMA DiesType ==
  ASSUME ClientInv, Dies
  PROVE  ClientInv'
BY IdleFacts, EmptySeq DEF Dies, ClientInv

LEMMA ClientStep ==
  ASSUME DriveInv, ClientInv, [Next]_vars
  PROVE  ClientInv'
<1>1. ASSUME NEW k \in Client, NEW r \in Run, JoinRun(k, r) \/ StartRun(k, r)
      PROVE  ClientInv'
  BY <1>1, StartRunType, AsksFacts, OneClient DEF JoinRun
<1>2. ASSUME NEW r \in Run, PauseRun(r) \/ CancelRun(r)
      PROVE  ClientInv'
  <2>1. <<"paused">> \in Seq(EventType) /\ <<"failed">> \in Seq(EventType)
    BY EmittedFacts DEF Emitted
  <2>. QED BY <1>2, <2>1, EmitType DEF PauseRun, CancelRun, Interrupt
<1>3. ASSUME NEW e \in Exec, Progress(e) \/ ExecutionEnds(e) \/ ChildCloses(e)
      PROVE  ClientInv'
  <2>1. <<"progress">> \in Seq(EventType) /\ \A o \in Outcomes : o.events \in Seq(EventType)
    BY EmittedFacts DEF Emitted, Outcomes
  <2>2. CASE Progress(e)
    BY <2>1, <2>2, EmitType DEF Progress, DriveInv
  <2>3. CASE ExecutionEnds(e)
    <3>1. exec[e].run \in Run
      BY <2>3 DEF ExecutionEnds, DriveInv
    <3>2. UNCHANGED <<log, client>> \/ \E o \in Outcomes : Emit(exec[e].run, o.events)
      BY <2>3 DEF ExecutionEnds
    <3>3. CASE UNCHANGED <<log, client>>
      BY <3>3 DEF ClientInv
    <3>. QED BY <2>1, <3>1, <3>2, <3>3, EmitType
  <2>4. CASE ChildCloses(e)
    BY <2>4 DEF ChildCloses, ClientInv
  <2>. QED BY <1>3, <2>2, <2>3, <2>4
<1>4. ASSUME NEW k \in Client, Subscribe(k) \/ Receive(k) \/ Leave(k)
      PROVE  ClientInv'
  BY <1>4, SubscribeType, ReceiveType, IdleFacts, OneClient DEF Leave
<1>5. CASE Dies \/ \E k \in Client : SubscribeToLost(k)
  BY <1>5, DiesType DEF SubscribeToLost
<1>6. CASE UNCHANGED vars
  BY <1>6 DEF vars, ClientInv
<1>. QED BY <1>1, <1>2, <1>3, <1>4, <1>5, <1>6 DEF Next

LEMMA Clients == Spec => []ClientInv
<1>1. Init => ClientInv
  BY IdleFacts, EmptySeq DEF Init, ClientInv
<1>. QED BY Driven, <1>1, ClientStep, PTL DEF Spec

\* Every variable of the runtime keeps its type, for any runs and clients: no record is
\* in a state the backend does not know, and no event names a run that there is not.
THEOREM RuntimeTypeCorrect == Spec => []TypeOK
<1>1. DriveInv /\ ClientInv => TypeOK
  BY DEF DriveInv, ClientInv, TypeOK, States
<1>. QED BY Driven, Clients, <1>1, PTL

-----------------------------------------------------------------------------
(* The end of an execution                                                 *)

Announcing == {"paused", "waiting", "failed", "completed"}

IsLastStart(r, s) ==
  /\ s \in 1..Len(log[r]) /\ log[r][s] = "started"
  /\ \A j \in (s + 1)..Len(log[r]) : log[r][j] # "started"

Told(r, s) == \E i \in s..Len(log[r]) : log[r][i] \in Announcing

\* EndIsAnnounced does not say that an execution whose end will be silent was announced
\* before; that it was is why its end may be: an abort comes with an event of its own.
EndInv ==
  \A r \in Run :
    current[r] # NoExec =>
      \E s \in Nat : /\ IsLastStart(r, s)
                     /\ ~Live(current[r]) \/ current[r] \in aborted => Told(r, s)

LEMMA QuietGrowth ==
  ASSUME ClientInv, NEW r \in Run, NEW types \in Seq(EventType),
         \A i \in 1..Len(types) : types[i] # "started",
         log'[r] = log[r] \o types, NEW s \in Nat, IsLastStart(r, s)
  PROVE  /\ IsLastStart(r, s)'
         /\ Told(r, s) \/ (\E i \in 1..Len(types) : types[i] \in Announcing) => Told(r, s)'
<1>. DEFINE n == Len(log[r])
            m == Len(types)
<1>1. /\ n \in Nat /\ m \in Nat /\ Len(log'[r]) = n + m
      /\ \A i \in 1..n : log'[r][i] = log[r][i]
      /\ \A i \in 1..m : log'[r][n + i] = types[i]
  BY LogGrows
<1>2. s \in 1..n /\ log[r][s] = "started" /\ \A j \in (s + 1)..n : log[r][j] # "started"
  BY DEF IsLastStart
<1>3. \A j \in (s + 1)..(n + m) : log'[r][j] # "started"
  <2>. SUFFICES ASSUME NEW j \in (s + 1)..(n + m) PROVE log'[r][j] # "started"
    OBVIOUS
  <2>1. CASE j <= n
    BY <1>1, <1>2, <2>1
  <2>2. CASE j > n
    <3>1. j - n \in 1..m /\ n + (j - n) = j
      BY <1>1, <1>2, <2>2
    <3>. QED BY <1>1, <3>1
  <2>. QED BY <1>1, <1>2, <2>1, <2>2
<1>4. IsLastStart(r, s)'
  BY <1>1, <1>2, <1>3 DEF IsLastStart
<1>5. ASSUME NEW i \in s..n, log[r][i] \in Announcing
      PROVE  Told(r, s)'
  <2>1. i \in 1..n /\ i \in s..(n + m)
    BY <1>1, <1>2
  <2>. QED BY <1>1, <1>5, <2>1 DEF Told
<1>6. ASSUME NEW i \in 1..m, types[i] \in Announcing
      PROVE  Told(r, s)'
  <2>1. n + i \in s..(n + m)
    BY <1>1, <1>2
  <2>. QED BY <1>1, <1>6, <2>1 DEF Told
<1>. QED BY <1>4, <1>5, <1>6 DEF Told

\* A run whose log, controller and execution are as they were.
LEMMA RunUntouched ==
  ASSUME EndInv, NEW q \in Run, current[q] # NoExec,
         log'[q] = log[q], current'[q] = current[q],
         current[q] \in aborted' => current[q] \in aborted,
         Live(current[q]) => exec'[current[q]].phase = "live"
  PROVE  \E s \in Nat : /\ IsLastStart(q, s)'
                        /\ (~Live(current[q]) \/ current[q] \in aborted)' => Told(q, s)'
<1>1. PICK s \in Nat : /\ IsLastStart(q, s)
                       /\ ~Live(current[q]) \/ current[q] \in aborted => Told(q, s)
  BY DEF EndInv
<1>2. IsLastStart(q, s)' /\ (Told(q, s) => Told(q, s)')
  BY <1>1 DEF IsLastStart, Told
<1>. QED BY <1>1, <1>2 DEF Live

\* A run that is told of its end, or of what does not end it.
LEMMA RunTold ==
  ASSUME EndInv, ClientInv, NEW r \in Run, current[r] # NoExec, NEW types \in Emitted,
         types # <<"started">>, log'[r] = log[r] \o types, current'[r] = current[r],
         \/ \E i \in 1..Len(types) : types[i] \in Announcing
         \/ /\ current[r] \in aborted' => current[r] \in aborted
            /\ Live(current[r]) => exec'[current[r]].phase = "live"
  PROVE  \E s \in Nat : /\ IsLastStart(r, s)'
                        /\ (~Live(current[r]) \/ current[r] \in aborted)' => Told(r, s)'
<1>1. PICK s \in Nat : /\ IsLastStart(r, s)
                       /\ ~Live(current[r]) \/ current[r] \in aborted => Told(r, s)
  BY DEF EndInv
<1>2. types \in Seq(EventType) /\ \A i \in 1..Len(types) : types[i] # "started"
  <2>1. types \in Seq(EventType) /\ Len(types) \in 0..2
    BY EmittedFacts
  <2>2. CASE types = <<>>
    BY <2>1, <2>2
  <2>3. CASE types = <<"incident", "failed">>
    BY <2>1, <2>3
  <2>4. CASE \E t \in EventType \ {"started"} : types = <<t>>
    BY <2>1, <2>4
  <2>. QED BY <2>1, <2>2, <2>3, <2>4 DEF Emitted, EventType
<1>3. IsLastStart(r, s)' /\
      (Told(r, s) \/ (\E i \in 1..Len(types) : types[i] \in Announcing) => Told(r, s)')
  BY <1>1, <1>2, QuietGrowth
<1>. QED BY <1>1, <1>3 DEF Live

LEMMA StartEnd ==
  ASSUME DriveInv, ClientInv, EndInv, NEW k \in Client, NEW r \in Run, StartRun(k, r)
  PROVE  EndInv'
<1>1. PICK e \in Exec : /\ exec[e].phase = "none"
                        /\ exec' = [exec EXCEPT ![e] = [run |-> r, phase |-> "live"]]
                        /\ current' = [current EXCEPT ![r] = e]
  BY DEF StartRun
<1>2. log' = [log EXCEPT ![r] = Append(@, "started")] /\ aborted' = aborted
  BY DEF StartRun
<1>3. exec'[e].phase = "live" /\ current'[r] = e /\ e \notin aborted
  BY <1>1 DEF DriveInv
<1>0. PICK s \in Nat : s = Len(log[r]) + 1
  BY LenProperties DEF ClientInv
<1>4. /\ IsLastStart(r, s)'
      /\ ~(~Live(current[r]) \/ current[r] \in aborted)'
  <2>1. log[r] \in Seq(EventType) /\ "started" \in EventType
    BY DEF ClientInv, EventType
  <2>2. log'[r] = Append(log[r], "started")
    BY <1>2 DEF ClientInv
  <2>3. Len(log[r]) \in Nat /\ Len(log'[r]) = s /\ log'[r][s] = "started"
    BY <1>0, <2>1, <2>2, AppendProperties, LenProperties
  <2>4. IsLastStart(r, s)'
    BY <1>0, <2>3 DEF IsLastStart
  <2>. QED BY <1>2, <1>3, <2>4 DEF Live
<1>5. ASSUME NEW q \in Run \ {r}, current'[q] # NoExec
      PROVE  \E t \in Nat : /\ IsLastStart(q, t)'
                            /\ (~Live(current[q]) \/ current[q] \in aborted)' => Told(q, t)'
  <2>1. current'[q] = current[q] /\ log'[q] = log[q] /\ current[q] # NoExec
    BY <1>1, <1>2, <1>5 DEF DriveInv, ClientInv
  <2>2. current[q] \in Exec /\ current[q] # e
    BY <1>1, <2>1 DEF DriveInv
  <2>3. exec'[current[q]] = exec[current[q]]
    BY <1>1, <2>2 DEF DriveInv
  <2>. QED BY <1>2, <2>1, <2>3, RunUntouched DEF Live
<1>. QED BY <1>4, <1>5 DEF EndInv

LEMMA InterruptEnd ==
  ASSUME DriveInv, ClientInv, EndInv, NEW r \in Run, NEW state, NEW type \in {"paused", "failed"},
         Interrupt(r, state, type)
  PROVE  EndInv'
<1>1. /\ log' = [log EXCEPT ![r] = @ \o <<type>>] /\ aborted' = aborted \cup {current[r]}
      /\ current' = current /\ exec' = exec /\ current[r] \in Exec
  BY DEF Interrupt, Emit, DriveInv
<1>. SUFFICES ASSUME NEW q \in Run, current'[q] # NoExec
              PROVE  \E s \in Nat : /\ IsLastStart(q, s)'
                                    /\ (~Live(current[q]) \/ current[q] \in aborted)'
                                         => Told(q, s)'
  BY DEF EndInv
<1>2. CASE q = r
  <2>1. <<type>> \in Emitted /\ <<type>> # <<"started">> /\ log'[q] = log[q] \o <<type>>
    BY <1>1, <1>2 DEF Emitted, ClientInv
  <2>2. \E i \in 1..Len(<<type>>) : <<type>>[i] \in Announcing
    BY DEF Announcing
  <2>. QED BY <1>1, <2>1, <2>2, RunTold
<1>3. CASE q # r
  <2>1. current[q] \in Exec /\ current[q] # current[r] /\ log'[q] = log[q]
    BY <1>1, <1>3 DEF DriveInv, ClientInv
  <2>. QED BY <1>1, <2>1, RunUntouched DEF Live
<1>. QED BY <1>2, <1>3

LEMMA ProgressEnd ==
  ASSUME DriveInv, ClientInv, EndInv, NEW e \in Exec, Progress(e)
  PROVE  EndInv'
<1>. DEFINE r == exec[e].run
<1>1. /\ log' = [log EXCEPT ![r] = @ \o <<"progress">>] /\ aborted' = aborted
      /\ current' = current /\ exec' = exec /\ r \in Run
  BY DEF Progress, Emit, DriveInv
<1>. SUFFICES ASSUME NEW q \in Run, current'[q] # NoExec
              PROVE  \E s \in Nat : /\ IsLastStart(q, s)'
                                    /\ (~Live(current[q]) \/ current[q] \in aborted)'
                                         => Told(q, s)'
  BY DEF EndInv
<1>2. CASE q = r
  <2>1. <<"progress">> \in Emitted /\ <<"progress">> # <<"started">>
        /\ log'[q] = log[q] \o <<"progress">>
    BY <1>1, <1>2 DEF Emitted, ClientInv
  <2>. QED BY <1>1, <2>1, RunTold DEF Live
<1>3. CASE q # r
  <2>1. log'[q] = log[q]
    BY <1>1, <1>3 DEF ClientInv
  <2>. QED BY <1>1, <2>1, RunUntouched DEF Live
<1>. QED BY <1>2, <1>3

LEMMA ExecutionEndsEnd ==
  ASSUME DriveInv, ClientInv, EndInv, NEW e \in Exec, ExecutionEnds(e)
  PROVE  EndInv'
<1>. DEFINE r == exec[e].run
<1>1. PICK p \in {"lingering", "done"} : exec' = [exec EXCEPT ![e].phase = p]
  BY DEF ExecutionEnds
<1>2. current' = current /\ aborted' = aborted /\ r \in Run
  BY DEF ExecutionEnds, DriveInv
<1>3. \/ log' = log /\ current[r] \in aborted
      \/ \E o \in Outcomes : log' = [log EXCEPT ![r] = @ \o o.events]
  BY DEF ExecutionEnds, Emit, Silenced
<1>. SUFFICES ASSUME NEW q \in Run, current'[q] # NoExec
              PROVE  \E s \in Nat : /\ IsLastStart(q, s)'
                                    /\ (~Live(current[q]) \/ current[q] \in aborted)'
                                         => Told(q, s)'
  BY DEF EndInv
<1>4. CASE q = r /\ log' = log /\ current[r] \in aborted
  <2>1. PICK s \in Nat : /\ IsLastStart(q, s)
                         /\ ~Live(current[q]) \/ current[q] \in aborted => Told(q, s)
    BY <1>2 DEF EndInv
  <2>2. IsLastStart(q, s)' /\ Told(q, s)'
    BY <1>4, <2>1 DEF IsLastStart, Told
  <2>. QED BY <2>2
<1>5. CASE q = r /\ \E o \in Outcomes : log' = [log EXCEPT ![r] = @ \o o.events]
  <2>1. PICK o \in Outcomes : log' = [log EXCEPT ![r] = @ \o o.events]
    BY <1>5
  <2>2. o.events \in Emitted /\ o.events # <<"started">>
    BY DEF Outcomes, Emitted
  <2>3. \E i \in 1..Len(o.events) : o.events[i] \in Announcing
    <3>1. \/ o.events = <<"incident", "failed">>
          \/ \E t \in Announcing : o.events = <<t>>
      BY DEF Outcomes, Announcing
    <3>2. CASE o.events = <<"incident", "failed">>
      <4>1. 2 \in 1..Len(o.events) /\ o.events[2] = "failed"
        BY <3>2
      <4>. QED BY <4>1 DEF Announcing
    <3>3. CASE \E t \in Announcing : o.events = <<t>>
      <4>1. 1 \in 1..Len(o.events) /\ o.events[1] \in Announcing
        BY <3>3
      <4>. QED BY <4>1
    <3>. QED BY <3>1, <3>2, <3>3
  <2>4. log'[q] = log[q] \o o.events
    BY <1>2, <1>5, <2>1 DEF ClientInv
  <2>. QED BY <1>2, <2>2, <2>3, <2>4, RunTold
<1>6. CASE q # r
  <2>1. log'[q] = log[q]
    BY <1>3, <1>6 DEF ClientInv
  <2>2. current[q] \in Exec /\ current[q] # e
    BY <1>2, <1>6 DEF DriveInv
  <2>3. exec'[current[q]] = exec[current[q]]
    BY <1>1, <2>2 DEF DriveInv
  <2>. QED BY <1>2, <2>1, <2>3, RunUntouched DEF Live
<1>. QED BY <1>3, <1>4, <1>5, <1>6

LEMMA QuietEnd ==
  ASSUME DriveInv, EndInv, UNCHANGED <<log, current, aborted>>,
         \A e \in Exec : Live(e) => exec'[e].phase = "live"
  PROVE  EndInv'
<1>. SUFFICES ASSUME NEW q \in Run, current'[q] # NoExec
              PROVE  \E s \in Nat : /\ IsLastStart(q, s)'
                                    /\ (~Live(current[q]) \/ current[q] \in aborted)'
                                         => Told(q, s)'
  BY DEF EndInv
<1>1. current[q] \in Exec
  BY DEF DriveInv
<1>. QED BY <1>1, RunUntouched

LEMMA EndStep ==
  ASSUME DriveInv, ClientInv, EndInv, [Next]_vars
  PROVE  EndInv'
<1>1. ASSUME NEW k \in Client, NEW r \in Run, StartRun(k, r)
      PROVE  EndInv'
  BY <1>1, StartEnd
<1>2. ASSUME NEW r \in Run, PauseRun(r) \/ CancelRun(r)
      PROVE  EndInv'
  BY <1>2, InterruptEnd DEF PauseRun, CancelRun
<1>3. ASSUME NEW e \in Exec, Progress(e) \/ ExecutionEnds(e)
      PROVE  EndInv'
  BY <1>3, ProgressEnd, ExecutionEndsEnd
<1>4. ASSUME NEW e \in Exec, ChildCloses(e)
      PROVE  EndInv'
  <2>1. \A f \in Exec : Live(f) => exec'[f].phase = "live"
    BY <1>4 DEF ChildCloses, Live, DriveInv
  <2>. QED BY <1>4, <2>1, QuietEnd DEF ChildCloses
<1>5. ASSUME NEW k \in Client, \/ \E r \in Run : JoinRun(k, r)
                               \/ Subscribe(k) \/ Receive(k) \/ Leave(k)
      PROVE  EndInv'
  <2>1. UNCHANGED <<log, current, aborted, exec>>
    BY <1>5 DEF JoinRun, Subscribe, Receive, Leave
  <2>. QED BY <2>1, QuietEnd DEF Live
<1>6. CASE Dies \/ \E k \in Client : SubscribeToLost(k)
  BY <1>6 DEF Dies, SubscribeToLost, EndInv
<1>7. CASE UNCHANGED vars
  BY <1>7, QuietEnd DEF vars, Live
<1>. QED BY <1>1, <1>2, <1>3, <1>4, <1>5, <1>6, <1>7 DEF Next

LEMMA LastStartIs ==
  ASSUME NEW r \in Run, NEW s \in Nat, IsLastStart(r, s), Len(log[r]) \in Nat
  PROVE  LastStart(r) = s
<1>. DEFINE P(i) == log[r][i] = "started" /\ \A j \in (i + 1)..Len(log[r]) : log[r][j] # "started"
<1>1. s \in 1..Len(log[r]) /\ P(s)
  BY DEF IsLastStart
<1>2. \A i \in 1..Len(log[r]) : P(i) => i = s
  BY <1>1
<1>3. LastStart(r) = CHOOSE i \in 1..Len(log[r]) : P(i)
  BY DEF LastStart
<1>. HIDE DEF P
<1>. QED BY <1>1, <1>2, <1>3

\* When the newest execution of a run is over, an event after its start says how, for any
\* runs, clients and executions: executeRun ends in silence only after pauseRun or cancelRun
\* aborted the very controller it asks for, and they have emitted their own event then.
THEOREM EndIsAlwaysAnnounced == Spec => []EndIsAnnounced
<1>1. Init => EndInv
  BY DEF Init, EndInv
<1>2. DriveInv /\ ClientInv /\ EndInv /\ [Next]_vars => EndInv'
  BY EndStep
<1>3. DriveInv /\ ClientInv /\ EndInv => EndIsAnnounced
  <2>. SUFFICES ASSUME ClientInv, EndInv, NEW r \in Run, current[r] # NoExec, ~Live(current[r])
                PROVE  \E i \in LastStart(r)..Len(log[r]) : log[r][i] \in Announcing
    BY DEF EndIsAnnounced, Announcing
  <2>1. PICK s \in Nat : IsLastStart(r, s) /\ Told(r, s)
    BY DEF EndInv
  <2>2. Len(log[r]) \in Nat
    BY LenProperties DEF ClientInv
  <2>. QED BY <2>1, <2>2, LastStartIs DEF Told
<1>. QED BY Driven, Clients, <1>1, <1>2, <1>3, PTL DEF Spec

-----------------------------------------------------------------------------
(* The refinement of EventFeed                                             *)

\* queue holds the last events of a log l of run r.
IsEndOf(queue, r, l) ==
  /\ Len(queue) <= Len(l)
  /\ \A i \in 1..Len(queue) :
       queue[i] = [run |-> r, number |-> Len(l) - Len(queue) + i, type |-> l[Len(l) - Len(queue) + i]]

\* A client's stream holds the end of the log it reads, and its cursor lies in the log it
\* asked for.
InStep(c, lg) ==
  /\ c.phase = "asked" => c.cursor <= Len(lg[c.run])
  /\ c.phase = "reading" => IsEndOf(c.queue, c.run, lg[c.run])

FeedInv == \A k \in Client : InStep(client[k], log)

Place(c, lg) ==
  CASE c.phase = "idle"  -> NotReading
    [] c.phase = "asked" -> [run |-> c.run, next |-> c.cursor + 1]
    [] c.phase = "reading" -> [run |-> c.run, next |-> Len(lg[c.run]) + 1 - Len(c.queue)]

LEMMA Places ==
  /\ at = [k \in Client |-> Place(client[k], log)]
  /\ at' = [k \in Client |-> Place(client'[k], log')]
  /\ last = [k \in Client |-> client[k].last]
  /\ last' = [k \in Client |-> client'[k].last]
BY DEF at, last, Place

LEMMA EndGrows ==
  ASSUME NEW r \in Run, NEW l \in Seq(EventType), NEW types \in Seq(EventType),
         NEW queue \in Seq(Event), IsEndOf(queue, r, l)
  PROVE  /\ IsEndOf(queue \o EventsFrom(r, Len(l) + 1, types), r, l \o types)
         /\ Len(l \o types) + 1 - Len(queue \o EventsFrom(r, Len(l) + 1, types))
              = Len(l) + 1 - Len(queue)
<1>n. PICK n \in Nat : n = Len(l)
  BY LenProperties
<1>m. PICK m \in Nat : m = Len(types)
  BY LenProperties
<1>q. PICK q \in Nat : q = Len(queue)
  BY LenProperties
<1>1. PICK new \in Seq(Event) :
        /\ new = EventsFrom(r, n + 1, types) /\ Len(new) = m
        /\ \A i \in 1..m : new[i] = [run |-> r, number |-> n + 1 + i - 1, type |-> types[i]]
  BY <1>m, EventsFromFacts
<1>2. PICK l2 : l2 = l \o types
  OBVIOUS
<1>3. PICK queue2 : queue2 = queue \o new
  OBVIOUS
<1>4. Len(l2) = n + m /\ \A i \in 1..(n + m) : l2[i] = IF i <= n THEN l[i] ELSE types[i - n]
  BY <1>n, <1>m, <1>2, ConcatProperties
<1>5. Len(queue2) = q + m
      /\ \A i \in 1..(q + m) : queue2[i] = IF i <= q THEN queue[i] ELSE new[i - q]
  <2>1. Len(new) = m /\ new \in Seq(Event)
    BY <1>1
  <2>2. /\ Len(queue \o new) = Len(queue) + Len(new)
        /\ \A i \in 1..(Len(queue) + Len(new)) :
             (queue \o new)[i] = IF i <= Len(queue) THEN queue[i] ELSE new[i - Len(queue)]
    BY <2>1, ConcatProperties
  <2>. QED BY <1>q, <1>3, <2>1, <2>2
<1>6. q <= n /\ \A i \in 1..q : queue[i] = [run |-> r, number |-> n - q + i, type |-> l[n - q + i]]
  BY <1>n, <1>q DEF IsEndOf
<1>7. \A i \in 1..m : new[i] = [run |-> r, number |-> n + i, type |-> types[i]]
  BY <1>1
<1>8. \A i \in 1..(q + m) : queue2[i] = [run |-> r, number |-> n - q + i, type |-> l2[n - q + i]]
  <2>. SUFFICES ASSUME NEW i \in 1..(q + m)
                PROVE  queue2[i] = [run |-> r, number |-> n - q + i, type |-> l2[n - q + i]]
    OBVIOUS
  <2>1. CASE i <= q
    <3>1. i \in 1..q /\ n - q + i \in 1..(n + m) /\ n - q + i <= n
      BY <1>6, <2>1
    <3>2. queue2[i] = queue[i]
      BY <1>5, <2>1
    <3>3. l2[n - q + i] = l[n - q + i]
      BY <1>4, <3>1
    <3>4. queue[i] = [run |-> r, number |-> n - q + i, type |-> l[n - q + i]]
      BY <1>6, <3>1
    <3>. QED BY <3>2, <3>3, <3>4
  <2>2. CASE i > q
    <3>1. i - q \in 1..m /\ n + (i - q) = n - q + i /\ n - q + i - n = i - q
          /\ n - q + i \in 1..(n + m) /\ ~(n - q + i <= n)
      BY <1>6, <2>2
    <3>2. new[i - q] = [run |-> r, number |-> n + (i - q), type |-> types[i - q]]
      BY <1>7, <3>1
    <3>3. l2[n - q + i] = types[i - q]
      BY SMTT(30), <1>4, <3>1
    <3>4. queue2[i] = new[i - q]
      BY <1>5, <2>2
    <3>. QED BY <3>1, <3>2, <3>3, <3>4
  <2>. QED BY <2>1, <2>2
<1>9. n + m - (q + m) = n - q /\ q + m <= n + m
  BY <1>6
<1>10. IsEndOf(queue2, r, l2) /\ Len(l2) + 1 - Len(queue2) = n + 1 - q
  BY <1>4, <1>5, <1>8, <1>9 DEF IsEndOf
<1>. QED BY <1>n, <1>q, <1>1, <1>2, <1>3, <1>10

LEMMA StreamGrows ==
  ASSUME ClientInv, FeedInv, NEW r \in Run, NEW types \in Seq(EventType), NEW k \in Client,
         NEW lg, lg = [log EXCEPT ![r] = @ \o types]
  PROVE  /\ InStep(Written(r, types)[k], lg)
         /\ Place(Written(r, types)[k], lg) = Place(client[k], log)
<1>1. PICK c \in ClientType : c = client[k]
  BY DEF ClientInv
<1>2. PICK d : d = Written(r, types)[k]
  OBVIOUS
<1>3. /\ d.phase = c.phase /\ d.run = c.run /\ d.cursor = c.cursor
      /\ d.queue = IF c.phase = "reading" /\ c.run = r
                   THEN c.queue \o EventsFrom(r, Len(log[r]) + 1, types) ELSE c.queue
  BY <1>1, <1>2, WrittenFacts
<1>4. InStep(c, log) /\ (c.phase # "idle" => c.run \in Run)
  BY <1>1 DEF ClientInv, FeedInv
<1>5. lg[r] = log[r] \o types /\ \A x \in Run \ {r} : lg[x] = log[x]
  BY DEF ClientInv
<1>6. InStep(d, lg) /\ Place(d, lg) = Place(c, log)
  <2>1. CASE c.phase = "idle"
    BY <1>3, <2>1 DEF InStep, Place
  <2>2. CASE c.phase = "asked"
    <3>1. log[c.run] \in Seq(EventType) /\ c.cursor \in Nat /\ c.cursor <= Len(log[c.run])
      BY <1>4, <2>2 DEF InStep, ClientInv, ClientType
    <3>2. c.cursor <= Len(lg[c.run])
      <4>1. CASE c.run = r
        <5>1. Len(lg[r]) = Len(log[r]) + Len(types) /\ Len(log[r]) \in Nat /\ Len(types) \in Nat
          BY <1>5, LogGrows
        <5>. QED BY <3>1, <4>1, <5>1
      <4>2. CASE c.run # r
        BY <1>4, <1>5, <2>2, <3>1, <4>2
      <4>. QED BY <4>1, <4>2
    <3>3. InStep(d, lg)
      BY <1>3, <2>2, <3>2 DEF InStep
    <3>. QED BY <1>3, <2>2, <3>3 DEF Place
  <2>3. CASE c.phase = "reading"
    <3>1. /\ log[c.run] \in Seq(EventType) /\ c.queue \in Seq(Event)
          /\ IsEndOf(c.queue, c.run, log[c.run])
      BY <1>4, <2>3 DEF InStep, ClientInv, ClientType
    <3>2. /\ IsEndOf(d.queue, c.run, lg[c.run])
          /\ Len(lg[c.run]) + 1 - Len(d.queue) = Len(log[c.run]) + 1 - Len(c.queue)
      <4>1. CASE c.run = r
        <5>1. /\ d.queue = c.queue \o EventsFrom(r, Len(log[r]) + 1, types)
              /\ lg[r] = log[r] \o types
          BY <1>3, <1>5, <2>3, <4>1
        <5>2. log[r] \in Seq(EventType) /\ IsEndOf(c.queue, r, log[r])
          BY <3>1, <4>1
        <5>3. c.queue \in Seq(Event)
          BY <3>1
        <5>4. /\ IsEndOf(c.queue \o EventsFrom(r, Len(log[r]) + 1, types), r, log[r] \o types)
              /\ Len(log[r] \o types) + 1 - Len(c.queue \o EventsFrom(r, Len(log[r]) + 1, types))
                   = Len(log[r]) + 1 - Len(c.queue)
          BY <5>2, <5>3, EndGrows, Zenon
        <5>. QED BY <4>1, <5>1, <5>4
      <4>2. CASE c.run # r
        BY <1>3, <1>4, <1>5, <2>3, <3>1, <4>2
      <4>. QED BY <4>1, <4>2
    <3>3. InStep(d, lg)
      BY <1>3, <2>3, <3>2 DEF InStep
    <3>. QED BY <1>3, <2>3, <3>2, <3>3 DEF Place
  <2>. QED BY <2>1, <2>2, <2>3 DEF ClientType
<1>. QED BY <1>1, <1>2, <1>6

LEMMA GrowsBy ==
  ASSUME NEW r \in Run, NEW types \in Emitted, log' = [log EXCEPT ![r] = @ \o types]
  PROVE  Feed!Grows(r)
<1>1. types \in [1..Len(types) -> EventType] /\ Len(types) \in 0..2
  BY EmittedFacts, LenProperties
<1>. QED BY <1>1 DEF Feed!Grows

LEMMA EmitFeeds ==
  ASSUME ClientInv, FeedInv, NEW r \in Run, NEW types \in Emitted, Emit(r, types)
  PROVE  FeedInv' /\ Feed!Grow(r)
<1>1. types \in Seq(EventType)
  BY EmittedFacts
<1>2. log' = [log EXCEPT ![r] = @ \o types] /\ client' = Written(r, types)
  BY DEF Emit
<1>3. \A k \in Client : InStep(client'[k], log') /\ Place(client'[k], log') = Place(client[k], log)
  BY <1>1, <1>2, StreamGrows
<1>4. \A k \in Client : client'[k].last = client[k].last
  BY <1>1, <1>2, WrittenFacts
<1>5. at' = at /\ last' = last
  BY <1>3, <1>4, Places
<1>. QED BY <1>2, <1>3, <1>5, GrowsBy DEF FeedInv, Feed!Grow

\* One client moves.
LEMMA OneMoves ==
  ASSUME ClientInv, FeedInv, NEW k \in Client, NEW new, client' = [client EXCEPT ![k] = new],
         log' = log, InStep(new, log)
  PROVE  /\ FeedInv'
         /\ at' = [at EXCEPT ![k] = Place(new, log)]
         /\ last' = [last EXCEPT ![k] = new.last]
<1>1. \A j \in Client : client'[j] = IF j = k THEN new ELSE client[j]
  BY DEF ClientInv
<1>2. FeedInv'
  BY <1>1 DEF FeedInv
<1>3. at' = [j \in Client |-> IF j = k THEN Place(new, log) ELSE Place(client[j], log)]
  <2>1. \A j \in Client : Place(client'[j], log') = IF j = k THEN Place(new, log)
                                                   ELSE Place(client[j], log)
    BY <1>1
  <2>. QED BY <2>1, Places
<1>4. at' = [at EXCEPT ![k] = Place(new, log)]
  BY <1>3, Places
<1>5. last' = [last EXCEPT ![k] = new.last]
  BY <1>1, Places
<1>. QED BY <1>2, <1>4, <1>5

LEMMA IdlePlace == InStep(Idle, log) /\ Place(Idle, log) = NotReading /\ Idle.last = NoEvent
BY DEF InStep, Place, Idle

LEMMA AsksPlace ==
  ASSUME ClientInv, NEW k \in Client, NEW r \in Run, NEW lg
  PROVE  /\ Asks(k, r).last = NoEvent
         /\ Place(Asks(k, r), lg) = [run |-> r, next |-> Len(log[r]) + 1]
         /\ Len(log[r]) <= Len(lg[r]) => InStep(Asks(k, r), lg)
BY DEF Asks, Place, InStep

LEMMA JoinFeeds ==
  ASSUME ClientInv, FeedInv, NEW k \in Client, NEW r \in Run, JoinRun(k, r)
  PROVE  FeedInv' /\ Feed!Attach(k, r)
<1>1. client[k] = Idle /\ client' = [client EXCEPT ![k] = Asks(k, r)] /\ log' = log
  BY DEF JoinRun
<1>2. log[r] \in Seq(EventType) /\ Len(log[r]) \in Nat
  BY LenProperties DEF ClientInv
<1>3. /\ FeedInv'
      /\ at' = [at EXCEPT ![k] = [run |-> r, next |-> Len(log[r]) + 1]]
      /\ last' = [last EXCEPT ![k] = NoEvent]
  <2>1. /\ Asks(k, r).last = NoEvent /\ InStep(Asks(k, r), log)
        /\ Place(Asks(k, r), log) = [run |-> r, next |-> Len(log[r]) + 1]
    BY <1>2, AsksPlace
  <2>2. /\ FeedInv'
        /\ at' = [at EXCEPT ![k] = Place(Asks(k, r), log)]
        /\ last' = [last EXCEPT ![k] = Asks(k, r).last]
    BY <1>1, <2>1, OneMoves
  <2>. QED BY <2>1, <2>2
<1>4. at[k] = NotReading
  BY <1>1, Places, IdlePlace
<1>5. log' = [log EXCEPT ![r] = @ \o <<>>]
  BY <1>1, <1>2, ConcatEmptySeq DEF ClientInv
<1>6. Feed!Grows(r)
  BY <1>5, GrowsBy DEF Emitted
<1>. QED BY <1>3, <1>4, <1>6 DEF Feed!Attach

LEMMA StartFeeds ==
  ASSUME ClientInv, FeedInv, NEW k \in Client, NEW r \in Run, StartRun(k, r)
  PROVE  FeedInv' /\ Feed!Attach(k, r)
<1>1. <<"started">> \in Emitted /\ <<"started">> \in Seq(EventType)
  BY EmittedFacts DEF Emitted
<1>2. log[r] \in Seq(EventType) /\ "started" \in EventType /\ Len(log[r]) \in Nat
  BY LenProperties DEF ClientInv, EventType
<1>3. Append(log[r], "started") = log[r] \o <<"started">>
  BY <1>2, AppendIsConcat
<1>4. /\ client[k] = Idle /\ log' = [log EXCEPT ![r] = @ \o <<"started">>]
      /\ client' = [Written(r, <<"started">>) EXCEPT ![k] = Asks(k, r)]
  BY <1>3 DEF StartRun
<1>5. \A j \in Client : client'[j] = IF j = k THEN Asks(k, r) ELSE Written(r, <<"started">>)[j]
  BY <1>1, <1>4, WrittenFacts
<1>6. \A j \in Client : /\ InStep(Written(r, <<"started">>)[j], log')
                        /\ Place(Written(r, <<"started">>)[j], log') = Place(client[j], log)
                        /\ Written(r, <<"started">>)[j].last = client[j].last
  <2>. SUFFICES ASSUME NEW j \in Client
                PROVE  /\ InStep(Written(r, <<"started">>)[j], log')
                       /\ Place(Written(r, <<"started">>)[j], log') = Place(client[j], log)
                       /\ Written(r, <<"started">>)[j].last = client[j].last
    OBVIOUS
  <2>1. Written(r, <<"started">>)[j].last = client[j].last
    BY ZenonT(40), <1>1, WrittenFacts
  <2>2. log' = [log EXCEPT ![r] = @ \o <<"started">>]
    BY <1>4
  <2>. QED BY <1>1, <2>1, <2>2, StreamGrows
<1>7. Len(log'[r]) = Len(log[r]) + 1
  <2>1. log'[r] = Append(log[r], "started")
    BY <1>3, <1>4 DEF ClientInv
  <2>. QED BY <1>2, <2>1, AppendProperties
<1>8. /\ InStep(Asks(k, r), log') /\ Asks(k, r).last = NoEvent
      /\ Place(Asks(k, r), log') = [run |-> r, next |-> Len(log[r]) + 1]
  BY <1>2, <1>7, AsksPlace
<1>9. FeedInv'
  BY <1>5, <1>6, <1>8 DEF FeedInv
<1>10. /\ at' = [at EXCEPT ![k] = [run |-> r, next |-> Len(log[r]) + 1]]
       /\ last' = [last EXCEPT ![k] = NoEvent]
  BY <1>5, <1>6, <1>8, Places
<1>11. at[k] = NotReading
  BY <1>4, Places, IdlePlace
<1>. QED BY <1>1, <1>4, <1>9, <1>10, <1>11, GrowsBy DEF Feed!Attach

LEMMA SubscribeFeeds ==
  ASSUME ClientInv, FeedInv, NEW k \in Client, Subscribe(k)
  PROVE  FeedInv' /\ UNCHANGED <<log, at, last>>
<1>1. PICK c \in ClientType : c = client[k]
  BY DEF ClientInv
<1>2. c.phase = "asked" /\ c.run \in Run /\ c.cursor \in Nat /\ c.cursor <= Len(log[c.run])
  BY <1>1 DEF Subscribe, ClientInv, ClientType, FeedInv, InStep
<1>3. PICK l \in Seq(EventType) : l = log[c.run]
  BY <1>2 DEF ClientInv
<1>4. PICK n \in Nat : n = Len(l)
  BY LenProperties
<1>5. PICK rest : rest = SubSeq(l, c.cursor + 1, n)
  OBVIOUS
<1>6. /\ rest \in Seq(EventType) /\ Len(rest) = n - c.cursor
      /\ \A i \in 1..(n - c.cursor) : rest[i] = l[c.cursor + i]
  <2>1. \A i \in (c.cursor + 1)..n : l[i] \in EventType
    BY <1>2, <1>4, ElementOfSeq
  <2>2. c.cursor + 1 \in Int /\ n \in Int /\ c.cursor <= n
    BY <1>2, <1>3, <1>4
  <2>3. /\ rest \in Seq(EventType)
        /\ Len(rest) = IF c.cursor + 1 <= n THEN n - (c.cursor + 1) + 1 ELSE 0
        /\ \A i \in 1..(n - (c.cursor + 1) + 1) : rest[i] = l[c.cursor + 1 + i - 1]
    BY SMTT(30), <1>5, <2>1, <2>2, SubSeqProperties
  <2>4. Len(rest) = n - c.cursor
    BY <1>2, <2>2, <2>3
  <2>5. ASSUME NEW i \in 1..(n - c.cursor)
        PROVE  rest[i] = l[c.cursor + i]
    <3>1. i \in 1..(n - (c.cursor + 1) + 1) /\ c.cursor + 1 + i - 1 = c.cursor + i
      BY <1>2
    <3>. QED BY <2>3, <3>1
  <2>. QED BY <2>3, <2>4, <2>5
<1>7. PICK queue : queue = EventsFrom(c.run, c.cursor + 1, rest)
  OBVIOUS
<1>8. /\ Len(queue) = n - c.cursor
      /\ \A i \in 1..(n - c.cursor) :
           queue[i] = [run |-> c.run, number |-> c.cursor + 1 + i - 1, type |-> rest[i]]
  <2>1. c.cursor + 1 \in Nat \ {0}
    BY <1>2
  <2>. QED BY SMTT(30), <1>2, <1>6, <1>7, <2>1, EventsFromFacts
<1>9. IsEndOf(queue, c.run, l)
  <2>1. n - (n - c.cursor) = c.cursor /\ n - c.cursor <= n
    BY <1>2
  <2>2. ASSUME NEW i \in 1..(n - c.cursor)
        PROVE  queue[i] = [run |-> c.run, number |-> c.cursor + i, type |-> l[c.cursor + i]]
    <3>1. c.cursor + 1 + i - 1 = c.cursor + i
      BY <1>2
    <3>. QED BY <1>6, <1>8, <3>1
  <2>. QED BY <1>4, <1>8, <2>1, <2>2 DEF IsEndOf
<1>10. PICK new : new = [c EXCEPT !.phase = "reading", !.cursor = 0, !.queue = queue]
  OBVIOUS
<1>11. client' = [client EXCEPT ![k] = new] /\ log' = log
  BY <1>1, <1>3, <1>4, <1>5, <1>7, <1>10 DEF Subscribe, ClientInv
<1>12. /\ new.phase = "reading" /\ new.run = c.run /\ new.queue = queue /\ new.last = c.last
  BY <1>10 DEF ClientType
<1>13. InStep(new, log)
  BY <1>3, <1>9, <1>12 DEF InStep
<1>14. Place(new, log) = Place(c, log)
  <2>1. Place(new, log) = [run |-> c.run, next |-> n + 1 - (n - c.cursor)]
    BY <1>3, <1>4, <1>8, <1>12 DEF Place
  <2>2. Place(c, log) = [run |-> c.run, next |-> c.cursor + 1]
    BY <1>2 DEF Place
  <2>. QED BY <1>2, <2>1, <2>2
<1>15. /\ FeedInv'
       /\ at' = [at EXCEPT ![k] = Place(new, log)]
       /\ last' = [last EXCEPT ![k] = new.last]
  BY <1>11, <1>13, OneMoves
<1>16. at[k] = Place(c, log) /\ last[k] = c.last
  BY <1>1, Places
<1>17. at' = at /\ last' = last
  <2>1. at = [j \in Client |-> at[j]] /\ last = [j \in Client |-> last[j]]
    BY Places
  <2>2. at' = [at EXCEPT ![k] = at[k]] /\ last' = [last EXCEPT ![k] = last[k]]
    BY <1>12, <1>14, <1>15, <1>16
  <2>. QED BY <2>1, <2>2
<1>. QED BY <1>11, <1>15, <1>17

LEMMA ReceiveFeeds ==
  ASSUME ClientInv, FeedInv, NEW k \in Client, Receive(k)
  PROVE  FeedInv' /\ Feed!Deliver(k)
<1>1. PICK c \in ClientType : c = client[k]
  BY DEF ClientInv
<1>2. c.phase = "reading" /\ c.run \in Run /\ c.queue # <<>> /\ c.queue \in Seq(Event)
  BY <1>1 DEF Receive, ClientInv, ClientType
<1>3. PICK l \in Seq(EventType) : l = log[c.run]
  BY <1>2 DEF ClientInv
<1>4. PICK n \in Nat : n = Len(l)
  BY LenProperties
<1>5. PICK q \in Nat : q = Len(c.queue) /\ q > 0
  BY <1>2, EmptySeq
<1>6. /\ q <= n
      /\ \A i \in 1..q : c.queue[i] = [run |-> c.run, number |-> n - q + i, type |-> l[n - q + i]]
  <2>1. IsEndOf(c.queue, c.run, l)
    BY <1>1, <1>2, <1>3 DEF FeedInv, InStep
  <2>. QED BY <1>4, <1>5, <2>1 DEF IsEndOf
<1>7. PICK event : event = Head(c.queue)
  OBVIOUS
<1>8. event = [run |-> c.run, number |-> n + 1 - q, type |-> l[n + 1 - q]]
  <2>1. event = c.queue[1]
    BY <1>2, <1>7
  <2>2. 1 \in 1..q /\ n - q + 1 = n + 1 - q
    BY <1>5
  <2>. QED BY <1>6, <2>1, <2>2
<1>9. PICK rest \in Seq(Event) : /\ rest = Tail(c.queue) /\ Len(rest) = q - 1
                                 /\ \A i \in 1..(q - 1) : rest[i] = c.queue[i + 1]
  <2>1. /\ Tail(c.queue) \in Seq(Event) /\ Len(Tail(c.queue)) = Len(c.queue) - 1
        /\ \A i \in 1..Len(Tail(c.queue)) : Tail(c.queue)[i] = c.queue[i + 1]
    BY <1>2, HeadTailProperties
  <2>. QED BY <1>5, <2>1
<1>10. at[k] = [run |-> c.run, next |-> n + 1 - q] /\ at[k] # NotReading
  <2>1. Place(c, log) = [run |-> c.run, next |-> n + 1 - q]
    BY <1>2, <1>3, <1>4, <1>5 DEF Place
  <2>2. at[k] = Place(c, log)
    BY <1>1, Places
  <2>. QED BY <1>2, <2>1, <2>2, NoRunAssumption DEF NotReading
<1>11. n + 1 - q <= Len(log[c.run]) /\ event = [run |-> c.run, number |-> n + 1 - q,
                                               type |-> log[c.run][n + 1 - q]]
  BY <1>3, <1>4, <1>5, <1>6, <1>8
<1>12. CASE event.type \in Terminal
  <2>1. PICK new : new = [Idle EXCEPT !.last = event]
    OBVIOUS
  <2>2. client' = [client EXCEPT ![k] = new] /\ log' = log
    BY <1>1, <1>7, <1>12, <2>1 DEF Receive
  <2>3. new.phase = "idle" /\ new.last = event
    BY <2>1 DEF Idle
  <2>4. InStep(new, log) /\ Place(new, log) = NotReading
    BY <2>3 DEF InStep, Place
  <2>5. /\ FeedInv' /\ at' = [at EXCEPT ![k] = NotReading] /\ last' = [last EXCEPT ![k] = event]
    BY <2>2, <2>3, <2>4, OneMoves
  <2>. QED BY <1>10, <1>11, <2>2, <2>5 DEF Feed!Deliver
<1>13. CASE event.type \notin Terminal
  <2>1. PICK new : new = [c EXCEPT !.queue = rest, !.last = event]
    OBVIOUS
  <2>2. client' = [client EXCEPT ![k] = new] /\ log' = log
    BY <1>1, <1>7, <1>9, <1>13, <2>1 DEF Receive
  <2>3. new.phase = "reading" /\ new.last = event /\ new.queue = rest /\ new.run = c.run
    BY <1>2, <2>1 DEF ClientType
  <2>4. IsEndOf(rest, c.run, l)
    <3>1. n - (q - 1) = n - q + 1 /\ q - 1 <= n
      BY <1>6
    <3>2. ASSUME NEW i \in 1..(q - 1)
          PROVE  rest[i] = [run |-> c.run, number |-> n - (q - 1) + i, type |-> l[n - (q - 1) + i]]
      <4>1. i + 1 \in 1..q /\ n - q + (i + 1) = n - (q - 1) + i
        BY <1>5
      <4>. QED BY <1>6, <1>9, <4>1
    <3>. QED BY <1>4, <1>9, <3>1, <3>2 DEF IsEndOf
  <2>5. InStep(new, log)
    BY <1>3, <2>3, <2>4 DEF InStep
  <2>6. Place(new, log) = [run |-> c.run, next |-> n + 1 - q + 1]
    <3>1. n + 1 - (q - 1) = n + 1 - q + 1
      OBVIOUS
    <3>. QED BY <1>3, <1>4, <1>9, <2>3, <3>1 DEF Place
  <2>7. /\ FeedInv' /\ at' = [at EXCEPT ![k] = Place(new, log)]
        /\ last' = [last EXCEPT ![k] = new.last]
    BY <2>2, <2>5, OneMoves
  <2>8. [at[k] EXCEPT !.next = n + 1 - q + 1] = Place(new, log)
    BY <1>10, <2>6
  <2>9. at' = [at EXCEPT ![k].next = n + 1 - q + 1] /\ last' = [last EXCEPT ![k] = event]
    BY <2>3, <2>7, <2>8
  <2>10. at[k].run = c.run /\ at[k].next = n + 1 - q
    BY <1>10
  <2>11. at' = [at EXCEPT ![k].next = at[k].next + 1]
    BY <2>9, <2>10
  <2>12. last' = [last EXCEPT ![k] = [run |-> at[k].run, number |-> at[k].next,
                                      type |-> log[at[k].run][at[k].next]]]
    BY <1>11, <2>9, <2>10
  <2>13. at[k].next <= Len(log[at[k].run])
    BY <1>11, <2>10
  <2>. QED BY <1>10, <2>2, <2>7, <2>11, <2>12, <2>13 DEF Feed!Deliver
<1>. QED BY <1>12, <1>13

LEMMA LeaveFeeds ==
  ASSUME ClientInv, FeedInv, NEW k \in Client, Leave(k)
  PROVE  FeedInv' /\ Feed!Detach(k)
<1>1. client' = [client EXCEPT ![k] = Idle] /\ log' = log
  BY DEF Leave
<1>2. /\ FeedInv' /\ at' = [at EXCEPT ![k] = NotReading] /\ last' = [last EXCEPT ![k] = NoEvent]
  BY <1>1, IdlePlace, OneMoves
<1>. QED BY <1>1, <1>2 DEF Feed!Detach

LEMMA FeedStep ==
  ASSUME ~MayRestart, DriveInv, ClientInv, FeedInv, [Next]_vars
  PROVE  FeedInv' /\ [Feed!Next]_<<log, at, last>>
<1>1. ASSUME NEW k \in Client, NEW r \in Run, JoinRun(k, r) \/ StartRun(k, r)
      PROVE  FeedInv' /\ Feed!Next
  BY <1>1, JoinFeeds, StartFeeds DEF Feed!Next
<1>2. ASSUME NEW r \in Run, PauseRun(r) \/ CancelRun(r)
      PROVE  FeedInv' /\ Feed!Next
  <2>1. <<"paused">> \in Emitted /\ <<"failed">> \in Emitted
    BY DEF Emitted
  <2>. QED BY <1>2, <2>1, EmitFeeds DEF PauseRun, CancelRun, Interrupt, Feed!Next
<1>3. ASSUME UNCHANGED <<log, client>>
      PROVE  FeedInv' /\ UNCHANGED <<log, at, last>>
  BY <1>3, Places DEF FeedInv
<1>4. ASSUME NEW e \in Exec, Progress(e)
      PROVE  FeedInv' /\ Feed!Next
  <2>1. exec[e].run \in Run /\ <<"progress">> \in Emitted /\ Emit(exec[e].run, <<"progress">>)
    BY <1>4 DEF Progress, DriveInv, Emitted
  <2>. QED BY <2>1, EmitFeeds DEF Feed!Next
<1>5. ASSUME NEW e \in Exec, ExecutionEnds(e)
      PROVE  FeedInv' /\ [Feed!Next]_<<log, at, last>>
  <2>1. exec[e].run \in Run /\ \A o \in Outcomes : o.events \in Emitted
    BY <1>5 DEF ExecutionEnds, DriveInv, Emitted, Outcomes
  <2>2. UNCHANGED <<log, client>> \/ \E o \in Outcomes : Emit(exec[e].run, o.events)
    BY <1>5 DEF ExecutionEnds
  <2>. QED BY <1>3, <2>1, <2>2, EmitFeeds DEF Feed!Next
<1>6. ASSUME NEW e \in Exec, ChildCloses(e)
      PROVE  FeedInv' /\ UNCHANGED <<log, at, last>>
  BY <1>3, <1>6 DEF ChildCloses
<1>7. ASSUME NEW k \in Client, Subscribe(k)
      PROVE  FeedInv' /\ UNCHANGED <<log, at, last>>
  BY <1>7, SubscribeFeeds
<1>8. ASSUME NEW k \in Client, Receive(k) \/ Leave(k)
      PROVE  FeedInv' /\ Feed!Next
  BY <1>8, ReceiveFeeds, LeaveFeeds DEF Feed!Next
<1>9. ~Dies /\ \A k \in Client : ~SubscribeToLost(k)
  BY DEF Dies, SubscribeToLost
<1>10. CASE UNCHANGED vars
  BY <1>3, <1>10 DEF vars
<1>. QED BY <1>1, <1>2, <1>4, <1>5, <1>6, <1>7, <1>8, <1>9, <1>10 DEF Next

\* While the runtime's process lives its event handler implements EventFeed, for any runs,
\* clients and bounds: a backend call that starts a run, or joins one, is given every event
\* from the cursor the start told it on, once and in order, although it subscribes later and
\* the replay and the subscription are taken from two places.
THEOREM RuntimeImplementsFeed ==
  ASSUME ~MayRestart
  PROVE  Spec => ImplementsEventFeed
<1>1. Init => FeedInv /\ Feed!Init
  <2>. SUFFICES ASSUME Init PROVE FeedInv /\ Feed!Init
    OBVIOUS
  <2>1. \A k \in Client : client[k] = Idle
    BY DEF Init
  <2>2. FeedInv
    BY <2>1, IdlePlace DEF FeedInv
  <2>3. at = [k \in Client |-> NotReading] /\ last = [k \in Client |-> NoEvent]
    BY <2>1, IdlePlace, Places
  <2>. QED BY <2>2, <2>3 DEF Init, Feed!Init
<1>2. DriveInv /\ ClientInv /\ FeedInv /\ [Next]_vars
        => FeedInv' /\ [Feed!Next]_<<log, at, last>>
  BY FeedStep
<1>. QED BY Driven, Clients, <1>1, <1>2, PTL DEF Spec, ImplementsEventFeed, Feed!Spec
=============================================================================
