--------------------------- MODULE ControlLockProofs ---------------------------
(***************************************************************************)
(* Theorems about ControlLock with the local store, for any actors,        *)
(* requests, priorities and times.                                         *)
(***************************************************************************)
EXTENDS ControlLock, TLAPS

MaybeLock == Lock \cup {NoLock}

\* What a request carries where it stands.
Sound(r) ==
  \/ r = Idle
  \/ /\ r.at # "idle"
     /\ r.op \in {"acquire", "release", "input", "heartbeat"}
     /\ r.op # "heartbeat" => r.by \in Actor
     /\ r.op = "heartbeat" => r.stage = "route" /\ r.at \in {"get", "clear", "copy", "paste"}
     /\ r.op = "acquire" => r.priority \in Priority /\ r.ttl \in Ttl
     /\ r.at = "send" => r.op = "input"
     /\ r.at = "write" => r.stage = "manager"
     /\ r.at = "write" /\ r.op \in {"acquire", "input"} => r.new \in Lock /\ r.new.holder = r.by
     /\ r.at \in {"get", "clear", "send"} \/ r.op = "release" => r.new = NoLock

\* What it may rely on there, because nobody interrupts it.
Entitled(r) ==
  /\ r.at = "write" /\ r.op = "acquire" =>
       \A a \in Actor : Live(granted[a]) => a = r.by \/ granted[a].priority < r.new.priority
  /\ r.at = "write" /\ r.op = "input" => \A a \in Actor : Live(granted[a]) => a = r.by
  /\ r.at = "write" /\ r.op = "release" => \A a \in Actor : ~Live(granted[a])
  /\ r.at \in {"get", "clear"} /\ r.op = "release" => granted[r.by] = NoLock
  /\ r.at = "clear" => ~Live(lock)
  /\ r.at = "paste" => r.seen = lock

\* The inductive invariant behind GrantIsLock and OneController.
LockInv ==
  /\ TypeOK
  /\ \A s, t \in Slot : s # t => request[s].at \in {"idle", "send"} \/ request[t].at \in {"idle", "send"}
  /\ \A s \in Slot : Sound(request[s]) /\ Entitled(request[s])
  /\ \A a \in Actor : granted[a] # NoLock => granted[a].holder = a
  /\ GrantIsLock

LEMMA NoLockIsNoLock == NoLock \notin Lock
BY SentinelAssumption

LEMMA LockFields ==
  ASSUME NEW l \in Lock
  PROVE  l.holder \in Actor /\ l.expires \in Nat /\ l.priority \in Priority
BY DEF Lock

LEMMA IdleSound == Idle \in Request /\ Sound(Idle) /\ Idle.at = "idle"
BY DEF Idle, Request, Sound

\* Behind get_session a request is sound again.
LEMMA RoutedSound ==
  ASSUME NEW r \in Request, Sound(r), r.at \in {"get", "clear"}, r.stage = "route",
         NEW l \in MaybeLock
  PROVE  Routed(r, l) \in Request /\ Sound(Routed(r, l))
         /\ Routed(r, l).at \in {"idle", "get", "send", "copy"}
         /\ (Routed(r, l).at = "get" => Routed(r, l).by = r.by /\ Routed(r, l).op = r.op)
<1>1. r # Idle
  BY DEF Idle
<1>2. /\ r.op \in {"acquire", "release", "input", "heartbeat"}
      /\ r.op # "heartbeat" => r.by \in Actor
      /\ r.op = "acquire" => r.priority \in Priority /\ r.ttl \in Ttl
      /\ r.new = NoLock
  BY <1>1 DEF Sound
<1>3. CASE r.op \in {"acquire", "release"}
  <2>1. Routed(r, l) = [r EXCEPT !.at = "get", !.stage = "manager"]
    BY <1>3 DEF Routed
  <2> QED BY <1>2, <1>3, <2>1 DEF Sound, Request
<1>4. CASE r.op = "input"
  <2>1. Routed(r, l) = Idle \/ Routed(r, l) = [r EXCEPT !.at = "send"]
    BY <1>4 DEF Routed
  <2>2. CASE Routed(r, l) = [r EXCEPT !.at = "send"]
    BY <1>2, <1>4, <2>2 DEF Sound, Request
  <2> QED BY <2>1, <2>2, IdleSound
<1>5. CASE r.op = "heartbeat"
  <2>1. Routed(r, l) = [r EXCEPT !.at = "copy"]
    BY <1>5 DEF Routed
  <2> QED BY <1>2, <1>5, <2>1 DEF Sound, Request
<1> QED BY <1>2, <1>3, <1>4, <1>5

\* Behind the manager's get_session a request may write only what its actor was granted
\* or may be: nobody else is told of control that the write would take.
LEMMA ManagedSound ==
  ASSUME LockInv, NEW s \in Slot, request[s].at \in {"get", "clear"}, request[s].stage = "manager",
         NEW l \in MaybeLock, \A a \in Actor : Live(granted[a]) => l = granted[a]
  PROVE  LET q == Behind(request[s], l)
         IN /\ q \in Request /\ Sound(q) /\ Entitled(q)
            /\ q.at \in {"idle", "write", "resume"}
<1> DEFINE r == request[s]
<1> DEFINE q == Behind(r, l)
<1>1. /\ r \in Request /\ Sound(r) /\ Entitled(r) /\ now \in Nat
      /\ granted \in [Actor -> MaybeLock]
      /\ \A a \in Actor : granted[a] # NoLock => granted[a].holder = a
  BY DEF LockInv, TypeOK, MaybeLock, RunState
<1>2. r # Idle
  BY DEF Idle
<1>3. /\ r.op \in {"acquire", "release", "input"}
      /\ r.by \in Actor /\ r.new = NoLock
      /\ r.op = "acquire" => r.priority \in Priority /\ r.ttl \in Ttl
  BY <1>1, <1>2 DEF Sound
<1>4. /\ r.priority \in Nat /\ r.ttl \in Nat /\ TouchTtl \in Nat
  BY <1>1, TimeAssumption DEF Request
<1>5. \A a \in Actor : Live(granted[a]) => l # NoLock /\ l.holder = a /\ granted[a] = l
  BY <1>1 DEF Live
<1>6. CASE r.op = "acquire"
  <2>1. q = Acquires(r, l)
    BY <1>6 DEF Behind
  <2>2. CASE l = NoLock \/ l.holder = r.by \/ l.priority < r.priority
    <3> DEFINE p == IF l # NoLock /\ l.holder = r.by /\ l.priority > r.priority
                    THEN l.priority ELSE r.priority
    <3> DEFINE n == [holder |-> r.by, expires |-> now + r.ttl, priority |-> p]
    <3>1. q = [r EXCEPT !.at = "write", !.new = n]
      BY <2>1, <2>2 DEF Acquires
    <3>2. p \in Priority /\ (l # NoLock => l \in Lock)
      BY <1>3, <1>6, LockFields DEF MaybeLock
    <3>3. n \in Lock
      BY <1>1, <1>3, <1>4, <3>2, PriorityAssumption DEF Lock
    <3>4. q \in Request
      BY <1>1, <3>1, <3>3 DEF Request
    <3>5. /\ q.at = "write" /\ q.op = "acquire" /\ q.new = n /\ q.by = r.by
          /\ q.priority = r.priority /\ q.ttl = r.ttl /\ q.stage = "manager"
      BY <1>1, <1>6, <3>1 DEF Request
    <3>6. Sound(q)
      BY <1>3, <1>6, <3>3, <3>5 DEF Sound
    <3>7. \A a \in Actor : Live(granted[a]) => a = r.by \/ granted[a].priority < n.priority
      BY <1>5, <2>2, <1>4
    <3>8. Entitled(q)
      BY <3>5, <3>7 DEF Entitled
    <3> QED BY <3>4, <3>5, <3>6, <3>8
  <2>3. CASE ~(l = NoLock \/ l.holder = r.by \/ l.priority < r.priority)
    BY <2>1, <2>3, IdleSound DEF Acquires, Entitled
  <2> QED BY <2>2, <2>3
<1>7. CASE r.op = "release"
  <2>1. q = Releases(r, l)
    BY <1>7 DEF Behind
  <2>2. granted[r.by] = NoLock
    BY <1>1, <1>7 DEF Entitled
  <2>3. CASE l # NoLock /\ l.holder = r.by
    <3>1. q = [r EXCEPT !.at = "write"]
      BY <2>1, <2>3 DEF Releases
    <3>2. \A a \in Actor : ~Live(granted[a])
      BY <1>5, <2>2, <2>3 DEF Live
    <3>3. q \in Request /\ q.at = "write" /\ q.op = "release" /\ q.by = r.by
          /\ q.new = NoLock /\ q.stage = "manager"
      BY <1>1, <1>3, <1>7, <3>1 DEF Request
    <3> QED BY <1>3, <3>2, <3>3 DEF Sound, Entitled
  <2>4. CASE ~(l # NoLock /\ l.holder = r.by)
    <3>1. q = [r EXCEPT !.at = "resume"]
      BY <2>1, <2>4 DEF Releases
    <3>2. q \in Request /\ q.at = "resume" /\ q.op = "release" /\ q.by = r.by /\ q.new = NoLock
      BY <1>1, <1>3, <1>7, <3>1 DEF Request
    <3> QED BY <1>3, <3>2 DEF Sound, Entitled
  <2> QED BY <2>3, <2>4
<1>8. CASE r.op = "input"
  <2>1. q = Touches(r, l)
    BY <1>8 DEF Behind
  <2>2. CASE l # NoLock /\ l.holder = r.by
    <3> DEFINE n == [l EXCEPT !.expires = now + TouchTtl]
    <3>1. q = [r EXCEPT !.at = "write", !.new = n]
      BY <2>1, <2>2 DEF Touches
    <3>2. n \in Lock /\ n.holder = r.by
      BY <1>1, <1>4, <2>2 DEF Lock, MaybeLock
    <3>3. q \in Request
      BY <1>1, <3>1, <3>2 DEF Request
    <3>4. /\ q.at = "write" /\ q.op = "input" /\ q.new = n /\ q.by = r.by /\ q.stage = "manager"
      BY <1>1, <1>8, <3>1 DEF Request
    <3>5. Sound(q)
      BY <1>3, <3>2, <3>4 DEF Sound
    <3>6. Entitled(q)
      BY <1>5, <2>2, <3>4 DEF Entitled
    <3> QED BY <3>3, <3>4, <3>5, <3>6
  <2>3. CASE ~(l # NoLock /\ l.holder = r.by)
    BY <2>1, <2>3, IdleSound DEF Touches, Entitled
  <2> QED BY <2>2, <2>3
<1> QED BY <1>3, <1>6, <1>7, <1>8

\* Where nobody interrupts a request, only what the one that moves leaves behind matters.
LEMMA OneMoves ==
  ASSUME LockInv, LocalStore, NEW s \in Slot, Turn(s),
         NEW q \in Request, request' = [request EXCEPT ![s] = q], Sound(q), Entitled(q)',
         now' \in 0..MaxTime, lock' \in MaybeLock, run' \in RunState,
         granted' \in [Actor -> MaybeLock],
         \A a \in Actor : granted'[a] # NoLock => granted'[a].holder = a,
         GrantIsLock'
  PROVE  LockInv'
<1>1. request \in [Slot -> Request]
  BY DEF LockInv, TypeOK
<1>2. \A t \in Slot \ {s} : request[t].at \in {"idle", "send"}
  BY DEF Turn
<1>3. request'[s] = q /\ \A t \in Slot \ {s} : request'[t] = request[t]
  BY <1>1
<1>4. TypeOK'
  BY <1>1 DEF TypeOK, MaybeLock
<1>5. \A t, u \in Slot : t # u => request'[t].at \in {"idle", "send"} \/ request'[u].at \in {"idle", "send"}
  BY <1>2, <1>3
<1>6. \A t \in Slot : Sound(request'[t])
  BY <1>3 DEF LockInv
<1>7. Entitled(request[s])'
  BY <1>3 DEF Entitled
<1>8. ASSUME NEW t \in Slot \ {s} PROVE Entitled(request[t])'
  BY <1>2, <1>3 DEF Entitled
<1>9. \A t \in Slot : Sound(request[t])' /\ Entitled(request[t])'
  BY <1>6, <1>7, <1>8 DEF Sound
<1> QED BY <1>4, <1>5, <1>9 DEF LockInv

\* A request that leaves the clock, the lock and the grants alone.
LEMMA OneMovesQuietly ==
  ASSUME LockInv, LocalStore, NEW s \in Slot, Turn(s),
         NEW q \in Request, request' = [request EXCEPT ![s] = q], Sound(q), Entitled(q),
         run' \in RunState, UNCHANGED <<now, lock, granted>>
  PROVE  LockInv'
<1>1. Entitled(q)' /\ GrantIsLock'
  BY DEF Entitled, LockInv, GrantIsLock, Live
<1>2. /\ now' \in 0..MaxTime /\ lock' \in MaybeLock /\ granted' \in [Actor -> MaybeLock]
      /\ \A a \in Actor : granted'[a] # NoLock => granted'[a].holder = a
  BY DEF LockInv, TypeOK, MaybeLock
<1> QED BY <1>1, <1>2, OneMoves

LEMMA IdleEntitled == Entitled(Idle)
BY DEF Entitled, Idle

LEMMA BehindIsSound ==
  ASSUME LockInv, NEW s \in Slot, request[s].at \in {"get", "clear"},
         NEW l \in MaybeLock, \A a \in Actor : Live(granted[a]) => l = granted[a]
  PROVE  LET q == Behind(request[s], l)
         IN /\ q \in Request /\ Sound(q) /\ Entitled(q)
            /\ q.at \notin {"clear", "paste"}
<1>1. request[s] \in Request /\ Sound(request[s]) /\ Entitled(request[s])
  BY DEF LockInv, TypeOK
<1>2. CASE request[s].stage = "route"
  <2> DEFINE q == Routed(request[s], l)
  <2>1. Behind(request[s], l) = q
    BY <1>2 DEF Behind
  <2>2. /\ q \in Request /\ Sound(q) /\ q.at \in {"idle", "get", "send", "copy"}
        /\ q.at = "get" => q.by = request[s].by /\ q.op = request[s].op
    BY <1>1, <1>2, RoutedSound
  <2>3. Entitled(q)
    BY <1>1, <2>2 DEF Entitled
  <2> QED BY <2>1, <2>2, <2>3
<1>3. CASE request[s].stage = "manager"
  BY <1>3, ManagedSound
<1> QED BY <1>1, <1>2, <1>3 DEF Request

LEMMA BeginSound ==
  ASSUME LockInv, LocalStore, NEW s \in Slot,
         NEW op \in {"acquire", "release", "input", "heartbeat"}, NEW a \in Actor \cup {NoActor},
         NEW priority \in Nat, NEW ttl \in Nat,
         op # "heartbeat" => a \in Actor,
         op = "acquire" => priority \in Priority /\ ttl \in Ttl,
         Begin(s, op, a, priority, ttl),
         granted' = IF op = "release" THEN [granted EXCEPT ![a] = NoLock] ELSE granted
  PROVE  LockInv'
<1> DEFINE q == [Idle EXCEPT !.at = "get", !.op = op, !.by = a, !.priority = priority, !.ttl = ttl]
<1>1. Turn(s) /\ request' = [request EXCEPT ![s] = q] /\ UNCHANGED <<now, lock, run>>
  BY DEF Begin
<1>2. q \in Request /\ Sound(q)
  BY DEF Idle, Request, Sound
<1>3. q.at = "get" /\ q.op = op /\ q.by = a
  BY DEF Idle
<1>4. /\ now \in 0..MaxTime /\ lock \in MaybeLock /\ run \in RunState
      /\ granted \in [Actor -> MaybeLock]
      /\ \A b \in Actor : granted[b] # NoLock => granted[b].holder = b
      /\ GrantIsLock
  BY DEF LockInv, TypeOK, MaybeLock
<1>5. /\ granted' \in [Actor -> MaybeLock]
      /\ \A b \in Actor : granted'[b] = granted[b] \/ granted'[b] = NoLock
      /\ op = "release" => granted'[a] = NoLock
  BY <1>4 DEF MaybeLock
<1>6. Entitled(q)'
  BY <1>3, <1>5 DEF Entitled
<1>7. GrantIsLock'
  BY <1>1, <1>4, <1>5 DEF GrantIsLock, Live
<1>8. \A b \in Actor : granted'[b] # NoLock => granted'[b].holder = b
  BY <1>4, <1>5
<1> QED BY <1>1, <1>2, <1>4, <1>5, <1>6, <1>7, <1>8, OneMoves

LEMMA LockInit == Init => LockInv
<1> SUFFICES ASSUME Init PROVE LockInv
  OBVIOUS
<1>1. \A s \in Slot : request[s] = Idle
  BY DEF Init
<1>2. request \in [Slot -> Request]
  BY <1>1, IdleSound DEF Init
<1>3. TypeOK
  BY <1>2, TimeAssumption DEF Init, TypeOK, RunState
<1>4. \A s \in Slot : Sound(request[s]) /\ Entitled(request[s])
  BY <1>1, IdleSound, IdleEntitled
<1>5. GrantIsLock /\ \A a \in Actor : granted[a] = NoLock
  BY DEF Init, GrantIsLock, Live
<1> QED BY <1>1, <1>3, <1>4, <1>5, IdleSound DEF LockInv

LEMMA LockRequests ==
  ASSUME LockInv, LocalStore, NEW s \in Slot,
         (\E a \in Actor : AcquireControl(s, a) \/ ReleaseControl(s, a) \/ SendInput(s, a)) \/ Heartbeat(s)
  PROVE  LockInv'
<1>1. ASSUME NEW a \in Actor, AcquireControl(s, a) PROVE LockInv'
  <2>1. PICK priority \in Priority, ttl \in Ttl : Begin(s, "acquire", a, priority, ttl)
    BY <1>1 DEF AcquireControl
  <2>2. priority \in Nat /\ ttl \in Nat
    BY PriorityAssumption, TimeAssumption
  <2>3. granted' = granted
    BY <1>1 DEF AcquireControl
  <2> QED BY <2>1, <2>2, <2>3, BeginSound
<1>2. ASSUME NEW a \in Actor, ReleaseControl(s, a) PROVE LockInv'
  <2>1. Begin(s, "release", a, 0, 0) /\ granted' = [granted EXCEPT ![a] = NoLock]
    BY <1>2 DEF ReleaseControl
  <2> QED BY <2>1, BeginSound
<1>3. ASSUME NEW a \in Actor, SendInput(s, a) PROVE LockInv'
  <2>1. Begin(s, "input", a, 0, 0) /\ granted' = granted
    BY <1>3 DEF SendInput
  <2> QED BY <2>1, BeginSound
<1>4. ASSUME Heartbeat(s) PROVE LockInv'
  <2>1. Begin(s, "heartbeat", NoActor, 0, 0) /\ granted' = granted
    BY <1>4 DEF Heartbeat
  <2> QED BY <2>1, BeginSound
<1> QED BY <1>1, <1>2, <1>3, <1>4

LEMMA LockProceeds ==
  ASSUME LockInv, LocalStore, NEW s \in Slot, Proceed(s)
  PROVE  LockInv'
<1> DEFINE r == request[s]
<1>1. /\ r \in Request /\ Sound(r) /\ Entitled(r)
      /\ now \in 0..MaxTime /\ now \in Nat /\ lock \in MaybeLock /\ run \in RunState
      /\ request \in [Slot -> Request]
      /\ granted \in [Actor -> MaybeLock]
      /\ \A a \in Actor : granted[a] # NoLock => granted[a].holder = a
      /\ \A a \in Actor : Live(granted[a]) => lock = granted[a]
  BY DEF LockInv, TypeOK, MaybeLock, GrantIsLock
<1>2. ASSUME NEW at \in {"get", "clear", "write", "copy", "paste", "takeover", "resume", "send"}, r.at = at
      PROVE  /\ r.op \in {"acquire", "release", "input", "heartbeat"}
             /\ r.op # "heartbeat" => r.by \in Actor
             /\ r.op = "heartbeat" => r.stage = "route" /\ r.at \in {"get", "clear", "copy", "paste"}
             /\ r.op = "acquire" => r.priority \in Priority /\ r.ttl \in Ttl
             /\ r.at = "write" /\ r.op \in {"acquire", "input"} => r.new \in Lock /\ r.new.holder = r.by
             /\ r.at \in {"get", "clear", "send"} \/ r.op = "release" => r.new = NoLock
  BY <1>1, <1>2, IdleSound DEF Sound
<1>3. NoLock \in MaybeLock
  BY DEF MaybeLock
<1>4. CASE GetSession(s)
  <2>1. r.at = "get" /\ Turn(s) /\ UNCHANGED <<now, lock, run, granted>>
    BY <1>4 DEF GetSession
  <2>2. CASE lock = NoLock \/ Live(lock)
    <3> DEFINE q == Behind(r, lock)
    <3>1. request' = [request EXCEPT ![s] = q]
      BY <1>1, <1>4, <2>2 DEF GetSession
    <3>2. q \in Request /\ Sound(q) /\ Entitled(q)
      BY <1>1, <2>1, BehindIsSound
    <3> HIDE DEF q
    <3> QED BY <1>1, <2>1, <3>1, <3>2, OneMovesQuietly
  <2>3. CASE ~(lock = NoLock \/ Live(lock))
    <3> DEFINE q == [r EXCEPT !.at = "clear"]
    <3>1. request' = [request EXCEPT ![s] = q]
      BY <1>1, <1>4, <2>3 DEF GetSession
    <3>2. /\ q \in Request /\ q.at = "clear" /\ q.op = r.op /\ q.by = r.by /\ q.new = r.new
          /\ q.stage = r.stage /\ q.priority = r.priority /\ q.ttl = r.ttl
      BY <1>1 DEF Request
    <3>3. Sound(q)
      BY <1>2, <2>1, <3>2 DEF Sound
    <3>4. Entitled(q)
      BY <1>1, <2>1, <2>3, <3>2 DEF Entitled
    <3> HIDE DEF q
    <3> QED BY <1>1, <2>1, <3>1, <3>2, <3>3, <3>4, OneMovesQuietly
  <2> QED BY <2>2, <2>3
<1>5. CASE NormalizeLock(s)
  <2>0. PICK q : q = Behind(r, NoLock)
    OBVIOUS
  <2>1. r.at = "clear" /\ Turn(s) /\ lock' = NoLock /\ UNCHANGED <<now, run, granted>>
        /\ request' = [request EXCEPT ![s] = q]
    BY <1>1, <1>5, <2>0 DEF NormalizeLock
  <2>2. \A a \in Actor : ~Live(granted[a])
    BY <1>1, <2>1 DEF Entitled
  <2>3. q \in Request /\ Sound(q) /\ Entitled(q) /\ q.at \notin {"clear", "paste"}
    BY <1>1, <1>3, <2>0, <2>1, <2>2, BehindIsSound
  <2>4. Entitled(q)'
    BY <2>1, <2>3 DEF Entitled, Live
  <2>5. GrantIsLock'
    BY <2>1, <2>2 DEF GrantIsLock, Live
  <2> QED BY <1>1, <1>3, <2>1, <2>3, <2>4, <2>5, OneMoves
<1>6. CASE UpdateSession(s)
  <2>1. r.at = "write" /\ Turn(s) /\ lock' = r.new /\ UNCHANGED <<now, run>>
    BY <1>6 DEF UpdateSession
  <2>2. CASE r.op = "release"
    <3>0. PICK q : q = [r EXCEPT !.at = "resume"]
      OBVIOUS
    <3>1. request' = [request EXCEPT ![s] = q] /\ granted' = granted /\ lock' = NoLock
      BY <1>1, <1>2, <1>6, <3>0, <2>1, <2>2 DEF UpdateSession
    <3>2. q \in Request /\ Sound(q) /\ q.at = "resume"
      BY <1>1, <1>2, <2>1, <2>2, <3>0 DEF Request, Sound
    <3>3. Entitled(q)'
      BY <3>2 DEF Entitled
    <3>4. GrantIsLock'
      BY <1>1, <2>1, <2>2, <3>1 DEF Entitled, GrantIsLock, Live
    <3> QED BY <1>1, <1>3, <2>1, <3>1, <3>2, <3>3, <3>4, OneMoves
  <2>3. CASE r.op \in {"acquire", "input"}
    <3>0. PICK q : q = IF r.op = "acquire" THEN [r EXCEPT !.at = "takeover"] ELSE Idle
      OBVIOUS
    <3>1. request' = [request EXCEPT ![s] = q] /\ granted' = Told(r.new)
      BY <1>1, <1>6, <2>3, <3>0 DEF UpdateSession
    <3>2. q \in Request /\ Sound(q) /\ q.at \in {"takeover", "idle"}
      BY <1>1, <1>2, <2>1, <2>3, <3>0, IdleSound DEF Request, Sound
    <3>3. Entitled(q)'
      BY <3>2 DEF Entitled
    <3>4. r.new \in Lock /\ r.new.holder = r.by
      BY <1>2, <2>1, <2>3
    <3>5. granted' \in [Actor -> MaybeLock]
          /\ \A a \in Actor : granted'[a] # NoLock => granted'[a].holder = a
      BY <1>1, <3>1, <3>4 DEF Told, MaybeLock
    <3>6. ASSUME NEW a \in Actor, Live(granted'[a]) PROVE granted'[a] = r.new
      <4>1. CASE a = r.by
        BY <3>1, <3>4, <4>1 DEF Told
      <4>2. CASE a # r.by
        <5>1. granted'[a] = IF granted[a] # NoLock /\ granted[a].priority < r.new.priority
                            THEN NoLock ELSE granted[a]
          BY <3>1, <3>4, <4>2 DEF Told
        <5>2. granted'[a] = granted[a] /\ Live(granted[a])
          BY <3>6, <5>1 DEF Live
        <5>3. granted[a] # NoLock /\ granted[a].priority < r.new.priority
          BY <1>1, <2>1, <2>3, <4>2, <5>2 DEF Entitled, Live
        <5> QED BY <3>6, <5>1, <5>3 DEF Live
      <4> QED BY <4>1, <4>2
    <3>7. GrantIsLock'
      BY <2>1, <3>6 DEF GrantIsLock, Live
    <3>8. lock' \in MaybeLock
      BY <2>1, <3>4 DEF MaybeLock
    <3> QED BY <1>1, <2>1, <3>1, <3>2, <3>3, <3>5, <3>7, <3>8, OneMoves
  <2> QED BY <1>2, <2>1, <2>2, <2>3
<1>7. CASE CopyRow(s)
  <2> DEFINE q == [r EXCEPT !.at = "paste", !.seen = lock]
  <2>1. r.at = "copy" /\ Turn(s) /\ UNCHANGED <<now, lock, run, granted>>
        /\ request' = [request EXCEPT ![s] = q]
    BY <1>1, <1>7 DEF CopyRow
  <2>2. /\ q \in Request /\ q.at = "paste" /\ q.seen = lock /\ q.op = r.op /\ q.by = r.by
        /\ q.new = r.new /\ q.stage = r.stage /\ q.priority = r.priority /\ q.ttl = r.ttl
    BY <1>1 DEF Request, MaybeLock
  <2>3. Sound(q) /\ Entitled(q)
    BY <1>2, <2>1, <2>2, IdleSound DEF Sound, Entitled
  <2> HIDE DEF q
  <2> QED BY <1>1, <2>1, <2>2, <2>3, OneMovesQuietly
<1>8. CASE PasteRow(s)
  <2>1. r.at = "paste" /\ Turn(s) /\ lock' = r.seen /\ UNCHANGED <<now, run, granted>>
        /\ request' = [request EXCEPT ![s] = Idle]
    BY <1>8 DEF PasteRow
  <2>2. lock' = lock
    BY <1>1, <2>1 DEF Entitled
  <2> QED BY <1>1, <2>1, <2>2, IdleSound, IdleEntitled, OneMovesQuietly
<1>9. CASE TakeOver(s) \/ ResumeRun(s)
  <2>1. Turn(s) /\ UNCHANGED <<now, lock, granted>> /\ request' = [request EXCEPT ![s] = Idle]
        /\ run' \in RunState
    BY <1>1, <1>9 DEF TakeOver, ResumeRun, RunState
  <2> QED BY <2>1, IdleSound, IdleEntitled, OneMovesQuietly
<1>10. CASE InputSent(s)
  <2>1. r.at = "send" /\ Turn(s) /\ UNCHANGED <<now, lock, run, granted>>
    BY <1>10 DEF InputSent
  <2>2. CASE request' = [request EXCEPT ![s] = Idle]
    BY <1>1, <2>1, <2>2, IdleSound, IdleEntitled, OneMovesQuietly
  <2>3. CASE request' = [request EXCEPT ![s].at = "get", ![s].stage = "manager"]
    <3> DEFINE q == [r EXCEPT !.at = "get", !.stage = "manager"]
    <3>1. request' = [request EXCEPT ![s] = q]
      BY <1>1, <2>3
    <3>2. /\ q \in Request /\ q.at = "get" /\ q.op = r.op /\ q.by = r.by
          /\ q.new = r.new /\ q.stage = "manager" /\ q.priority = r.priority /\ q.ttl = r.ttl
      BY <1>1 DEF Request
    <3>3. r.op = "input"
      BY <1>1, <2>1, IdleSound DEF Sound
    <3>4. Sound(q) /\ Entitled(q)
      BY <1>2, <2>1, <3>2, <3>3 DEF Sound, Entitled
    <3> HIDE DEF q
    <3> QED BY <1>1, <2>1, <3>1, <3>2, <3>4, OneMovesQuietly
  <2> QED BY <1>10, <2>2, <2>3 DEF InputSent
<1> QED BY <1>4, <1>5, <1>6, <1>7, <1>8, <1>9, <1>10 DEF Proceed

\* As time passes grants expire; none comes back.
LEMMA LockTicks ==
  ASSUME LockInv, Tick
  PROVE  LockInv'
<1>1. now' = now + 1 /\ now < MaxTime /\ UNCHANGED <<lock, run, request, granted>>
  BY DEF Tick
<1>2. TypeOK
  BY DEF LockInv
<1>3. ASSUME NEW l \in MaybeLock, Live(l)' PROVE Live(l)
  <2>1. l \in Lock /\ l.expires > now'
    BY <1>3 DEF Live, MaybeLock
  <2>2. l.expires \in Nat /\ now \in Nat
    BY <1>2, <2>1, LockFields DEF TypeOK
  <2> QED BY <1>1, <2>1, <2>2, NoLockIsNoLock DEF Live
<1>4. \A a \in Actor : Live(granted[a])' => Live(granted[a])
  BY <1>1, <1>2, <1>3 DEF TypeOK, MaybeLock, Live
<1>5. Live(lock)' => Live(lock)
  BY <1>1, <1>2, <1>3 DEF TypeOK, MaybeLock, Live
<1>6. TypeOK'
  BY <1>1, <1>2, TimeAssumption DEF TypeOK
<1>7. ASSUME NEW s \in Slot PROVE Sound(request[s])' /\ Entitled(request[s])'
  <2>1. Sound(request[s]) /\ Entitled(request[s]) /\ request'[s] = request[s]
    BY <1>1 DEF LockInv
  <2>2. Sound(request[s])'
    BY <2>1 DEF Sound
  <2>3. Entitled(request[s])'
    BY <1>1, <1>4, <1>5, <2>1 DEF Entitled
  <2> QED BY <2>2, <2>3
<1>8. GrantIsLock'
  BY <1>1, <1>4 DEF LockInv, GrantIsLock
<1> QED BY <1>1, <1>6, <1>7, <1>8 DEF LockInv

LEMMA LockUndisturbed ==
  ASSUME LockInv, run' \in RunState, UNCHANGED <<now, lock, request, granted>>
  PROVE  LockInv'
<1>1. TypeOK' /\ GrantIsLock'
  BY DEF LockInv, TypeOK, GrantIsLock, Live
<1>2. \A s \in Slot : Sound(request[s])' /\ Entitled(request[s])'
  BY DEF LockInv, Sound, Entitled, Live
<1> QED BY <1>1, <1>2 DEF LockInv

LEMMA LockStep ==
  ASSUME LockInv, LocalStore, [Next]_vars
  PROVE  LockInv'
<1>1. run \in RunState
  BY DEF LockInv, TypeOK
<1>2. CASE \E s \in Slot : \/ \E a \in Actor : AcquireControl(s, a) \/ ReleaseControl(s, a) \/ SendInput(s, a)
                          \/ Heartbeat(s)
                          \/ Proceed(s)
  BY <1>2, LockRequests, LockProceeds
<1>3. CASE RunMoves
  BY <1>1, <1>3, LockUndisturbed DEF RunMoves, RunState
<1>4. CASE Tick
  BY <1>4, LockTicks
<1>5. CASE UNCHANGED vars
  BY <1>1, <1>5, LockUndisturbed DEF vars
<1> QED BY <1>2, <1>3, <1>4, <1>5 DEF Next

\* With the local store nothing interrupts a request between reading the row and writing
\* it, so what an actor was told of its control stays in the row until it expires, is
\* released or is outranked: no acquire_control, touch_control, heartbeat or expiry check
\* takes it away.
THEOREM LocalGrantIsLock ==
  ASSUME LocalStore
  PROVE  Spec => []GrantIsLock
<1>1. LockInv /\ [Next]_vars => LockInv'
  BY LockStep
<1>2. LockInv => GrantIsLock
  BY DEF LockInv
<1> QED BY LockInit, <1>1, <1>2, PTL DEF Spec

\* With the local store no two actors are told that they control the session: two live
\* grants would both be the row's lock, which names one holder.
THEOREM LocalOneController ==
  ASSUME LocalStore
  PROVE  Spec => []OneController
<1>1. LockInv /\ [Next]_vars => LockInv'
  BY LockStep
<1>2. ASSUME LockInv PROVE OneController
  <2>1. \A a \in Actor : Live(granted[a]) => lock = granted[a] /\ granted[a].holder = a
    BY <1>2 DEF LockInv, GrantIsLock, Live
  <2> QED BY <2>1 DEF OneController
<1> QED BY LockInit, <1>1, <1>2, PTL DEF Spec
-----------------------------------------------------------------------------
(* Types, with either store.  What LockInv says of what nobody interrupts  *)
(* does not hold with Firestore; what a request carries does.              *)

LockTyped == TypeOK /\ \A s \in Slot : Sound(request[s])

LEMMA BehindIsTyped ==
  ASSUME NEW r \in Request, Sound(r), r.at \in {"get", "clear"}, NEW l \in MaybeLock, now \in Nat
  PROVE  LET q == Behind(r, l) IN q \in Request /\ Sound(q)
<1> DEFINE q == Behind(r, l)
<1> SUFFICES q \in Request /\ Sound(q)
  OBVIOUS
<1>1. CASE r.stage = "route"
  <2>1. q = Routed(r, l)
    BY <1>1 DEF Behind
  <2> QED BY <1>1, <2>1, RoutedSound
<1>2. CASE r.stage = "manager"
  <2>1. r # Idle
    BY DEF Idle
  <2>2. /\ r.op \in {"acquire", "release", "input"}
        /\ r.by \in Actor /\ r.new = NoLock
        /\ r.op = "acquire" => r.priority \in Priority /\ r.ttl \in Ttl
    BY <1>2, <2>1 DEF Sound
  <2>3. r.priority \in Nat /\ r.ttl \in Nat /\ TouchTtl \in Nat
    BY TimeAssumption DEF Request
  <2>4. CASE r.op = "acquire"
    <3>1. q = Acquires(r, l)
      BY <1>2, <2>4 DEF Behind
    <3>2. CASE l = NoLock \/ l.holder = r.by \/ l.priority < r.priority
      <4> DEFINE p == IF l # NoLock /\ l.holder = r.by /\ l.priority > r.priority
                      THEN l.priority ELSE r.priority
                 n == [holder |-> r.by, expires |-> now + r.ttl, priority |-> p]
      <4>1. q = [r EXCEPT !.at = "write", !.new = n]
        BY <3>1, <3>2 DEF Acquires
      <4>2. p \in Priority
        BY <2>2, <2>4, LockFields DEF MaybeLock
      <4>3. n \in Lock
        BY <2>2, <2>3, <4>2 DEF Lock
      <4>4. q \in Request
        BY <4>1, <4>3 DEF Request
      <4>5. /\ q.at = "write" /\ q.op = "acquire" /\ q.new = n /\ q.by = r.by
            /\ q.priority = r.priority /\ q.ttl = r.ttl /\ q.stage = "manager"
        BY <1>2, <2>4, <4>1 DEF Request
      <4>6. Sound(q)
        BY <2>2, <2>4, <4>3, <4>5 DEF Sound
      <4> QED BY <4>4, <4>6
    <3>3. CASE ~(l = NoLock \/ l.holder = r.by \/ l.priority < r.priority)
      BY <3>1, <3>3, IdleSound DEF Acquires
    <3> QED BY <3>2, <3>3
  <2>5. CASE r.op = "release"
    <3>1. q = Releases(r, l)
      BY <1>2, <2>5 DEF Behind
    <3>2. PICK at \in {"write", "resume"} : q = [r EXCEPT !.at = at]
      BY <3>1 DEF Releases
    <3>3. q \in Request /\ q.at = at /\ q.op = "release" /\ q.by = r.by /\ q.new = NoLock
          /\ q.stage = "manager"
      BY <1>2, <2>2, <2>5, <3>2 DEF Request
    <3> QED BY <2>2, <3>3 DEF Sound
  <2>6. CASE r.op = "input"
    <3>1. q = Touches(r, l)
      BY <1>2, <2>6 DEF Behind
    <3>2. CASE l # NoLock /\ l.holder = r.by
      <4> DEFINE n == [l EXCEPT !.expires = now + TouchTtl]
      <4>1. q = [r EXCEPT !.at = "write", !.new = n]
        BY <3>1, <3>2 DEF Touches
      <4>2. n \in Lock /\ n.holder = r.by
        BY <2>3, <3>2 DEF Lock, MaybeLock
      <4>3. q \in Request
        BY <4>1, <4>2 DEF Request
      <4>4. /\ q.at = "write" /\ q.op = "input" /\ q.new = n /\ q.by = r.by /\ q.stage = "manager"
        BY <1>2, <2>6, <4>1 DEF Request
      <4>5. Sound(q)
        BY <2>2, <4>2, <4>4 DEF Sound
      <4> QED BY <4>3, <4>5
    <3>3. CASE ~(l # NoLock /\ l.holder = r.by)
      BY <3>1, <3>3, IdleSound DEF Touches
    <3> QED BY <3>2, <3>3
  <2> QED BY <2>2, <2>4, <2>5, <2>6
<1> QED BY <1>1, <1>2 DEF Request

\* One request moves; the others carry what they carried.
LEMMA OneMovesTyped ==
  ASSUME LockTyped, NEW s \in Slot, NEW q \in Request, request' = [request EXCEPT ![s] = q],
         Sound(q), now' \in 0..MaxTime, lock' \in MaybeLock, run' \in RunState,
         granted' \in [Actor -> MaybeLock]
  PROVE  LockTyped'
<1>1. request \in [Slot -> Request]
  BY DEF LockTyped, TypeOK
<1>2. request'[s] = q /\ \A t \in Slot \ {s} : request'[t] = request[t]
  BY <1>1
<1>3. TypeOK'
  BY <1>1 DEF TypeOK, MaybeLock
<1>4. \A t \in Slot : Sound(request[t])'
  BY <1>2 DEF LockTyped, Sound
<1> QED BY <1>3, <1>4 DEF LockTyped

LEMMA RequestsAreTyped ==
  ASSUME LockTyped, NEW s \in Slot,
         (\E a \in Actor : AcquireControl(s, a) \/ ReleaseControl(s, a) \/ SendInput(s, a)) \/ Heartbeat(s)
  PROVE  LockTyped'
<1>1. /\ now \in 0..MaxTime /\ lock \in MaybeLock /\ run \in RunState
      /\ granted \in [Actor -> MaybeLock]
  BY DEF LockTyped, TypeOK, MaybeLock
<1>2. ASSUME NEW op \in {"acquire", "release", "input", "heartbeat"}, NEW a \in Actor \cup {NoActor},
             NEW priority \in Nat, NEW ttl \in Nat, Begin(s, op, a, priority, ttl),
             op # "heartbeat" => a \in Actor,
             op = "acquire" => priority \in Priority /\ ttl \in Ttl,
             granted' \in [Actor -> MaybeLock]
      PROVE  LockTyped'
  <2> DEFINE q == [Idle EXCEPT !.at = "get", !.op = op, !.by = a, !.priority = priority, !.ttl = ttl]
  <2>1. request' = [request EXCEPT ![s] = q] /\ UNCHANGED <<now, lock, run>>
    BY <1>2 DEF Begin
  <2>2. q \in Request /\ Sound(q)
    BY <1>2 DEF Idle, Request, Sound
  <2> HIDE DEF q
  <2> QED BY <1>1, <1>2, <2>1, <2>2, OneMovesTyped
<1>3. ASSUME NEW a \in Actor, AcquireControl(s, a)
      PROVE  LockTyped'
  <2>1. PICK priority \in Priority, ttl \in Ttl : Begin(s, "acquire", a, priority, ttl)
    BY <1>3 DEF AcquireControl
  <2>2. priority \in Nat /\ ttl \in Nat
    BY PriorityAssumption, TimeAssumption
  <2>3. granted' = granted
    BY <1>3 DEF AcquireControl
  <2> QED BY <1>1, <1>2, <2>1, <2>2, <2>3
<1>4. ASSUME NEW a \in Actor, ReleaseControl(s, a)
      PROVE  LockTyped'
  <2>1. Begin(s, "release", a, 0, 0) /\ granted' \in [Actor -> MaybeLock]
    BY <1>1, <1>4 DEF ReleaseControl, MaybeLock
  <2> QED BY <1>2, <2>1
<1>5. ASSUME NEW a \in Actor, SendInput(s, a)
      PROVE  LockTyped'
  <2>1. Begin(s, "input", a, 0, 0) /\ granted' = granted
    BY <1>5 DEF SendInput
  <2> QED BY <1>1, <1>2, <2>1
<1>6. CASE Heartbeat(s)
  <2>1. Begin(s, "heartbeat", NoActor, 0, 0) /\ granted' = granted
    BY <1>6 DEF Heartbeat
  <2> QED BY <1>1, <1>2, <2>1
<1> QED BY <1>3, <1>4, <1>5, <1>6

LEMMA ProceedsTyped ==
  ASSUME LockTyped, NEW s \in Slot, Proceed(s)
  PROVE  LockTyped'
<1>0. PICK r : r = request[s]
  OBVIOUS
<1>1. /\ r \in Request /\ Sound(r)
      /\ now \in 0..MaxTime /\ now \in Nat /\ lock \in MaybeLock /\ run \in RunState
      /\ request \in [Slot -> Request]
      /\ granted \in [Actor -> MaybeLock]
      /\ NoLock \in MaybeLock
  BY <1>0 DEF LockTyped, TypeOK, MaybeLock
<1>2. ASSUME NEW q \in Request, Sound(q), request' = [request EXCEPT ![s] = q],
             lock' \in MaybeLock, run' \in RunState, now' = now, granted' \in [Actor -> MaybeLock]
      PROVE  LockTyped'
  BY <1>1, <1>2, OneMovesTyped
<1>3. ASSUME request' = [request EXCEPT ![s] = Idle],
             lock' \in MaybeLock, run' \in RunState, now' = now, granted' \in [Actor -> MaybeLock]
      PROVE  LockTyped'
  BY <1>2, <1>3, IdleSound
<1>4. CASE GetSession(s)
  <2>1. r.at = "get" /\ UNCHANGED <<now, lock, run, granted>>
    BY <1>0, <1>4 DEF GetSession
  <2>2. CASE lock = NoLock \/ Live(lock)
    <3>1. PICK q : q = Behind(r, lock)
      OBVIOUS
    <3>2. request' = [request EXCEPT ![s] = q]
      BY <1>0, <1>1, <1>4, <2>2, <3>1 DEF GetSession
    <3>3. q \in Request /\ Sound(q)
      BY <1>1, <2>1, <3>1, BehindIsTyped
    <3> QED BY <1>1, <1>2, <2>1, <3>2, <3>3
  <2>3. CASE ~(lock = NoLock \/ Live(lock))
    <3>1. PICK q : q = [r EXCEPT !.at = "clear"]
      OBVIOUS
    <3>2. request' = [request EXCEPT ![s] = q]
      BY <1>0, <1>1, <1>4, <2>3, <3>1 DEF GetSession
    <3>3. q \in Request /\ Sound(q)
      BY <1>1, <2>1, <3>1, IdleSound DEF Request, Sound
    <3> QED BY <1>1, <1>2, <2>1, <3>2, <3>3
  <2> QED BY <2>2, <2>3
<1>5. CASE NormalizeLock(s)
  <2>1. PICK q : q = Behind(r, NoLock)
    OBVIOUS
  <2>2. /\ r.at = "clear" /\ lock' = NoLock /\ UNCHANGED <<now, run, granted>>
        /\ request' = [request EXCEPT ![s] = q]
    BY <1>0, <1>1, <1>5, <2>1 DEF NormalizeLock
  <2>3. q \in Request /\ Sound(q)
    BY <1>1, <2>1, <2>2, BehindIsTyped
  <2> QED BY <1>1, <1>2, <2>2, <2>3
<1>6. CASE UpdateSession(s)
  <2>1. /\ r.at = "write" /\ r # Idle /\ lock' = r.new /\ UNCHANGED <<now, run>>
    BY <1>0, <1>6, IdleSound DEF UpdateSession
  <2>2. /\ r.op \in {"acquire", "release", "input"}
        /\ r.op = "release" => r.new = NoLock
        /\ r.op \in {"acquire", "input"} => r.new \in Lock
    BY <1>1, <2>1 DEF Sound
  <2>3. PICK q : q = CASE r.op = "acquire" -> [r EXCEPT !.at = "takeover"]
                       [] r.op = "release" -> [r EXCEPT !.at = "resume"]
                       [] r.op = "input" -> Idle
    OBVIOUS
  <2>4. request' = [request EXCEPT ![s] = q]
    BY <1>0, <1>6, <2>3 DEF UpdateSession
  <2>5. q \in Request /\ Sound(q)
    <3>1. CASE r.op = "input"
      BY <2>3, <3>1, IdleSound
    <3>2. CASE r.op = "acquire"
      <4>1. q = [r EXCEPT !.at = "takeover"]
        BY <2>3, <3>2
      <4> QED BY <1>1, <2>1, <3>2, <4>1 DEF Request, Sound
    <3>3. CASE r.op = "release"
      <4>1. q = [r EXCEPT !.at = "resume"]
        BY <2>3, <3>3
      <4> QED BY <1>1, <2>1, <3>3, <4>1 DEF Request, Sound
    <3> QED BY <2>2, <3>1, <3>2, <3>3
  <2>6. lock' \in MaybeLock
    BY <1>1, <2>1, <2>2 DEF MaybeLock
  <2>7. granted' \in [Actor -> MaybeLock]
    <3>1. CASE r.op = "release"
      BY <1>0, <1>1, <1>6, <3>1 DEF UpdateSession
    <3>2. CASE r.op \in {"acquire", "input"}
      <4>1. granted' = Told(r.new)
        BY <1>0, <1>6, <3>2 DEF UpdateSession
      <4> QED BY <1>1, <2>2, <3>2, <4>1 DEF Told, MaybeLock
    <3> QED BY <2>2, <3>1, <3>2
  <2> QED BY <1>1, <1>2, <2>1, <2>4, <2>5, <2>6, <2>7
<1>7. CASE CopyRow(s)
  <2>1. PICK q : q = [r EXCEPT !.at = "paste", !.seen = lock]
    OBVIOUS
  <2>2. r.at = "copy" /\ UNCHANGED <<now, lock, run, granted>>
        /\ request' = [request EXCEPT ![s] = q]
    BY <1>0, <1>1, <1>7, <2>1 DEF CopyRow
  <2>3. q \in Request
    BY <1>1, <2>1 DEF Request, MaybeLock
  <2>4. Sound(q)
    BY <1>1, <2>1, <2>2, IdleSound DEF Request, Sound
  <2> QED BY <1>1, <1>2, <2>2, <2>3, <2>4
<1>8. CASE PasteRow(s)
  <2>1. lock' = r.seen /\ UNCHANGED <<now, run, granted>> /\ request' = [request EXCEPT ![s] = Idle]
    BY <1>0, <1>8 DEF PasteRow
  <2>2. r.seen \in MaybeLock
    BY <1>1 DEF Request, MaybeLock
  <2> QED BY <1>1, <1>3, <2>1, <2>2
<1>9. CASE TakeOver(s) \/ ResumeRun(s)
  <2>1. UNCHANGED <<now, lock, granted>> /\ request' = [request EXCEPT ![s] = Idle]
        /\ run' \in RunState
    BY <1>1, <1>9 DEF TakeOver, ResumeRun, RunState
  <2> QED BY <1>1, <1>3, <2>1
<1>10. CASE InputSent(s)
  <2>1. r.at = "send" /\ UNCHANGED <<now, lock, run, granted>>
    BY <1>0, <1>10 DEF InputSent
  <2>2. CASE request' = [request EXCEPT ![s] = Idle]
    BY <1>1, <1>3, <2>1, <2>2
  <2>3. CASE request' = [request EXCEPT ![s].at = "get", ![s].stage = "manager"]
    <3>1. PICK q : q = [r EXCEPT !.at = "get", !.stage = "manager"]
      OBVIOUS
    <3>2. request' = [request EXCEPT ![s] = q]
      BY <1>0, <1>1, <2>3, <3>1
    <3>3. q \in Request /\ Sound(q)
      BY <1>1, <2>1, <3>1, IdleSound DEF Request, Sound
    <3> QED BY <1>1, <1>2, <2>1, <3>2, <3>3
  <2> QED BY <1>10, <2>2, <2>3 DEF InputSent
<1> QED BY <1>4, <1>5, <1>6, <1>7, <1>8, <1>9, <1>10 DEF Proceed

\* With either store the row's lock, what each request carries and what each actor was
\* told keep their types, and the session's run stays in a state the handlers know: the
\* rewriting heartbeat and the cleared lock included.
THEOREM LockTypeCorrect == Spec => []TypeOK
<1>1. Init => LockTyped
  BY LockInit DEF LockInv, LockTyped
<1>2. LockTyped /\ [Next]_vars => LockTyped'
  <2> SUFFICES ASSUME LockTyped, [Next]_vars PROVE LockTyped'
    OBVIOUS
  <2>1. CASE \E s \in Slot : \/ \E a \in Actor : AcquireControl(s, a) \/ ReleaseControl(s, a) \/ SendInput(s, a)
                            \/ Heartbeat(s)
                            \/ Proceed(s)
    BY <2>1, RequestsAreTyped, ProceedsTyped
  <2>2. CASE RunMoves \/ Tick \/ UNCHANGED vars
    <3>1. TypeOK' /\ request' = request
      BY <2>2, TimeAssumption DEF RunMoves, Tick, vars, LockTyped, TypeOK, RunState
    <3> QED BY <3>1 DEF LockTyped, Sound
  <2> QED BY <2>1, <2>2 DEF Next
<1>3. LockTyped => TypeOK
  BY DEF LockTyped
<1> QED BY <1>1, <1>2, <1>3, PTL DEF Spec
=============================================================================
