------------------------- MODULE EventStreamProofs -------------------------
(***************************************************************************)
(* Theorems about EventStream for any clients, events, limits and stores:  *)
(* what a connection was told, and that it is told what it is owed.        *)
(***************************************************************************)
EXTENDS EventStream, FiniteSetTheorems, SequenceTheorems, TLAPS

\* Where an event that a connection is owed may be.
Holds(s) == ToSet(s.got) \cup ToSet(s.batch) \cup ToSet(s.queue) \cup {s.start}

\* A connection between two steps.  seen_event_ids is what was yielded and the id the
\* connection was opened with: it keeps the generator from telling an event twice, and what
\* it skips was told.
Sound(s) ==
  /\ s \in Connection
  /\ s.pc = "off" => s = Off
  /\ s.pc = "replay" => s.queue = <<>>
  /\ s.pc = "live" => s.batch = <<>>
  /\ s.seen = ToSet(s.got) \cup ({s.start} \ {NoEvent})
  /\ IsInjective(s.got)
  /\ LocalStore \/ s.owed \subseteq Holds(s)

StampOK == stamp \in [Event -> 0..MaxEvent]

StreamInv ==
  /\ StampOK
  /\ saving \subseteq Event /\ saved \subseteq Event
  /\ stored \subseteq Event /\ memory \subseteq Event
  /\ conn \in [Client -> Connection]
  /\ \A c \in Client : Sound(conn[c])
  /\ last \in [Client -> Event \cup {NoEvent}]

-----------------------------------------------------------------------------
(* What a sequence holds                                                   *)

LEMMA HeldByNone == ToSet(<<>>) = {} /\ IsInjective(<<>>)
BY DEF ToSet, IsInjective

LEMMA HeldByAppend ==
  ASSUME NEW S, NEW q \in Seq(S), NEW e \in S
  PROVE  /\ Append(q, e) \in Seq(S)
         /\ ToSet(Append(q, e)) = ToSet(q) \cup {e}
         /\ IsInjective(q) /\ e \notin ToSet(q) => IsInjective(Append(q, e))
<1> DEFINE a == Append(q, e)
<1>1. /\ a \in Seq(S) /\ Len(a) = Len(q) + 1 /\ DOMAIN a = 1..(Len(q) + 1) /\ DOMAIN q = 1..Len(q)
      /\ Len(q) \in Nat /\ a[Len(q) + 1] = e
      /\ \A i \in 1..Len(q) : a[i] = q[i]
  BY AppendProperties, LenProperties
<1> HIDE DEF a
<1>2. ToSet(a) = ToSet(q) \cup {e}
  BY <1>1 DEF ToSet
<1>3. ASSUME IsInjective(q), e \notin ToSet(q)  PROVE IsInjective(a)
  <2> SUFFICES ASSUME NEW i \in DOMAIN a, NEW j \in DOMAIN a, a[i] = a[j]  PROVE i = j
    BY DEF IsInjective
  <2>1. \A k \in 1..Len(q) : q[k] # e
    BY <1>1, <1>3 DEF ToSet
  <2>2. CASE i \in 1..Len(q) /\ j \in 1..Len(q)
    <3>1. q[i] = q[j]
      BY <1>1, <2>2
    <3>2. QED  BY <1>1, <1>3, <2>2, <3>1 DEF IsInjective
  <2>3. QED  BY <1>1, <2>1, <2>2
<1>4. QED  BY <1>1, <1>2, <1>3 DEF a

LEMMA HeldByHead ==
  ASSUME NEW S, NEW q \in Seq(S), q # <<>>
  PROVE  /\ Head(q) \in S /\ Tail(q) \in Seq(S)
         /\ ToSet(q) = {Head(q)} \cup ToSet(Tail(q))
<1> DEFINE t == Tail(q)
<1>1. /\ Len(q) \in Nat \ {0} /\ DOMAIN q = 1..Len(q) /\ Head(q) = q[1] /\ Head(q) \in S
      /\ t \in Seq(S) /\ Len(t) = Len(q) - 1 /\ DOMAIN t = 1..(Len(q) - 1)
      /\ \A i \in 1..(Len(q) - 1) : t[i] = q[i + 1]
  BY HeadTailProperties, LenProperties, EmptySeq
<1> HIDE DEF t
<1>2. ToSet(q) \subseteq {Head(q)} \cup ToSet(t)
  <2> SUFFICES ASSUME NEW i \in 1..Len(q), i # 1  PROVE q[i] \in ToSet(t)
    BY <1>1 DEF ToSet
  <2>1. i - 1 \in 1..(Len(q) - 1) /\ t[i - 1] = q[(i - 1) + 1] /\ (i - 1) + 1 = i
    BY <1>1
  <2>2. QED  BY <1>1, <2>1 DEF ToSet
<1>3. {Head(q)} \cup ToSet(t) \subseteq ToSet(q)
  <2>1. q[1] \in ToSet(q)
    BY <1>1 DEF ToSet
  <2>2. ASSUME NEW i \in 1..(Len(q) - 1)  PROVE t[i] \in ToSet(q)
    <3>1. i + 1 \in 1..Len(q) /\ t[i] = q[i + 1]
      BY <1>1
    <3>2. QED  BY <1>1, <3>1 DEF ToSet
  <2>3. QED  BY <1>1, <2>1, <2>2 DEF ToSet
<1>4. QED  BY <1>1, <1>2, <1>3 DEF t

\* What is behind a place of a sequence, and what is not.
LEMMA HeldBehind ==
  ASSUME NEW S, NEW q \in Seq(S), NEW i \in 1..Len(q)
  PROVE  /\ SubSeq(q, i + 1, Len(q)) \in Seq(S)
         /\ ToSet(q) = {q[j] : j \in 1..i} \cup ToSet(SubSeq(q, i + 1, Len(q)))
<1> DEFINE t == SubSeq(q, i + 1, Len(q))
<1>1. Len(q) \in Nat /\ DOMAIN q = 1..Len(q) /\ \A j \in 1..Len(q) : q[j] \in S
  BY LenProperties, ElementOfSeq
<1>2. /\ t \in Seq(S) /\ Len(t) = Len(q) - i
      /\ \A j \in 1..(Len(q) - i) : t[j] = q[i + j]
  <2>1. \A j \in (i + 1)..Len(q) : q[j] \in S
    BY <1>1
  <2>2. /\ t \in Seq(S) /\ Len(t) = IF i + 1 <= Len(q) THEN Len(q) - (i + 1) + 1 ELSE 0
        /\ \A j \in 1..(Len(q) - (i + 1) + 1) : t[j] = q[(i + 1) + j - 1]
    BY <1>1, <2>1, SubSeqProperties
  <2> HIDE DEF t
  <2> PICK n \in Nat : n = Len(q)
    BY <1>1
  <2>3. Len(q) - (i + 1) + 1 = Len(q) - i /\ Len(t) = Len(q) - i
    <3>1. i \in 1..n
      OBVIOUS
    <3>2. n - (i + 1) + 1 = n - i /\ (i + 1 <= n \/ n - i = 0)
      BY <3>1
    <3>3. Len(t) = IF i + 1 <= n THEN n - (i + 1) + 1 ELSE 0
      BY <2>2
    <3>4. Len(t) = n - i
      BY <3>2, <3>3
    <3>5. QED  BY <3>2, <3>4
  <2>4. ASSUME NEW j \in 1..(Len(q) - i)  PROVE t[j] = q[i + j]
    <3>1. t[j] = q[(i + 1) + j - 1]
      BY <2>2, <2>3
    <3>2. (i + 1) + j - 1 = i + j
      BY <1>1
    <3>3. QED  BY <3>1, <3>2
  <2>5. QED  BY <2>2, <2>3, <2>4
<1>3. DOMAIN t = 1..(Len(q) - i)
  BY <1>2, LenProperties
<1> HIDE DEF t
<1>4. ASSUME NEW j \in 1..Len(q), j > i  PROVE q[j] \in ToSet(t)
  <2>1. j - i \in 1..(Len(q) - i) /\ i + (j - i) = j
    BY <1>1, <1>4
  <2>2. QED  BY <1>2, <1>3, <2>1 DEF ToSet
<1>5. ASSUME NEW j \in 1..(Len(q) - i)  PROVE t[j] \in ToSet(q)
  <2>1. i + j \in 1..Len(q) /\ t[j] = q[i + j]
    BY <1>1, <1>2
  <2>2. QED  BY <1>1, <2>1 DEF ToSet
<1>6. ToSet(q) \subseteq {q[j] : j \in 1..i} \cup ToSet(t)
  BY <1>1, <1>4 DEF ToSet
<1>7. {q[j] : j \in 1..i} \cup ToSet(t) \subseteq ToSet(q)
  BY SMTT(30), <1>1, <1>3, <1>5 DEF ToSet
<1>8. QED  BY <1>2, <1>6, <1>7 DEF t

-----------------------------------------------------------------------------
(* Queries                                                                 *)

LEMMA EventsAreFinite ==
  ASSUME NEW S \in SUBSET Event
  PROVE  IsFiniteSet(S) /\ Cardinality(S) \in Nat
<1>1. IsFiniteSet(Event)
  BY MaxEventAssumption, FS_Interval DEF Event
<1>2. QED  BY <1>1, FS_Subset, FS_CardinalityType

LEMMA RowsAreEvents ==
  ASSUME NEW S \in SUBSET Event, NEW rows \in Oldest(S) \cup Newest(S)
  PROVE  rows \in Seq(Event)
<1> DEFINE n == Cardinality(S)
<1>1. n \in Nat
  BY EventsAreFinite
<1>2. ASSUME NEW all \in Sorted(S), NEW a \in Int, NEW b \in Int, 1 <= a, b <= n
      PROVE  SubSeq(all, a, b) \in Seq(Event)
  <2>1. all \in [1..n -> S]
    BY DEF Sorted
  <2>2. \A i \in a..b : all[i] \in Event
    BY <1>1, <1>2, <2>1
  <2>3. QED  BY <2>2, SubSeqProperties
<1>3. Limit \in Nat
  BY LimitAssumption
<1> HIDE DEF n
<1>4. CASE rows \in Oldest(S)
  <2>1. PICK all \in Sorted(S) : rows = SubSeq(all, 1, IF n < Limit THEN n ELSE Limit)
    BY <1>4 DEF Oldest, n
  <2>2. QED  BY <1>1, <1>2, <1>3, <2>1
<1>5. CASE rows \in Newest(S)
  <2>1. PICK all \in Sorted(S) : rows = SubSeq(all, IF n < Limit THEN 1 ELSE n - Limit + 1, n)
    BY <1>5 DEF Newest, n
  <2>2. QED  BY <1>1, <1>2, <1>3, <2>1
<1>6. QED  BY <1>4, <1>5

LEMMA AnswersAreEvents ==
  ASSUME stored \subseteq Event, memory \subseteq Event, NEW t \in Nat, NEW rows \in Answers(t)
  PROVE  rows \in Seq(Event)
<1>1. From(stored, t) \subseteq Event /\ From(memory, t) \subseteq Event
  BY DEF From
<1>2. \E S \in SUBSET Event : rows \in Oldest(S) \cup Newest(S)
  BY <1>1 DEF Answers, ListEvents, ListEventsSince
<1>3. QED  BY <1>2, RowsAreEvents

-----------------------------------------------------------------------------
(* The generator                                                           *)

\* What a yield does to a connection.
Tells(s, y, e) ==
  /\ y \in Connection
  /\ y.pc = s.pc /\ y.start = s.start /\ y.batch = s.batch /\ y.queue = s.queue
  /\ y.owed = s.owed
  /\ ToSet(y.got) = ToSet(s.got) \cup {e}
  /\ y.seen = ToSet(y.got) \cup ({y.start} \ {NoEvent})
  /\ IsInjective(y.got)

LEMMA YieldKeeps ==
  ASSUME StampOK, NEW s \in Connection, NEW e \in Event, e \notin s.seen,
         s.seen = ToSet(s.got) \cup ({s.start} \ {NoEvent}), IsInjective(s.got)
  PROVE  Tells(s, Yielded(s, e), e)
<1> PICK y : y = Yielded(s, e)
  OBVIOUS
<1>1. s.got \in Seq(Event) /\ s.cursor \in Nat /\ s.seen \subseteq Event
  BY DEF Connection
<1>2. stamp[e] \in Nat
  BY MaxEventAssumption DEF StampOK
<1>3. /\ Append(s.got, e) \in Seq(Event)
      /\ ToSet(Append(s.got, e)) = ToSet(s.got) \cup {e}
      /\ IsInjective(Append(s.got, e))
  BY <1>1, HeldByAppend
<1>4. /\ y.pc = s.pc /\ y.start = s.start /\ y.batch = s.batch /\ y.queue = s.queue
      /\ y.owed = s.owed /\ y.got = Append(s.got, e) /\ y.seen = s.seen \cup {e}
  BY DEF Yielded, Connection
<1>5. y \in Connection
  BY <1>1, <1>2, <1>3 DEF Yielded, Connection
<1>6. QED  BY <1>3, <1>4, <1>5 DEF Tells

\* The generator goes on from a sound connection to sound ones.
LEMMA RunOnKeeps ==
  ASSUME StampOK, NEW s, Sound(s), s.pc \in {"replay", "catchup"}, NEW u \in RunOn(s)
  PROVE  Sound(u)
<1>1. /\ s \in Connection /\ s.batch \in Seq(Event) /\ s.got \in Seq(Event)
      /\ s.seen = ToSet(s.got) \cup ({s.start} \ {NoEvent}) /\ IsInjective(s.got)
  BY DEF Sound, Connection
<1>2. CASE ToSet(s.batch) \subseteq s.seen
  <2>1. u = [s EXCEPT !.pc = "live", !.batch = <<>>]
    BY <1>2 DEF RunOn
  <2>2. /\ u.pc = "live" /\ u.batch = <<>> /\ u.start = s.start /\ u.seen = s.seen
        /\ u.got = s.got /\ u.queue = s.queue /\ u.owed = s.owed
    BY <1>1, <2>1 DEF Connection
  <2>3. u \in Connection
    BY <1>1, <2>1, EmptySeq DEF Connection
  <2>4. LocalStore \/ u.owed \subseteq Holds(u)
    <3>1. ToSet(s.batch) \subseteq ToSet(s.got) \cup {s.start}
      BY <1>1, <1>2
    <3>2. Holds(s) \subseteq Holds(u)
      BY <2>2, <3>1 DEF Holds
    <3>3. QED  BY <2>2, <3>2 DEF Sound
  <2>5. QED  BY <1>1, <2>2, <2>3, <2>4 DEF Sound
<1>3. CASE ~(ToSet(s.batch) \subseteq s.seen)
  <2>1. PICK i \in Unseen(s) :
          u = [Yielded(s, s.batch[i]) EXCEPT !.batch = Behind(s, i)]
    BY <1>3 DEF RunOn
  <2>2. /\ i \in 1..Len(s.batch) /\ s.batch[i] \notin s.seen
        /\ \A j \in 1..(i - 1) : s.batch[j] \in s.seen
    BY <1>1, LenProperties DEF Unseen
  <2>3. PICK e \in Event : e = s.batch[i]
    BY <1>1, <2>2, ElementOfSeq
  <2>4. PICK y : y = Yielded(s, e)
    OBVIOUS
  <2>5. /\ y \in Connection
        /\ y.pc = s.pc /\ y.start = s.start /\ y.batch = s.batch /\ y.queue = s.queue
        /\ y.owed = s.owed
        /\ ToSet(y.got) = ToSet(s.got) \cup {e}
        /\ y.seen = ToSet(y.got) \cup ({y.start} \ {NoEvent})
        /\ IsInjective(y.got)
    <3>1. e \notin s.seen
      BY <2>2, <2>3
    <3>2. Tells(s, y, e)
      BY <1>1, <2>4, <3>1, YieldKeeps
    <3>3. QED  BY <3>2 DEF Tells
  <2>6. PICK rest \in Seq(Event) :
          /\ rest = Behind(s, i)
          /\ ToSet(s.batch) = {s.batch[j] : j \in 1..i} \cup ToSet(rest)
    <3>1. PICK q \in Seq(Event) : q = s.batch
      BY <1>1
    <3>2. /\ SubSeq(q, i + 1, Len(q)) \in Seq(Event)
          /\ ToSet(q) = {q[j] : j \in 1..i} \cup ToSet(SubSeq(q, i + 1, Len(q)))
      BY <2>2, <3>1, HeldBehind
    <3>3. QED  BY <3>1, <3>2 DEF Behind
  <2>7. u = [y EXCEPT !.batch = rest]
    BY <2>1, <2>3, <2>4, <2>6
  <2>8. /\ u \in Connection
        /\ u.pc = y.pc /\ u.start = y.start /\ u.batch = rest /\ u.queue = y.queue
        /\ u.owed = y.owed /\ u.got = y.got /\ u.seen = y.seen
    BY <2>5, <2>7 DEF Connection
  <2>9. \A j \in 1..i : s.batch[j] \in s.seen \cup {e}
    BY <2>2, <2>3
  <2>10. ToSet(s.batch) \subseteq ToSet(u.got) \cup ToSet(u.batch) \cup {u.start}
    <3>1. s.seen \cup {e} \subseteq ToSet(u.got) \cup {u.start}
      BY <1>1, <2>5, <2>8
    <3>2. {s.batch[j] : j \in 1..i} \subseteq ToSet(u.got) \cup {u.start}
      BY <2>9, <3>1
    <3>3. QED  BY <2>6, <2>8, <3>2
  <2>11. Holds(s) \subseteq Holds(u)
    BY <2>5, <2>8, <2>10 DEF Holds
  <2>12. LocalStore \/ u.owed \subseteq Holds(u)
    BY <2>5, <2>8, <2>11 DEF Sound
  <2>13. u.pc \in {"replay", "catchup"} /\ (u.pc = "replay" => u.queue = <<>>)
    BY <2>5, <2>8 DEF Sound
  <2>14. QED  BY <2>5, <2>8, <2>12, <2>13 DEF Sound
<1>4. QED  BY <1>2, <1>3

\* A query that was answered, with whatever comes before the next step.
LEMMA QueriedKeeps ==
  ASSUME StampOK, NEW s, Sound(s), s.pc \in {"replay", "catchup"}, NEW u \in Queried(s)
  PROVE  Sound(u)
BY RunOnKeeps DEF Queried

\* One connection changes.
LEMMA OneConnection ==
  ASSUME StreamInv, NEW c \in Client, NEW s, Sound(s), conn' = [conn EXCEPT ![c] = s],
         last' \in [Client -> Event \cup {NoEvent}],
         UNCHANGED <<stamp, saving, saved, stored, memory>>
  PROVE  StreamInv'
<1>1. s \in Connection
  BY DEF Sound
<1>2. conn' \in [Client -> Connection]
  BY <1>1 DEF StreamInv
<1>3. ASSUME NEW d \in Client  PROVE Sound(conn'[d])
  BY <1>3 DEF StreamInv
<1>4. QED  BY <1>2, <1>3 DEF StreamInv, StampOK, Sound, Holds

-----------------------------------------------------------------------------
(* The steps                                                               *)

LEMMA OffIsSound == Sound(Off)
BY HeldByNone, EmptySeq DEF Sound, Off, Connection, Holds, NoEvent

LEMMA InitStream == Init => StreamInv
<1> SUFFICES ASSUME Init  PROVE StreamInv
  OBVIOUS
<1>1. StampOK
  BY MaxEventAssumption DEF Init, StampOK
<1>2. Off \in Connection
  BY OffIsSound DEF Sound
<1>3. QED  BY <1>1, <1>2, OffIsSound DEF Init, StreamInv

\* publish_event, before it reaches the queues, touches no connection.
LEMMA UntoldStep ==
  ASSUME StreamInv, StampOK', saving' \subseteq Event, saved' \subseteq Event,
         stored' \subseteq Event, memory' \subseteq Event, UNCHANGED <<conn, last>>
  PROVE  StreamInv'
BY DEF StreamInv, Sound, Holds

LEMMA PublishKeeps ==
  ASSUME StreamInv, NEW e \in Event, Publish(e)
  PROVE  StreamInv'
<1>1. StampOK'
  <2>1. PICK t \in 1..MaxEvent : stamp' = [stamp EXCEPT ![e] = t]
    BY DEF Publish, Stamped
  <2>2. t \in 0..MaxEvent
    BY MaxEventAssumption
  <2>3. QED  BY <2>1, <2>2 DEF StreamInv, StampOK
<1>2. QED  BY <1>1, UntoldStep DEF Publish, StreamInv

LEMMA SaveKeeps ==
  ASSUME StreamInv, NEW e \in Event, Save(e)
  PROVE  StreamInv'
<1>1. StampOK'
  BY DEF Save, StreamInv, StampOK
<1>2. stored' \subseteq Event /\ memory' \subseteq Event
  BY DEF Save, StreamInv
<1>3. QED  BY <1>1, <1>2, UntoldStep DEF Save, StreamInv

LEMMA FanOutKeeps ==
  ASSUME StreamInv, NEW e \in Event, FanOut(e)
  PROVE  StreamInv'
<1>1. ASSUME NEW c \in Client  PROVE Sound(conn'[c])
  <2>1. conn'[c] = IF Subscribed(c)
                   THEN [conn[c] EXCEPT !.queue = Append(@, e), !.owed = @ \cup {e}]
                   ELSE conn[c]
    BY DEF FanOut, Put
  <2>2. CASE ~Subscribed(c)
    BY <2>1, <2>2 DEF StreamInv
  <2>3. CASE Subscribed(c)
    <3>1. PICK s : s = conn[c]
      OBVIOUS
    <3>2. Sound(s) /\ s.pc \in {"live", "catchup"} /\ s \in Connection
      BY <2>3, <3>1 DEF StreamInv, Subscribed, Sound
    <3>3. PICK q \in Seq(Event) : q = Append(s.queue, e) /\ ToSet(q) = ToSet(s.queue) \cup {e}
      <4>1. PICK p \in Seq(Event) : p = s.queue
        BY <3>2 DEF Connection
      <4>2. Append(p, e) \in Seq(Event) /\ ToSet(Append(p, e)) = ToSet(p) \cup {e}
        BY HeldByAppend
      <4>3. QED  BY <4>1, <4>2
    <3>4. PICK u : u = [s EXCEPT !.queue = q, !.owed = s.owed \cup {e}]
      OBVIOUS
    <3>5. /\ u \in Connection
          /\ u.pc = s.pc /\ u.start = s.start /\ u.seen = s.seen /\ u.batch = s.batch
          /\ u.queue = q /\ u.got = s.got /\ u.owed = s.owed \cup {e}
      BY <3>2, <3>4 DEF Connection
    <3>6. Holds(u) = Holds(s) \cup {e}
      BY <3>3, <3>5 DEF Holds
    <3>7. Sound(u)
      BY <3>2, <3>5, <3>6 DEF Sound
    <3>8. conn'[c] = u
      BY <2>1, <2>3, <3>1, <3>3, <3>4
    <3>9. QED  BY <3>7, <3>8
  <2>4. QED  BY <2>2, <2>3
<1>2. conn' \in [Client -> Connection]
  <2>1. conn' = [c \in Client |-> conn'[c]]
    BY DEF FanOut, Put
  <2>2. QED  BY <1>1, <2>1 DEF Sound
<1>3. UNCHANGED <<stamp, saving, stored, memory, last>> /\ saved' = saved \ {e}
  BY DEF FanOut
<1>4. QED  BY <1>1, <1>2, <1>3 DEF StreamInv, StampOK, Sound, Holds

LEMMA OpenKeeps ==
  ASSUME StreamInv, NEW c \in Client, Open(c)
  PROVE  StreamInv'
<1>1. PICK start \in Found(IF c \in Resuming THEN last[c] ELSE NoEvent) :
        LET cursor == IF start = NoEvent THEN 0 ELSE stamp[start] IN
        \E rows \in Answers(cursor) :
          \E s \in Queried([Off EXCEPT !.pc = "replay", !.start = start, !.cursor = cursor,
                                        !.seen = {start} \ {NoEvent}, !.batch = rows,
                                        !.owed = OwedAt(cursor, rows)]) :
            conn' = [conn EXCEPT ![c] = s]
  BY DEF Open
<1>2. start \in Event \cup {NoEvent}
  BY DEF Found, StreamInv
<1>3. PICK t \in Nat : t = IF start = NoEvent THEN 0 ELSE stamp[start]
  BY <1>2, MaxEventAssumption DEF StreamInv, StampOK, NoEvent
<1>4. PICK rows \in Answers(t) :
        \E s \in Queried([Off EXCEPT !.pc = "replay", !.start = start, !.cursor = t,
                                      !.seen = {start} \ {NoEvent}, !.batch = rows,
                                      !.owed = OwedAt(t, rows)]) :
          conn' = [conn EXCEPT ![c] = s]
  BY <1>1, <1>3
<1>5. rows \in Seq(Event)
  BY AnswersAreEvents DEF StreamInv
<1>6. OwedAt(t, rows) \subseteq Event /\ (LocalStore \/ OwedAt(t, rows) \subseteq ToSet(rows))
  BY DEF OwedAt, From, StreamInv
<1>7. PICK o : o = [Off EXCEPT !.pc = "replay", !.start = start, !.cursor = t,
                               !.seen = {start} \ {NoEvent}, !.batch = rows,
                               !.owed = OwedAt(t, rows)]
  OBVIOUS
<1>8. o = [pc |-> "replay", start |-> start, cursor |-> t, seen |-> {start} \ {NoEvent},
           batch |-> rows, queue |-> <<>>, got |-> <<>>, owed |-> OwedAt(t, rows)]
  BY <1>7 DEF Off
<1>9. /\ o.pc = "replay" /\ o.start = start /\ o.seen = {start} \ {NoEvent}
      /\ o.batch = rows /\ o.queue = <<>> /\ o.got = <<>> /\ o.owed = OwedAt(t, rows)
  BY <1>8
<1>10. o \in Connection
  <2>1. {start} \ {NoEvent} \subseteq Event
    BY <1>2
  <2>2. <<>> \in Seq(Event)
    BY EmptySeq
  <2>3. QED  BY <1>2, <1>5, <1>6, <1>8, <2>1, <2>2 DEF Connection
<1>11. Sound(o)
  BY <1>6, <1>9, <1>10, HeldByNone DEF Sound, Holds
<1>12. PICK s \in Queried(o) : conn' = [conn EXCEPT ![c] = s]
  BY <1>4, <1>7
<1>13. Sound(s)
  BY <1>9, <1>11, QueriedKeeps DEF StreamInv
<1>14. QED  BY <1>12, <1>13, OneConnection DEF Open, StreamInv

LEMMA ResumeKeeps ==
  ASSUME StreamInv, NEW c \in Client, Resume(c)
  PROVE  StreamInv'
<1>1. PICK s \in RunOn(conn[c]) : conn' = [conn EXCEPT ![c] = s]
  BY DEF Resume
<1>2. Sound(conn[c]) /\ conn[c].pc \in {"replay", "catchup"}
  BY DEF Resume, StreamInv
<1>3. Sound(s)
  BY <1>2, RunOnKeeps DEF StreamInv
<1>4. QED  BY <1>1, <1>3, OneConnection DEF Resume, StreamInv

LEMMA TakeKeeps ==
  ASSUME StreamInv, NEW c \in Client, Take(c)
  PROVE  StreamInv'
<1>1. PICK s : s = conn[c]
  OBVIOUS
<1>2. Sound(s) /\ s \in Connection /\ s.pc = "live" /\ s.queue # <<>>
  BY <1>1 DEF Take, StreamInv, Sound
<1>3. PICK q \in Seq(Event) : q = s.queue /\ q # <<>>
  BY <1>2 DEF Connection
<1>4. PICK e \in Event : e = Head(q)
  BY <1>3, HeldByHead
<1>5. PICK t \in Seq(Event) : t = Tail(q) /\ ToSet(q) = {e} \cup ToSet(t)
  BY <1>3, <1>4, HeldByHead
<1>6. PICK u : u = [s EXCEPT !.queue = t]
  OBVIOUS
<1>7. /\ u \in Connection
      /\ u.pc = s.pc /\ u.start = s.start /\ u.seen = s.seen /\ u.batch = s.batch
      /\ u.queue = t /\ u.got = s.got /\ u.owed = s.owed
  BY <1>2, <1>6 DEF Connection
<1>8. u.seen = ToSet(u.got) \cup ({u.start} \ {NoEvent}) /\ IsInjective(u.got)
  BY <1>2, <1>7 DEF Sound
<1>9. Holds(s) \subseteq Holds(u) \cup {e}
  BY <1>3, <1>5, <1>7 DEF Holds
<1>10. PICK w : w = IF e \in u.seen THEN u ELSE Yielded(u, e)
  OBVIOUS
<1>11. Sound(w)
  <2>1. CASE e \in u.seen
    <3>1. w = u /\ e \in Holds(u)
      BY <1>8, <1>10, <2>1 DEF Holds
    <3>2. LocalStore \/ u.owed \subseteq Holds(u)
      BY <1>2, <1>7, <1>9, <3>1 DEF Sound
    <3>3. QED  BY <1>2, <1>7, <1>8, <3>1, <3>2 DEF Sound
  <2>2. CASE e \notin u.seen
    <3>1. w = Yielded(u, e)
      BY <1>10, <2>2
    <3>2. Tells(u, w, e)
      BY <1>7, <1>8, <2>2, <3>1, YieldKeeps DEF StreamInv
    <3>3. Holds(u) \cup {e} \subseteq Holds(w)
      BY <3>2 DEF Tells, Holds
    <3>4. LocalStore \/ w.owed \subseteq Holds(w)
      BY <1>2, <1>7, <1>9, <3>2, <3>3 DEF Sound, Tells
    <3>5. QED  BY <1>2, <1>7, <3>2, <3>4 DEF Sound, Tells
  <2>3. QED  BY <2>1, <2>2
<1>12. conn' = [conn EXCEPT ![c] = w]
  BY <1>1, <1>3, <1>4, <1>5, <1>6, <1>10 DEF Take
<1>13. QED  BY <1>11, <1>12, OneConnection DEF Take, StreamInv

LEMMA CatchUpKeeps ==
  ASSUME StreamInv, NEW c \in Client, CatchUp(c)
  PROVE  StreamInv'
<1>1. PICK s : s = conn[c]
  OBVIOUS
<1>2. PICK rows \in Answers(conn[c].cursor) : CatchUpWith(c, rows)
  BY DEF CatchUp
<1>3. /\ Sound(s) /\ s \in Connection /\ s.pc = "live" /\ s.cursor \in Nat
      /\ s.batch = <<>>
  BY <1>1, <1>2 DEF CatchUpWith, StreamInv, Sound, Connection
<1>4. rows \in Seq(Event)
  BY <1>1, <1>2, <1>3, AnswersAreEvents DEF StreamInv
<1>5. PICK o : o = [s EXCEPT !.pc = "catchup", !.batch = rows]
  OBVIOUS
<1>6. /\ o \in Connection
      /\ o.pc = "catchup" /\ o.start = s.start /\ o.seen = s.seen /\ o.batch = rows
      /\ o.queue = s.queue /\ o.got = s.got /\ o.owed = s.owed
  BY <1>3, <1>4, <1>5 DEF Connection
<1>7. Holds(s) \subseteq Holds(o)
  BY <1>3, <1>6, HeldByNone DEF Holds
<1>8. Sound(o)
  BY <1>3, <1>6, <1>7 DEF Sound
<1>9. PICK u \in Queried(o) : conn' = [conn EXCEPT ![c] = u]
  BY <1>1, <1>2, <1>5 DEF CatchUpWith
<1>10. Sound(u)
  BY <1>6, <1>8, QueriedKeeps DEF StreamInv
<1>11. QED  BY <1>2, <1>9, <1>10, OneConnection DEF CatchUpWith, StreamInv

LEMMA DisconnectKeeps ==
  ASSUME StreamInv, NEW c \in Client, Disconnect(c)
  PROVE  StreamInv'
<1>1. conn[c].got \in Seq(Event)
  BY DEF StreamInv, Connection
<1>2. PICK n \in 0..Len(conn[c].got) :
        last' = IF n = 0 THEN last ELSE [last EXCEPT ![c] = conn[c].got[n]]
  BY DEF Disconnect
<1>3. n = 0 \/ conn[c].got[n] \in Event
  BY <1>1, <1>2, ElementOfSeq, LenProperties
<1>4. last' \in [Client -> Event \cup {NoEvent}]
  BY <1>2, <1>3 DEF StreamInv
<1>5. QED  BY <1>4, OffIsSound, OneConnection DEF Disconnect

LEMMA RestartKeeps ==
  ASSUME StreamInv, Restart
  PROVE  StreamInv'
<1>1. Off \in Connection
  BY OffIsSound DEF Sound
<1>2. conn' \in [Client -> Connection] /\ \A c \in Client : Sound(conn'[c])
  BY <1>1, OffIsSound DEF Restart
<1>3. QED  BY <1>2 DEF Restart, StreamInv, StampOK, Sound, Holds

LEMMA StreamStep == StreamInv /\ [Next]_vars => StreamInv'
<1> SUFFICES ASSUME StreamInv, [Next]_vars  PROVE StreamInv'
  OBVIOUS
<1>1. CASE UNCHANGED vars
  BY <1>1 DEF vars, StreamInv, StampOK, Sound, Holds
<1>2. CASE \E e \in Event : Publish(e) \/ Save(e) \/ FanOut(e)
  BY <1>2, PublishKeeps, SaveKeeps, FanOutKeeps
<1>3. CASE \E c \in Client : Open(c) \/ Resume(c) \/ Take(c) \/ CatchUp(c) \/ Disconnect(c)
  BY <1>3, OpenKeeps, ResumeKeeps, TakeKeeps, CatchUpKeeps, DisconnectKeeps
<1>4. CASE Restart
  BY <1>4, RestartKeeps
<1>5. QED  BY <1>1, <1>2, <1>3, <1>4 DEF Next

-----------------------------------------------------------------------------
\* publish_event and stream_events keep their data well-formed, with either store, whatever
\* fails: a connection that replays has no queue yet, a live one has no rows left.
THEOREM StreamTypeCorrect == Spec => []TypeOK
<1>1. StreamInv => TypeOK
  BY DEF StreamInv, StampOK, Sound, TypeOK
<1>2. QED  BY <1>1, InitStream, StreamStep, PTL DEF Spec

\* seen_event_ids: replay, queue and catch-up overlap, and no connection is told an event
\* twice, for any number of clients and events, limits, stores, failures and restarts.
THEOREM NothingIsToldTwice == Spec => []ToldOnce
<1>1. StreamInv => ToldOnce
  BY DEF StreamInv, Sound, ToldOnce
<1>2. QED  BY <1>1, InitStream, StreamStep, PTL DEF Spec

\* With Firestore, what a replay's query answered in full and what was put to a subscriber's
\* queue is told or on its way, whatever comes between.  (With the local store a resuming
\* client is answered from the wrong list.)
THEOREM OwedIsAlwaysTold ==
  ASSUME ~LocalStore
  PROVE  Spec => []OwedIsTold
<1>1. StreamInv => OwedIsTold
  BY DEF StreamInv, Sound, Holds, OwedIsTold
<1>2. QED  BY <1>1, InitStream, StreamStep, PTL DEF Spec

=============================================================================
