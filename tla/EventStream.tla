----------------------------- MODULE EventStream -----------------------------
(***************************************************************************)
(* The backend's own event stream: publish_event and the subscribers of    *)
(* automation/events.py, the generator behind GET /api/events/stream       *)
(* (automation/event_routes.py), and the queries of automation/store.py it *)
(* replays from.                                                           *)
(*                                                                         *)
(* Only events that pass a connection's filters are modelled.  They are    *)
(* numbered in the order publish_event makes them; the timestamps of two   *)
(* may be equal.  The generator gives the event loop away at each yield    *)
(* and, with Firestore, at each query; publish_event with Firestore while  *)
(* it saves.  With the local store nothing but a yield suspends.           *)
(***************************************************************************)
EXTENDS Naturals, Sequences, FiniteSets, SequencesExt

CONSTANTS
  Client,      \* readers of the stream, one connection each
  Resuming,    \* those that send Last-Event-ID (EventSource of the web client)
  MaxEvent,    \* bound: events in a behaviour
  Limit,       \* the queries' default limit (500 in the code)
  LocalStore,  \* the JSON store of the dev environment instead of Firestore?
  MayFail,     \* may Firestore calls fail or time out?
  MayRestart   \* may the backend restart?

ASSUME ResumingAssumption == Resuming \subseteq Client
ASSUME MaxEventAssumption == MaxEvent \in Nat
ASSUME LimitAssumption == Limit \in Nat \ {0, 1}
ASSUME StoreAssumption == LocalStore \in BOOLEAN /\ MayFail \in BOOLEAN /\ (LocalStore => ~MayFail)

Event   == 1..MaxEvent
NoEvent == 0

VARIABLES
  stamp,   \* each event's timestamp, 0 while it is unpublished
  saving,  \* events in publish_event's save_event
  saved,   \* events in publish_event after save_event
  stored,  \* events in the collection
  memory,  \* events in _events, the fallback list
  conn,    \* each client's connection
  last     \* the id a client got last, kept over its connections

vars == <<stamp, saving, saved, stored, memory, conn, last>>

\* No connection; a live one is in _subscribers when it is "live" or catches up.
Off == [pc |-> "off", start |-> NoEvent, cursor |-> 0, seen |-> {}, batch |-> <<>>,
        queue |-> <<>>, got |-> <<>>, owed |-> {}]

Connection ==
  [pc : {"off", "replay", "live", "catchup"},
   start : Event \cup {NoEvent},  \* the Last-Event-ID it was opened with, if it was found
   cursor : Nat,                  \* cursor_timestamp, 0 for ""
   seen : SUBSET Event,           \* seen_event_ids
   batch : Seq(Event),            \* what is left of the last query
   queue : Seq(Event),            \* its asyncio.Queue
   got : Seq(Event),              \* history: what was yielded
   owed : SUBSET Event]           \* history: what its replay was owed, and what was put to
                                  \* the queues while it was subscribed

TypeOK ==
  /\ stamp \in [Event -> 0..MaxEvent]
  /\ saving \subseteq Event /\ saved \subseteq Event
  /\ stored \subseteq Event /\ memory \subseteq Event
  /\ conn \in [Client -> Connection]
  /\ \A c \in Client :
       /\ conn[c].pc = "off" => conn[c] = Off
       /\ conn[c].pc = "replay" => conn[c].queue = <<>>
       /\ conn[c].pc = "live" => conn[c].batch = <<>>
  /\ last \in [Client -> Event \cup {NoEvent}]

Init ==
  /\ stamp = [e \in Event |-> 0]
  /\ saving = {} /\ saved = {} /\ stored = {} /\ memory = {}
  /\ conn = [c \in Client |-> Off]
  /\ last = [c \in Client |-> NoEvent]

-----------------------------------------------------------------------------
(* Queries                                                                 *)

\* The events of S in the order of their timestamps: the one sequence of this set.
Before(d, e) == stamp[d] < stamp[e] \/ (stamp[d] = stamp[e] /\ d < e)
Sorted(S) ==
  {rows \in [1..Cardinality(S) -> S] : \A i \in 2..Cardinality(S) : Before(rows[i - 1], rows[i])}

Oldest(S) ==
  {SubSeq(rows, 1, IF Cardinality(S) < Limit THEN Cardinality(S) ELSE Limit) : rows \in Sorted(S)}
Newest(S) ==
  {SubSeq(rows, IF Cardinality(S) < Limit THEN 1 ELSE Cardinality(S) - Limit + 1, Cardinality(S))
     : rows \in Sorted(S)}

From(S, t) == {e \in S : stamp[e] >= t}

\* An empty or failed query falls back to the events kept in memory.
ListEvents ==
  (IF stored = {} THEN {} ELSE Oldest(stored))
    \cup (IF stored = {} \/ MayFail THEN Newest(memory) ELSE {})

\* The local store has no query for it: _db() raises.
ListEventsSince(t) ==
  (IF LocalStore THEN {} ELSE Oldest(From(stored, t)))
    \cup (IF LocalStore \/ MayFail THEN Oldest(From(memory, t)) ELSE {})

Answers(t) == IF t = 0 THEN ListEvents ELSE ListEventsSince(t)

-----------------------------------------------------------------------------
(* publish_event                                                           *)

Subscribed(c) == conn[c].pc \in {"live", "catchup"}

\* Mutant: a generator that ends does not unsubscribe.
PutToAll(e) ==
  [c \in Client |-> [conn[c] EXCEPT !.queue = Append(@, e), !.owed = @ \cup {e}]]

Put(e) ==
  [c \in Client |-> IF Subscribed(c)
                    THEN [conn[c] EXCEPT !.queue = Append(@, e), !.owed = @ \cup {e}]
                    ELSE conn[c]]

\* The next event gets its timestamp.  Far fewer than Limit events share one.
Stamped(e) ==
  /\ stamp[e] = 0 /\ \A d \in 1..(e - 1) : stamp[d] # 0
  /\ \E t \in 1..MaxEvent :
       /\ \A d \in Event : stamp[d] <= t
       /\ t = 1 \/ \E d \in Event : stamp[d] = t - 1
       /\ Cardinality({d \in Event : stamp[d] = t}) + 1 < Limit
       /\ stamp' = [stamp EXCEPT ![e] = t]

\* With the local store publish_event is not interrupted.
Undisturbed == LocalStore => saving \cup saved = {}

Publish(e) ==
  /\ Undisturbed
  /\ Stamped(e)
  /\ saving' = saving \cup {e}
  /\ UNCHANGED <<saved, stored, memory, conn, last>>

\* A save that timed out may still have arrived.
Save(e) ==
  /\ e \in saving
  /\ \E inStore, inMemory \in BOOLEAN :
       /\ IF MayFail THEN inStore \/ inMemory ELSE inStore /\ ~inMemory
       /\ stored' = IF inStore THEN stored \cup {e} ELSE stored
       /\ memory' = IF inMemory THEN memory \cup {e} ELSE memory
  /\ saving' = saving \ {e}
  /\ saved' = saved \cup {e}
  /\ UNCHANGED <<stamp, conn, last>>

FanOut(e) ==
  /\ e \in saved
  /\ saved' = saved \ {e}
  /\ conn' = Put(e)
  /\ UNCHANGED <<stamp, saving, stored, memory, last>>

-----------------------------------------------------------------------------
(* stream_events                                                           *)

Yielded(s, e) ==
  [s EXCEPT !.seen = @ \cup {e}, !.cursor = IF stamp[e] > @ THEN stamp[e] ELSE @,
            !.got = Append(@, e)]

\* Where the loop over a query's events stops: at the first that was not seen.
Unseen(s) == {i \in DOMAIN s.batch : /\ s.batch[i] \notin s.seen
                                     /\ \A j \in 1..(i - 1) : s.batch[j] \in s.seen}
Behind(s, i) == SubSeq(s.batch, i + 1, Len(s.batch))

\* Mutant: a query's events are not remembered as seen.
RunOnForgetful(s) ==
  IF ToSet(s.batch) \subseteq s.seen
  THEN {[s EXCEPT !.pc = "live", !.batch = <<>>]}
  ELSE {[Yielded(s, s.batch[i]) EXCEPT !.batch = Behind(s, i), !.seen = s.seen] : i \in Unseen(s)}

\* The generator runs on through a query's answer: to the next yield, or, behind the
\* last one, to queue.get().  A replay subscribes on the way.
RunOn(s) ==
  IF ToSet(s.batch) \subseteq s.seen
  THEN {[s EXCEPT !.pc = "live", !.batch = <<>>]}
  ELSE {[Yielded(s, s.batch[i]) EXCEPT !.batch = Behind(s, i)] : i \in Unseen(s)}

\* With the local store nothing happens between a query and the yield behind it.
Queried(s) == IF LocalStore THEN RunOn(s) ELSE {s}

\* The event of a Last-Event-ID is found in the store or in memory.
Found(e) ==
  IF e = NoEvent THEN {NoEvent}
  ELSE (IF e \in stored \cup memory THEN {e} ELSE {NoEvent})
         \cup (IF MayFail /\ e \notin memory THEN {NoEvent} ELSE {})

\* What a replay that was answered with these rows owes its client: all that is stored,
\* unless the query failed or was cut off at Limit.
OwedAt(cursor, rows) ==
  LET due == From(stored, cursor) IN IF LocalStore \/ ToSet(rows) = due THEN due ELSE {}

Open(c) ==
  /\ conn[c].pc = "off" /\ Undisturbed
  /\ \E start \in Found(IF c \in Resuming THEN last[c] ELSE NoEvent) :
       LET cursor == IF start = NoEvent THEN 0 ELSE stamp[start] IN
       \E rows \in Answers(cursor) :
         \E s \in Queried([Off EXCEPT !.pc = "replay", !.start = start, !.cursor = cursor,
                                       !.seen = {start} \ {NoEvent}, !.batch = rows,
                                       !.owed = OwedAt(cursor, rows)]) :
           conn' = [conn EXCEPT ![c] = s]
  /\ UNCHANGED <<stamp, saving, saved, stored, memory, last>>

Resume(c) ==
  /\ conn[c].pc \in {"replay", "catchup"} /\ Undisturbed
  /\ \E s \in RunOn(conn[c]) : conn' = [conn EXCEPT ![c] = s]
  /\ UNCHANGED <<stamp, saving, saved, stored, memory, last>>

\* Mutant: what is older than the cursor is taken for a duplicate.
TakeNewer(c) ==
  /\ conn[c].pc = "live" /\ conn[c].queue # <<>> /\ Undisturbed
  /\ LET e == Head(conn[c].queue)
         s == [conn[c] EXCEPT !.queue = Tail(@)] IN
     conn' = [conn EXCEPT ![c] = IF e \in s.seen \/ stamp[e] < s.cursor THEN s ELSE Yielded(s, e)]
  /\ UNCHANGED <<stamp, saving, saved, stored, memory, last>>

Take(c) ==
  /\ conn[c].pc = "live" /\ conn[c].queue # <<>> /\ Undisturbed
  /\ LET e == Head(conn[c].queue)
         s == [conn[c] EXCEPT !.queue = Tail(@)] IN
     conn' = [conn EXCEPT ![c] = IF e \in s.seen THEN s ELSE Yielded(s, e)]
  /\ UNCHANGED <<stamp, saving, saved, stored, memory, last>>

CatchUpWith(c, rows) ==
  /\ conn[c].pc = "live" /\ conn[c].queue = <<>> /\ Undisturbed
  /\ \E s \in Queried([conn[c] EXCEPT !.pc = "catchup", !.batch = rows]) :
       conn' = [conn EXCEPT ![c] = s]
  /\ UNCHANGED <<stamp, saving, saved, stored, memory, last>>

\* Fifteen seconds without an event.
CatchUp(c) == \E rows \in Answers(conn[c].cursor) : CatchUpWith(c, rows)

\* Firestore answers.
Answered(c) ==
  CatchUp(c) /\ \E rows \in Oldest(From(stored, conn[c].cursor)) : CatchUpWith(c, rows)

\* The connection ends; the client received a part of what was sent.
Disconnect(c) ==
  /\ conn[c].pc # "off" /\ Undisturbed
  /\ \E n \in 0..Len(conn[c].got) :
       last' = IF n = 0 THEN last ELSE [last EXCEPT ![c] = conn[c].got[n]]
  /\ conn' = [conn EXCEPT ![c] = Off]
  /\ UNCHANGED <<stamp, saving, saved, stored, memory>>

\* Calls of publish_event, connections and the fallback list go with the process.
Restart ==
  /\ MayRestart
  /\ saving' = {} /\ saved' = {} /\ memory' = {}
  /\ conn' = [c \in Client |-> Off]
  /\ UNCHANGED <<stamp, stored, last>>

-----------------------------------------------------------------------------
Next ==
  \/ \E e \in Event : Publish(e) \/ Save(e) \/ FanOut(e)
  \/ \E c \in Client : Open(c) \/ Resume(c) \/ Take(c) \/ CatchUp(c) \/ Disconnect(c)
  \/ Restart

Spec == Init /\ [][Next]_vars

\* The generator is run by the event loop; a connection that hears nothing for fifteen
\* seconds queries, and Firestore does not fail for ever.
Fairness ==
  \A c \in Client : /\ WF_vars(Resume(c)) /\ WF_vars(Take(c)) /\ WF_vars(CatchUp(c))
                    /\ SF_vars(Answered(c))

FairSpec == Spec /\ Fairness

-----------------------------------------------------------------------------
(* Properties                                                              *)

\* A connection is told no event twice, though replay, queue and catch-up overlap
\* (seen_event_ids).
ToldOnce == \A c \in Client : IsInjective(conn[c].got)

\* Events that were stored from the cursor on when a connection opened and the query was
\* answered in full, and those put to the queues while it was subscribed, are told or on
\* their way: replay, queue and catch-up together drop only what falls between a query and
\* the subscription.
OwedIsTold ==
  \A c \in Client :
    conn[c].owed \subseteq
      ToSet(conn[c].got) \cup ToSet(conn[c].batch) \cup ToSet(conn[c].queue) \cup {conn[c].start}

\* The last event of all (a run's end, say) reaches every connection that stays, even
\* when it falls between replay and subscription: nothing can move the cursor past it.
LastEventArrives ==
  \A c \in Client :
    (MaxEvent \in stored /\ conn[c].pc # "off")
      ~> (MaxEvent \in ToSet(conn[c].got) \cup {conn[c].start} \/ conn[c].pc = "off")
=============================================================================
