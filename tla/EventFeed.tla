----------------------------- MODULE EventFeed -----------------------------
(***************************************************************************)
(* What the automation runtime promises to the readers of a run's events   *)
(* (GET /runs/{id}/events?after=...): a run's log only grows, and a reader *)
(* that starts at some place of it is given every later event, once, in    *)
(* order.                                                                  *)
(***************************************************************************)
EXTENDS Naturals, Sequences

CONSTANTS Run, Client, EventType, NoEvent, NotReading

VARIABLES
  log,   \* the event types of each run, in the order they were emitted
  at,    \* the run a client reads and the number of its next event
  last   \* the last event a client was given

Init ==
  /\ log = [r \in Run |-> <<>>]
  /\ at = [k \in Client |-> NotReading]
  /\ last = [k \in Client |-> NoEvent]

\* A log grows by one event, by two at once, or by none.
Grows(r) == \E n \in 0..2 : \E new \in [1..n -> EventType] : log' = [log EXCEPT ![r] = @ \o new]

Grow(r) == Grows(r) /\ UNCHANGED <<at, last>>

\* A reader's first event is the next one to come, be it emitted in the same step.
Attach(k, r) ==
  /\ at[k] = NotReading
  /\ at' = [at EXCEPT ![k] = [run |-> r, next |-> Len(log[r]) + 1]]
  /\ last' = [last EXCEPT ![k] = NoEvent]
  /\ Grows(r)

Deliver(k) ==
  /\ at[k] # NotReading
  /\ LET r == at[k].run
         n == at[k].next IN
       /\ n <= Len(log[r])
       /\ last' = [last EXCEPT ![k] = [run |-> r, number |-> n, type |-> log[r][n]]]
       /\ at' \in {[at EXCEPT ![k].next = n + 1], [at EXCEPT ![k] = NotReading]}
  /\ UNCHANGED log

Detach(k) ==
  /\ at' = [at EXCEPT ![k] = NotReading]
  /\ last' = [last EXCEPT ![k] = NoEvent]
  /\ UNCHANGED log

Next ==
  \/ \E r \in Run : Grow(r)
  \/ \E k \in Client : Deliver(k) \/ Detach(k) \/ \E r \in Run : Attach(k, r)

Spec == Init /\ [][Next]_<<log, at, last>>
=============================================================================
