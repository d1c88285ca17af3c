---------------------------- MODULE ScheduleClaim ----------------------------
(***************************************************************************)
(* Scheduled automations: the schedules of automation/schedule_service.py  *)
(* and the loops of api/browser/schedule_runner.py that claim and execute  *)
(* them, one in every backend process (the default) or in workers of their *)
(* own.                                                                    *)
(*                                                                         *)
(* With Firestore: a step is a query, a transaction, a get or a set, with  *)
(* the code behind it.  The run a schedule starts is the time between its  *)
(* claim and the get of mark_automation_schedule_after_run.                *)
(***************************************************************************)
EXTENDS Naturals, Sequences, FiniteSets, SequencesExt

CONSTANTS
  Worker,     \* scheduler loops; a process that starts again is another one
  Schedule,
  Period,     \* interval_seconds, in ticks of the clock
  ClaimTtl,   \* automation_scheduler_claim_ttl_seconds
  MaxTime,    \* bound: the clock stops here
  Punctual,   \* does a worker end what it claimed before the claim expires?
  MayFail,    \* may Firestore calls fail or time out?
  MayCrash,   \* may a worker die, or be cancelled by stop_scheduler?
  MayDelete,  \* do users delete schedules?
  NoTime, NoWorker

Time == 0..MaxTime

ASSUME TimeAssumption ==
  /\ MaxTime \in Nat /\ Period \in Nat \ {0} /\ ClaimTtl \in Nat \ {0}
  /\ NoTime \notin Nat
ASSUME ScheduleAssumption == IsFiniteSet(Schedule)
ASSUME WorkerAssumption == NoWorker \notin Worker
ASSUME FlagAssumption == {Punctual, MayFail, MayCrash, MayDelete} \subseteq BOOLEAN

VARIABLES
  now,      \* the clock
  row,      \* the stored schedules
  worker,   \* where each loop stands
  fired,    \* history: the schedules and times whose execution was marked
  refired   \* history: those among them whose execution began again

vars == <<now, row, worker, fired, refired>>

\* Never created, or deleted.
Absent  == [status |-> "absent"]
Deleted == [status |-> "deleted"]

\* enabled is left out: it is false only where next is NoTime.
Row ==
  [status : {"scheduled", "claimed", "completed", "failed"},
   whole : BOOLEAN,                 \* are the fields of its creation there?
   mode : {"once", "multi_time", "interval"},
   runAt : SUBSET Time,
   next : Nat \cup {NoTime},        \* next_run_at
   by : Worker \cup {NoWorker},     \* claimed_by
   expires : Nat]                   \* claim_expires_at, 0 for None

Stored(s) == row[s] \notin {Absent, Deleted}

Idle == [pc |-> "list", todo |-> <<>>, expires |-> 0, next |-> NoTime]

Loop ==
  [pc : {"list", "claim", "execute", "save", "down"},
   todo : Seq(Schedule),      \* what is left of the listing, the schedule at hand first
   expires : Nat,             \* the expiry it claims with
   next : Nat \cup {NoTime}]  \* the next_run_at it is about to save

TypeOK ==
  /\ now \in Time
  /\ row \in [Schedule -> Row \cup {Absent, Deleted}]
  /\ worker \in [Worker -> Loop]
  /\ \A w \in Worker : worker[w].pc \in {"claim", "execute", "save"} <=> worker[w].todo # <<>>
  /\ fired \subseteq Schedule \X (Nat \cup {NoTime}) /\ refired \subseteq fired

Init ==
  /\ now = 0
  /\ row = [s \in Schedule |-> Absent]
  /\ worker = [w \in Worker |-> Idle]
  /\ fired = {} /\ refired = {}

-----------------------------------------------------------------------------
(* _compute_next_run                                                       *)

Earliest(T) == IF T = {} THEN NoTime ELSE CHOOSE t \in T : \A u \in T : t <= u

\* multi_time starts with its first time even when that is over.
FirstRun(mode, runAt) ==
  CASE mode = "once" -> Earliest({t \in runAt : t > now})
    [] mode = "multi_time" -> Earliest(runAt)
    [] mode = "interval" -> now + Period

\* Mutant: the time that has just fired is still the next one.
NextRunSame(mode, runAt) ==
  IF mode = "interval" THEN now + Period ELSE Earliest({t \in runAt : t >= now})

\* After a run; what fell due while it was executing is passed over.
NextRun(mode, runAt) ==
  IF mode = "interval" THEN now + Period ELSE Earliest({t \in runAt : t > now})

-----------------------------------------------------------------------------
(* Users                                                                   *)

CreateSchedule(s) ==
  /\ row[s] = Absent
  /\ \E mode \in {"once", "multi_time", "interval"}, runAt \in SUBSET Time :
       /\ (mode = "interval") = (runAt = {})
       /\ row' = [row EXCEPT ![s] = [status |-> "scheduled", whole |-> TRUE, mode |-> mode,
                                     runAt |-> runAt, next |-> FirstRun(mode, runAt),
                                     by |-> NoWorker, expires |-> 0]]
  /\ UNCHANGED <<now, worker, fired, refired>>

\* A row without its user_id is nobody's to delete.
DeleteSchedule(s) ==
  /\ MayDelete
  /\ Stored(s) /\ row[s].whole
  /\ row' = [row EXCEPT ![s] = Deleted]
  /\ UNCHANGED <<now, worker, fired, refired>>

-----------------------------------------------------------------------------
(* The loop of one worker                                                  *)

At(w, pc) == worker[w].pc = pc
Hand(w) == Head(worker[w].todo)

\* Mutant: the end of the listing is overlooked.
TurnAlways(w, todo) ==
  worker' = [worker EXCEPT ![w] = [Idle EXCEPT !.pc = "claim", !.todo = todo,
                                               !.expires = now + ClaimTtl]]

\* The next schedule of the listing is claimed until ClaimTtl from now on.
Turn(w, todo) ==
  worker' = [worker EXCEPT ![w] =
               IF todo = <<>> THEN Idle
               ELSE [Idle EXCEPT !.pc = "claim", !.todo = todo, !.expires = now + ClaimTtl]]

Reached(s) == Stored(s) /\ row[s].next # NoTime /\ row[s].next <= now

Due(s) ==
  /\ Reached(s)
  /\ row[s].status = "scheduled" \/ (row[s].status = "claimed" /\ row[s].expires <= now)

\* Mutant: the schedules of a worker that died are not listed.
ListedUnclaimed == {s \in Schedule : Reached(s) /\ row[s].status = "scheduled"}

Listed == {s \in Schedule : Due(s)}

\* list_due_automation_schedules: a row that is not whole fails the whole listing, and the
\* fallback knows no schedule.
ListDue(w) ==
  /\ At(w, "list")
  /\ \A s \in Schedule : Reached(s) => row[s].whole
  /\ \E todo \in SetToSeqs(Listed) :
       /\ todo # <<>>
       /\ \A i, j \in DOMAIN todo : i < j => row[todo[i]].next <= row[todo[j]].next
       /\ Turn(w, todo)
  /\ UNCHANGED <<now, row, fired, refired>>

\* Mutant: a claim is taken from the worker that holds it.
ClaimableByAnyone(w, s) == Reached(s)

\* The row is read again: the listing may be old.
Claimable(w, s) ==
  /\ Reached(s)
  /\ ~(row[s].status = "claimed" /\ row[s].expires > now /\ row[s].by # w)

\* Mutant: a claim that is taken over keeps its old expiry.
ClaimedUnextended(w, s) ==
  [row EXCEPT ![s].status = "claimed", ![s].by = w,
              ![s].expires = IF @ = 0 THEN worker[w].expires ELSE @]

Claimed(w, s) ==
  [row EXCEPT ![s].status = "claimed", ![s].by = w, ![s].expires = worker[w].expires]

\* The claimed row is validated before its run is created and executed.
Claim(w) ==
  LET s == Hand(w) IN
  /\ At(w, "claim")
  /\ Claimable(w, s)
  /\ row' = Claimed(w, s)
  /\ IF row[s].whole
     THEN /\ worker' = [worker EXCEPT ![w].pc = "execute"]
          /\ refired' = refired \cup ({<<s, row[s].next>>} \cap fired)
     ELSE Turn(w, Tail(worker[w].todo)) /\ UNCHANGED refired
  /\ UNCHANGED <<now, fired>>

ClaimRefused(w) ==
  /\ At(w, "claim")
  /\ ~Claimable(w, Hand(w))
  /\ Turn(w, Tail(worker[w].todo))
  /\ UNCHANGED <<now, row, fired, refired>>

\* The worker hears of no claim, whether it was committed or not.
ClaimFails(w) ==
  /\ MayFail
  /\ At(w, "claim")
  /\ row' = row \/ (Claimable(w, Hand(w)) /\ row' = Claimed(w, Hand(w)))
  /\ Turn(w, Tail(worker[w].todo))
  /\ UNCHANGED <<now, fired, refired>>

\* The run is over, well or not, and the row is read: a row that is not whole has no mode
\* and no times.
Executed(w) ==
  LET s == Hand(w) IN
  /\ At(w, "execute")
  /\ IF Stored(s)
     THEN worker' = [worker EXCEPT ![w].pc = "save",
                       ![w].next = IF row[s].whole THEN NextRun(row[s].mode, row[s].runAt)
                                                   ELSE NoTime]
     ELSE Turn(w, Tail(worker[w].todo))
  /\ UNCHANGED <<now, row, fired, refired>>

\* set(merge=True) asks neither for the row nor for the claim.
Saved(s, next, status) ==
  [row EXCEPT ![s] = [status |-> status, next |-> next, by |-> NoWorker, expires |-> 0,
                      whole |-> Stored(s) /\ row[s].whole,
                      mode |-> IF Stored(s) THEN row[s].mode ELSE "once",
                      runAt |-> IF Stored(s) THEN row[s].runAt ELSE {}]]

\* The set of what the run's end makes of the schedule.
Mark(w) ==
  LET s == Hand(w) next == worker[w].next IN
  /\ \E status \in IF next = NoTime THEN {"completed", "failed"} ELSE {"scheduled"} :
       row' = Saved(s, next, status)
  /\ fired' = IF Stored(s) THEN fired \cup {<<s, row[s].next>>} ELSE fired

MarkAfterRun(w) ==
  /\ At(w, "save")
  /\ Mark(w)
  /\ Turn(w, Tail(worker[w].todo))
  /\ UNCHANGED <<now, refired>>

\* The get or the set fails, though the set may have arrived: the fallback knows no such
\* schedule.
MarkFails(w) ==
  /\ MayFail
  /\ \/ At(w, "execute") /\ UNCHANGED <<row, fired>>
     \/ At(w, "save") /\ (UNCHANGED <<row, fired>> \/ Mark(w))
  /\ Turn(w, Tail(worker[w].todo))
  /\ UNCHANGED <<now, refired>>

Crash(w) ==
  /\ MayCrash
  /\ ~At(w, "down")
  /\ worker' = [worker EXCEPT ![w] = [Idle EXCEPT !.pc = "down"]]
  /\ UNCHANGED <<now, row, fired, refired>>

-----------------------------------------------------------------------------
\* A worker with a schedule at hand has still time to end it.
InTime(w) == At(w, "claim") \/ At(w, "execute") \/ At(w, "save") => now + 1 < worker[w].expires

Tick ==
  /\ now < MaxTime
  /\ Punctual => \A w \in Worker : InTime(w)
  /\ now' = now + 1
  /\ UNCHANGED <<row, worker, fired, refired>>

Proceed(w) == ListDue(w) \/ Claim(w) \/ ClaimRefused(w) \/ Executed(w) \/ MarkAfterRun(w)

Next ==
  \/ \E s \in Schedule : CreateSchedule(s) \/ DeleteSchedule(s)
  \/ \E w \in Worker : Proceed(w) \/ ClaimFails(w) \/ MarkFails(w) \/ Crash(w)
  \/ Tick

Spec == Init /\ [][Next]_vars

\* Runs end, loops go on, and a claim does not fail for ever.
FairSpec == Spec /\ \A w \in Worker : WF_vars(Proceed(w)) /\ SF_vars(Claim(w))

-----------------------------------------------------------------------------
(* Properties                                                              *)

Executing(w) == At(w, "execute") \/ At(w, "save")

\* No two workers execute one schedule at the same time, whatever fails or dies, as long as
\* a worker ends before its claim expires (the claim names its worker and expires).
ClaimedAlone ==
  \A v, w \in Worker : v # w /\ Executing(v) /\ Executing(w) => Hand(v) # Hand(w)

\* While a worker executes a schedule its claim stands in the row and has not expired,
\* unless the schedule was deleted (no listing, claim or late mark of another takes it).
ClaimStands ==
  \A w \in Worker :
    Executing(w) =>
      LET r == row[Hand(w)] IN
      /\ now < worker[w].expires
      /\ r \in Row /\ r.whole
           => r.status = "claimed" /\ r.by = w /\ r.expires = worker[w].expires
      /\ r # Absent

\* A time whose run was marked does not fire again, though listings are old when they are
\* acted on (claim_automation_schedule reads next_run_at again) and sets arrive late.
FiresOnce == refired = {}

\* A schedule that is due does not stay due as long as a worker lives, also one whose
\* worker died with the claim ("scheduler lists due automation schedules").
DueIsClaimed ==
  \A s \in Schedule :
    (Due(s) /\ row[s].whole) ~> (~Due(s) \/ \A w \in Worker : At(w, "down"))
=============================================================================
