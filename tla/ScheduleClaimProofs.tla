-------------------------- MODULE ScheduleClaimProofs --------------------------
(***************************************************************************)
(* Theorems about ScheduleClaim for any workers, schedules, periods and    *)
(* bounds.                                                                 *)
(***************************************************************************)
EXTENDS ScheduleClaim, FiniteSetTheorems, SequenceTheorems, NaturalsInduction,
        WellFoundedInduction, TLAPS

\* A row that is missing is none of the rows.
LEMMA MissingIsNoRow == Absent \notin Row /\ Deleted \notin Row /\ Absent # Deleted
<1>1. \A r \in Row : DOMAIN r = {"status", "whole", "mode", "runAt", "next", "by", "expires"}
  BY DEF Row
<1>2. DOMAIN Absent = {"status"} /\ DOMAIN Deleted = {"status"}
  BY DEF Absent, Deleted
<1>3. {"status"} # {"status", "whole", "mode", "runAt", "next", "by", "expires"}
  OBVIOUS
<1>4. Absent # Deleted
  BY DEF Absent, Deleted
<1> QED BY <1>1, <1>2, <1>3, <1>4

LEMMA StoredIsRow ==
  ASSUME TypeOK, NEW s \in Schedule, Stored(s)
  PROVE  row[s] \in Row
BY DEF TypeOK, Stored

LEMMA EarliestType ==
  ASSUME NEW T \in SUBSET Time
  PROVE  Earliest(T) \in Nat \cup {NoTime}
<1>1. CASE T = {}
  BY <1>1 DEF Earliest
<1>2. CASE T # {}
  <2>1. T \subseteq Nat
    BY TimeAssumption DEF Time
  <2>2. PICK x \in T : \A y \in T : ~(<<y, x>> \in OpToRel(<, Nat))
    BY <1>2, <2>1, NatLessThanWellFounded, WFMin
  <2>3. \A y \in T : x <= y
    <3>1. TAKE y \in T
    <3>2. <<y, x>> \in Nat \X Nat
      BY <2>1
    <3>3. ~(y < x)
      BY <2>2, <3>2 DEF OpToRel
    <3> QED BY <2>1, <3>1, <3>3
  <2> QED BY <1>2, <2>1, <2>3 DEF Earliest
<1> QED BY <1>1, <1>2

LEMMA NextRunType ==
  ASSUME now \in Time, NEW mode \in {"once", "multi_time", "interval"}, NEW runAt \in SUBSET Time
  PROVE  FirstRun(mode, runAt) \in Nat \cup {NoTime} /\ NextRun(mode, runAt) \in Nat \cup {NoTime}
<1>1. now + Period \in Nat
  BY TimeAssumption DEF Time
<1>2. Earliest(runAt) \in Nat \cup {NoTime}
      /\ Earliest({t \in runAt : t > now}) \in Nat \cup {NoTime}
  BY EarliestType
<1> QED BY <1>1, <1>2 DEF FirstRun, NextRun

\* A loop that turns to the rest of a listing stays a loop.
LEMMA TurnType ==
  ASSUME TypeOK, NEW w \in Worker, NEW todo \in Seq(Schedule), Turn(w, todo)
  PROVE  /\ worker' \in [Worker -> Loop]
         /\ \A v \in Worker :
              worker'[v].pc \in {"claim", "execute", "save"} <=> worker'[v].todo # <<>>
<1> DEFINE turned == IF todo = <<>> THEN Idle
                     ELSE [Idle EXCEPT !.pc = "claim", !.todo = todo, !.expires = now + ClaimTtl]
<1>1. now + ClaimTtl \in Nat
  BY TimeAssumption DEF TypeOK, Time
<1>2. <<>> \in Seq(Schedule)
  BY EmptySeq
<1>3. turned \in Loop /\ (turned.pc \in {"claim", "execute", "save"} <=> turned.todo # <<>>)
  BY <1>1, <1>2 DEF Idle, Loop
<1>4. worker' = [worker EXCEPT ![w] = turned]
  BY DEF Turn
<1> HIDE DEF turned
<1> QED BY <1>3, <1>4 DEF TypeOK

\* The schedule at hand, and the rest behind it.
LEMMA AtHand ==
  ASSUME TypeOK, NEW w \in Worker, worker[w].pc \in {"claim", "execute", "save"}
  PROVE  Hand(w) \in Schedule /\ Tail(worker[w].todo) \in Seq(Schedule)
<1>1. worker[w].todo \in Seq(Schedule) /\ worker[w].todo # <<>>
  BY DEF TypeOK, Loop
<1> QED BY <1>1, HeadTailProperties DEF Hand

LEMMA ListedType ==
  ASSUME NEW todo \in SetToSeqs(Listed)
  PROVE  todo \in Seq(Schedule)
<1>1. IsFiniteSet(Listed) /\ Listed \subseteq Schedule
  BY ScheduleAssumption, FS_Subset DEF Listed
<1>2. Cardinality(Listed) \in Nat
  BY <1>1, FS_CardinalityType
<1>3. todo \in [1..Cardinality(Listed) -> Listed]
  BY DEF SetToSeqs
<1>4. todo \in [1..Cardinality(Listed) -> Schedule]
  BY <1>1, <1>3
<1> QED BY <1>2, <1>4, SeqDef

LEMMA ClaimedType ==
  ASSUME TypeOK, NEW w \in Worker, NEW s \in Schedule, Reached(s)
  PROVE  /\ Claimed(w, s) \in [Schedule -> Row \cup {Absent, Deleted}]
         /\ row[s] \in Row /\ row[s].next \in Nat
<1>1. row[s] \in Row
  BY StoredIsRow DEF Reached
<1>2. worker[w].expires \in Nat
  BY DEF TypeOK, Loop
<1>3. [row[s] EXCEPT !.status = "claimed", !.by = w, !.expires = worker[w].expires] \in Row
  BY <1>1, <1>2 DEF Row
<1>4. Claimed(w, s) = [row EXCEPT ![s] = [row[s] EXCEPT !.status = "claimed", !.by = w,
                                                         !.expires = worker[w].expires]]
  BY <1>1 DEF Claimed, TypeOK, Row
<1>5. row[s].next \in Nat
  BY <1>1 DEF Reached, Row
<1> QED BY <1>1, <1>3, <1>4, <1>5 DEF TypeOK

LEMMA SavedType ==
  ASSUME TypeOK, NEW s \in Schedule, NEW next \in Nat \cup {NoTime},
         NEW status \in {"scheduled", "completed", "failed"}
  PROVE  Saved(s, next, status) \in [Schedule -> Row \cup {Absent, Deleted}]
<1>1. Stored(s) => row[s] \in Row
  BY StoredIsRow
<1> DEFINE saved == [status |-> status, next |-> next, by |-> NoWorker, expires |-> 0,
                     whole |-> Stored(s) /\ row[s].whole,
                     mode |-> IF Stored(s) THEN row[s].mode ELSE "once",
                     runAt |-> IF Stored(s) THEN row[s].runAt ELSE {}]
<1>2. saved.whole \in BOOLEAN
  BY <1>1 DEF Row
<1>3. saved.mode \in {"once", "multi_time", "interval"} /\ saved.runAt \in SUBSET Time
  BY <1>1 DEF Row
<1>4. saved \in Row
  BY <1>2, <1>3 DEF Row
<1>5. Saved(s, next, status) = [row EXCEPT ![s] = saved]
  BY DEF Saved
<1> HIDE DEF saved
<1> QED BY <1>4, <1>5 DEF TypeOK

\* A mark that arrives, be it heard of or not.
LEMMA MarkType ==
  ASSUME TypeOK, NEW w \in Worker, At(w, "save"), Mark(w), now' = now, refired' = refired,
         Turn(w, Tail(worker[w].todo))
  PROVE  TypeOK'
<1>1. Hand(w) \in Schedule /\ Tail(worker[w].todo) \in Seq(Schedule)
  BY AtHand DEF At
<1>2. worker[w].next \in Nat \cup {NoTime}
  BY DEF TypeOK, Loop
<1>3. row' \in [Schedule -> Row \cup {Absent, Deleted}]
  <2>1. PICK status \in {"scheduled", "completed", "failed"} :
          row' = Saved(Hand(w), worker[w].next, status)
    BY DEF Mark
  <2> QED BY <1>1, <1>2, <2>1, SavedType
<1>4. Stored(Hand(w)) => row[Hand(w)].next \in Nat \cup {NoTime}
  BY <1>1, StoredIsRow DEF Row
<1>5. fired' \subseteq Schedule \X (Nat \cup {NoTime}) /\ refired' \subseteq fired'
  BY <1>1, <1>4 DEF Mark, TypeOK
<1> QED BY <1>1, <1>3, <1>5, TurnType DEF TypeOK

LEMMA TypeStep ==
  ASSUME TypeOK, [Next]_vars
  PROVE  TypeOK'
<1>1. CASE UNCHANGED vars
  BY <1>1 DEF TypeOK, vars
<1>2. ASSUME NEW s \in Schedule, CreateSchedule(s)
      PROVE  TypeOK'
  <2>1. PICK mode \in {"once", "multi_time", "interval"}, runAt \in SUBSET Time :
          row' = [row EXCEPT ![s] = [status |-> "scheduled", whole |-> TRUE, mode |-> mode,
                                     runAt |-> runAt, next |-> FirstRun(mode, runAt),
                                     by |-> NoWorker, expires |-> 0]]
    BY <1>2 DEF CreateSchedule
  <2>2. FirstRun(mode, runAt) \in Nat \cup {NoTime}
    BY NextRunType DEF TypeOK
  <2>3. [status |-> "scheduled", whole |-> TRUE, mode |-> mode, runAt |-> runAt,
         next |-> FirstRun(mode, runAt), by |-> NoWorker, expires |-> 0] \in Row
    BY <2>2 DEF Row
  <2>4. row' \in [Schedule -> Row \cup {Absent, Deleted}]
    BY <2>1, <2>3 DEF TypeOK
  <2> QED BY <1>2, <2>4 DEF CreateSchedule, TypeOK
<1>3. ASSUME NEW s \in Schedule, DeleteSchedule(s)
      PROVE  TypeOK'
  BY <1>3 DEF DeleteSchedule, TypeOK
<1>4. ASSUME NEW w \in Worker, ListDue(w)
      PROVE  TypeOK'
  <2>1. PICK todo \in SetToSeqs(Listed) : Turn(w, todo)
    BY <1>4 DEF ListDue
  <2>2. todo \in Seq(Schedule)
    BY ListedType
  <2> QED BY <1>4, <2>1, <2>2, TurnType DEF ListDue, TypeOK
<1>5. ASSUME NEW w \in Worker, Claim(w)
      PROVE  TypeOK'
  <2>1. Hand(w) \in Schedule /\ Tail(worker[w].todo) \in Seq(Schedule)
    BY <1>5, AtHand DEF Claim, At
  <2>2. Reached(Hand(w))
    BY <1>5 DEF Claim, Claimable
  <2>3. /\ row' \in [Schedule -> Row \cup {Absent, Deleted}]
        /\ row[Hand(w)].next \in Nat
    BY <1>5, <2>1, <2>2, ClaimedType DEF Claim
  <2>4. CASE row[Hand(w)].whole
    <3>1. worker' = [worker EXCEPT ![w].pc = "execute"]
      BY <1>5, <2>4 DEF Claim
    <3>2. worker' \in [Worker -> Loop]
      BY <3>1 DEF TypeOK, Loop
    <3>3. \A v \in Worker :
            worker'[v].pc \in {"claim", "execute", "save"} <=> worker'[v].todo # <<>>
      BY <1>5, <3>1 DEF Claim, At, TypeOK, Loop
    <3>4. fired' \subseteq Schedule \X (Nat \cup {NoTime}) /\ refired' \subseteq fired'
      BY <1>5, <2>4 DEF Claim, TypeOK
    <3> QED BY <1>5, <2>3, <3>2, <3>3, <3>4 DEF Claim, TypeOK
  <2>5. CASE ~row[Hand(w)].whole
    <3>1. Turn(w, Tail(worker[w].todo)) /\ UNCHANGED <<fired, refired>>
      BY <1>5, <2>5 DEF Claim
    <3> QED BY <1>5, <2>1, <2>3, <3>1, TurnType DEF Claim, TypeOK
  <2> QED BY <2>4, <2>5
<1>6. ASSUME NEW w \in Worker, ClaimRefused(w)
      PROVE  TypeOK'
  <2>1. Tail(worker[w].todo) \in Seq(Schedule)
    BY <1>6, AtHand DEF ClaimRefused, At
  <2> QED BY <1>6, <2>1, TurnType DEF ClaimRefused, TypeOK
<1>7. ASSUME NEW w \in Worker, ClaimFails(w)
      PROVE  TypeOK'
  <2>1. Hand(w) \in Schedule /\ Tail(worker[w].todo) \in Seq(Schedule)
    BY <1>7, AtHand DEF ClaimFails, At
  <2>2. row' \in [Schedule -> Row \cup {Absent, Deleted}]
    BY <1>7, <2>1, ClaimedType DEF ClaimFails, Claimable, TypeOK
  <2> QED BY <1>7, <2>1, <2>2, TurnType DEF ClaimFails, TypeOK
<1>8. ASSUME NEW w \in Worker, Executed(w)
      PROVE  TypeOK'
  <2>1. Hand(w) \in Schedule /\ Tail(worker[w].todo) \in Seq(Schedule)
    BY <1>8, AtHand DEF Executed, At
  <2>2. CASE Stored(Hand(w))
    <3> DEFINE next == IF row[Hand(w)].whole
                       THEN NextRun(row[Hand(w)].mode, row[Hand(w)].runAt) ELSE NoTime
    <3>1. row[Hand(w)] \in Row
      BY <2>1, <2>2, StoredIsRow
    <3>2. row[Hand(w)].mode \in {"once", "multi_time", "interval"}
          /\ row[Hand(w)].runAt \in SUBSET Time
      BY <3>1 DEF Row
    <3>3. next \in Nat \cup {NoTime}
      BY <3>2, NextRunType DEF TypeOK
    <3>4. worker' = [worker EXCEPT ![w].pc = "save", ![w].next = next]
      BY <1>8, <2>2 DEF Executed
    <3> HIDE DEF next
    <3>5. worker' \in [Worker -> Loop]
      BY ZenonT(40), <3>3, <3>4 DEF TypeOK, Loop
    <3>6. \A v \in Worker :
            worker'[v].pc \in {"claim", "execute", "save"} <=> worker'[v].todo # <<>>
      BY <1>8, <3>4 DEF Executed, At, TypeOK, Loop
    <3> QED BY <1>8, <3>5, <3>6 DEF Executed, TypeOK
  <2>3. CASE ~Stored(Hand(w))
    <3>1. Turn(w, Tail(worker[w].todo))
      BY <1>8, <2>3 DEF Executed
    <3> QED BY <1>8, <2>1, <3>1, TurnType DEF Executed, TypeOK
  <2> QED BY <2>2, <2>3
<1>9. ASSUME NEW w \in Worker, MarkAfterRun(w)
      PROVE  TypeOK'
  BY <1>9, MarkType DEF MarkAfterRun
<1>10. ASSUME NEW w \in Worker, MarkFails(w)
       PROVE  TypeOK'
  <2>1. Tail(worker[w].todo) \in Seq(Schedule)
    BY <1>10, AtHand DEF MarkFails, At
  <2>2. CASE UNCHANGED <<row, fired>>
    BY <1>10, <2>1, <2>2, TurnType DEF MarkFails, TypeOK
  <2>3. CASE At(w, "save") /\ Mark(w)
    BY <1>10, <2>3, MarkType DEF MarkFails
  <2> QED BY <1>10, <2>2, <2>3 DEF MarkFails
<1>11. ASSUME NEW w \in Worker, Crash(w)
       PROVE  TypeOK'
  <2>1. [Idle EXCEPT !.pc = "down"] \in Loop
    BY EmptySeq DEF Idle, Loop
  <2> QED BY <1>11, <2>1 DEF Crash, Idle, TypeOK
<1>12. CASE Tick
  BY <1>12, TimeAssumption DEF Tick, TypeOK, Time
<1> QED
  BY <1>1, <1>2, <1>3, <1>4, <1>5, <1>6, <1>7, <1>8, <1>9, <1>10, <1>11, <1>12 DEF Next, Proceed

\* Every stored row and every loop is well formed, whatever fails or dies.
THEOREM ScheduleTypeCorrect == Spec => []TypeOK
<1>1. Init => TypeOK
  BY EmptySeq, TimeAssumption DEF Init, TypeOK, Idle, Loop, Time
<1>2. TypeOK /\ [Next]_vars => TypeOK'
  BY TypeStep
<1> QED BY <1>1, <1>2, PTL DEF Spec
-----------------------------------------------------------------------------
(* One loop at a time.  ClaimedAlone alone says nothing of the stored row  *)
(* the next claim reads; ClaimStands does, and NotLate keeps the claim a   *)
(* loop is about to make, or has made, from having expired.                *)

Busy(w) == worker[w].pc \in {"claim", "execute", "save"}

NotLate == \A w \in Worker : Busy(w) => now < worker[w].expires

ClaimInv == TypeOK /\ NotLate /\ ClaimStands /\ ClaimedAlone

\* What another loop executes cannot be claimed, unless its row lost its fields.
LEMMA HeldIsNotClaimable ==
  ASSUME ClaimInv, NEW v \in Worker, NEW w \in Worker \ {v}, Executing(v),
         Claimable(w, Hand(v))
  PROVE  ~row[Hand(v)].whole
<1>1. Hand(v) \in Schedule
  BY AtHand DEF ClaimInv, Executing, At
<1>2. row[Hand(v)] \in Row
  BY <1>1, StoredIsRow DEF ClaimInv, Claimable, Reached
<1>3. now < worker[v].expires
  BY DEF ClaimInv, ClaimStands
<1>4. SUFFICES ASSUME row[Hand(v)].whole
               PROVE  FALSE
  OBVIOUS
<1>5. /\ row[Hand(v)].status = "claimed" /\ row[Hand(v)].by = v
      /\ row[Hand(v)].expires = worker[v].expires
  BY <1>2, <1>4 DEF ClaimInv, ClaimStands
<1>6. row[Hand(v)].expires > now
  BY <1>2, <1>3, <1>5 DEF Row, ClaimInv, TypeOK, Time
<1> QED BY <1>5, <1>6 DEF Claimable

\* A loop that turns to the rest of its listing executes nothing and is in time; the
\* others stand where they stood.
LEMMA TurnsAway ==
  ASSUME TypeOK, NEW w \in Worker, NEW todo \in Seq(Schedule), Turn(w, todo)
  PROVE  /\ ~Executing(w)'
         /\ Busy(w)' => now < worker'[w].expires
         /\ \A v \in Worker \ {w} : worker'[v] = worker[v]
<1> DEFINE turned == IF todo = <<>> THEN Idle
                     ELSE [Idle EXCEPT !.pc = "claim", !.todo = todo, !.expires = now + ClaimTtl]
<1>1. worker' = [worker EXCEPT ![w] = turned]
  BY DEF Turn
<1>2. turned.pc \in {"list", "claim"} /\ (turned.pc = "claim" => turned.expires = now + ClaimTtl)
  BY DEF Idle
<1>3. now < now + ClaimTtl
  BY TimeAssumption DEF TypeOK, Time
<1> HIDE DEF turned
<1>4. worker'[w] = turned /\ \A v \in Worker \ {w} : worker'[v] = worker[v]
  BY <1>1 DEF TypeOK
<1> QED BY <1>2, <1>3, <1>4 DEF Executing, Busy, At
\* One loop leaves its schedule; the rows the others execute are as they were, or have
\* lost their fields, or are gone.
LEMMA OneLeaves ==
  ASSUME ClaimInv, NEW w \in Worker, now' = now,
         ~Executing(w)',
         Busy(w)' => now < worker'[w].expires,
         \A v \in Worker \ {w} : worker'[v] = worker[v],
         \A v \in Worker \ {w} : Executing(v) =>
           \/ row'[Hand(v)] = row[Hand(v)]
           \/ row'[Hand(v)] = Deleted
           \/ row'[Hand(v)] \in Row /\ ~row'[Hand(v)].whole
  PROVE  NotLate' /\ ClaimStands' /\ ClaimedAlone'
<1>1. \A v \in Worker \ {w} : Executing(v)' => Executing(v) /\ Hand(v)' = Hand(v)
  BY DEF Executing, At, Hand
<1>2. NotLate'
  BY DEF NotLate, Busy, ClaimInv
<1>3. ClaimedAlone'
  BY <1>1 DEF ClaimedAlone, ClaimInv
<1>4. ASSUME NEW v \in Worker, Executing(v)'
      PROVE  /\ now' < worker'[v].expires
             /\ row'[Hand(v)'] \in Row /\ row'[Hand(v)'].whole =>
                  /\ row'[Hand(v)'].status = "claimed" /\ row'[Hand(v)'].by = v
                  /\ row'[Hand(v)'].expires = worker'[v].expires
             /\ row'[Hand(v)'] # Absent
  <2>1. v # w /\ Executing(v) /\ Hand(v)' = Hand(v) /\ worker'[v] = worker[v]
    BY <1>1, <1>4
  <2>2. CASE row'[Hand(v)] = row[Hand(v)]
    BY <2>1, <2>2 DEF ClaimInv, ClaimStands
  <2>3. CASE row'[Hand(v)] = Deleted
    BY <2>1, <2>3, MissingIsNoRow DEF ClaimInv, ClaimStands
  <2>4. CASE row'[Hand(v)] \in Row /\ ~row'[Hand(v)].whole
    BY <2>1, <2>4, MissingIsNoRow DEF ClaimInv, ClaimStands
  <2> QED BY <2>1, <2>2, <2>3, <2>4
<1>5. ClaimStands'
  BY <1>4 DEF ClaimStands
<1> QED BY <1>2, <1>3, <1>5

LEMMA ClaimStep ==
  ASSUME ClaimInv, NEW w \in Worker, Claim(w)
  PROVE  NotLate' /\ ClaimStands' /\ ClaimedAlone'
<1> DEFINE s == Hand(w)
<1>1. s \in Schedule /\ Tail(worker[w].todo) \in Seq(Schedule)
  BY AtHand DEF ClaimInv, Claim, At
<1>2. /\ Claimable(w, s) /\ now' = now /\ row' = Claimed(w, s)
  BY DEF Claim
<1>3. row[s] \in Row
  BY <1>1, <1>2, ClaimedType DEF Claimable, ClaimInv
<1>4. row' = [row EXCEPT ![s] = [row[s] EXCEPT !.status = "claimed", !.by = w,
                                               !.expires = worker[w].expires]]
  BY <1>2, <1>3 DEF Claimed, ClaimInv, TypeOK, Row
<1>5. \A v \in Worker \ {w} : Executing(v) /\ Hand(v) = s => ~row[s].whole
  BY <1>2, HeldIsNotClaimable
<1>6. \A t \in Schedule \ {s} : row'[t] = row[t]
  BY <1>4 DEF ClaimInv, TypeOK
<1>7. /\ row'[s] \in Row /\ row'[s].status = "claimed" /\ row'[s].by = w
      /\ row'[s].expires = worker[w].expires /\ row'[s].whole = row[s].whole
  <2>1. worker[w].expires \in Nat
    BY DEF ClaimInv, TypeOK, Loop
  <2> QED BY <1>1, <1>3, <1>4, <2>1 DEF ClaimInv, TypeOK, Row
<1>8. \A v \in Worker : Executing(v) => Hand(v) \in Schedule
  BY AtHand DEF ClaimInv, Executing, At
<1>9. CASE ~row[s].whole
  <2>1. Turn(w, Tail(worker[w].todo))
    BY <1>9 DEF Claim
  <2>2. /\ ~Executing(w)'
        /\ Busy(w)' => now < worker'[w].expires
        /\ \A v \in Worker \ {w} : worker'[v] = worker[v]
    BY <1>1, <2>1, TurnsAway DEF ClaimInv
  <2>3. \A v \in Worker \ {w} : Executing(v) =>
           \/ row'[Hand(v)] = row[Hand(v)]
           \/ row'[Hand(v)] = Deleted
           \/ row'[Hand(v)] \in Row /\ ~row'[Hand(v)].whole
    BY <1>6, <1>7, <1>8, <1>9
  <2> QED BY <1>2, <2>2, <2>3, OneLeaves
<1>10. CASE row[s].whole
  <2>1. worker' = [worker EXCEPT ![w].pc = "execute"]
    BY <1>10 DEF Claim
  <2>2. /\ worker'[w] = [worker[w] EXCEPT !.pc = "execute"]
        /\ \A v \in Worker \ {w} : worker'[v] = worker[v]
    BY <2>1 DEF ClaimInv, TypeOK
  <2>3. worker'[w].todo = worker[w].todo /\ worker'[w].expires = worker[w].expires
    BY <2>2 DEF ClaimInv, TypeOK, Loop
  <2>4. now < worker[w].expires
    BY DEF ClaimInv, NotLate, Busy, Claim, At
  <2>5. NotLate'
    BY <1>2, <2>2, <2>3, <2>4 DEF NotLate, Busy, ClaimInv
  <2>6. Hand(w)' = s /\ \A v \in Worker \ {w} : Executing(v)' => Executing(v) /\ Hand(v)' = Hand(v)
    BY <2>2, <2>3 DEF Executing, At, Hand
  <2>7. \A v \in Worker \ {w} : Executing(v) => Hand(v) # s
    BY <1>5, <1>10
  <2>8. ClaimedAlone'
    BY <2>6, <2>7 DEF ClaimedAlone, ClaimInv
  <2>9. ASSUME NEW v \in Worker, Executing(v)'
        PROVE  /\ now' < worker'[v].expires
               /\ row'[Hand(v)'] \in Row /\ row'[Hand(v)'].whole =>
                    /\ row'[Hand(v)'].status = "claimed" /\ row'[Hand(v)'].by = v
                    /\ row'[Hand(v)'].expires = worker'[v].expires
               /\ row'[Hand(v)'] # Absent
    <3>1. CASE v = w
      BY <1>2, <1>7, <2>3, <2>4, <2>6, <3>1, MissingIsNoRow
    <3>2. CASE v # w
      <4>1. Executing(v) /\ Hand(v)' = Hand(v) /\ worker'[v] = worker[v] /\ Hand(v) # s
        BY <2>2, <2>6, <2>7, <2>9, <3>2
      <4>2. row'[Hand(v)] = row[Hand(v)]
        BY <1>6, <1>8, <4>1
      <4> QED BY <1>2, <4>1, <4>2 DEF ClaimInv, ClaimStands
    <3> QED BY <3>1, <3>2
  <2> QED BY <2>5, <2>8, <2>9 DEF ClaimStands
<1> QED BY <1>9, <1>10
\* A loop that leaves without writing a row.
LEMMA LeavesUnwritten ==
  ASSUME ClaimInv, NEW w \in Worker, NEW todo \in Seq(Schedule), Turn(w, todo),
         UNCHANGED <<now, row>>
  PROVE  NotLate' /\ ClaimStands' /\ ClaimedAlone'
<1>1. /\ ~Executing(w)'
      /\ Busy(w)' => now < worker'[w].expires
      /\ \A v \in Worker \ {w} : worker'[v] = worker[v]
  BY TurnsAway DEF ClaimInv
<1> QED BY <1>1, OneLeaves

\* A mark that arrives touches no row that another loop executes.
LEMMA MarkStep ==
  ASSUME ClaimInv, NEW w \in Worker, At(w, "save"), Mark(w), now' = now,
         Turn(w, Tail(worker[w].todo))
  PROVE  NotLate' /\ ClaimStands' /\ ClaimedAlone'
<1>1. Hand(w) \in Schedule /\ Tail(worker[w].todo) \in Seq(Schedule) /\ Executing(w)
  BY AtHand DEF At, ClaimInv, Executing
<1>2. \A t \in Schedule \ {Hand(w)} : row'[t] = row[t]
  BY DEF Mark, Saved, ClaimInv, TypeOK
<1>3. \A v \in Worker : Executing(v) => Hand(v) \in Schedule
  BY AtHand DEF ClaimInv, Executing, At
<1>4. \A v \in Worker \ {w} : Executing(v) => row'[Hand(v)] = row[Hand(v)]
  BY <1>1, <1>2, <1>3 DEF ClaimInv, ClaimedAlone
<1>5. /\ ~Executing(w)'
      /\ Busy(w)' => now < worker'[w].expires
      /\ \A v \in Worker \ {w} : worker'[v] = worker[v]
  BY <1>1, TurnsAway DEF ClaimInv
<1> QED BY <1>4, <1>5, OneLeaves

LEMMA ClaimInvStep ==
  ASSUME ClaimInv, Punctual, [Next]_vars
  PROVE  ClaimInv'
<1>0. TypeOK'
  BY TypeStep DEF ClaimInv
<1> SUFFICES NotLate' /\ ClaimStands' /\ ClaimedAlone'
  BY <1>0 DEF ClaimInv
<1>a. \A v \in Worker : Executing(v) => Hand(v) \in Schedule
  BY AtHand DEF ClaimInv, Executing, At
<1>1. CASE UNCHANGED vars
  BY <1>1 DEF ClaimInv, NotLate, Busy, ClaimStands, ClaimedAlone, Executing, At, Hand, vars
<1>2. ASSUME NEW s \in Schedule, CreateSchedule(s) \/ DeleteSchedule(s)
      PROVE  NotLate' /\ ClaimStands' /\ ClaimedAlone'
  <2>1. /\ UNCHANGED <<now, worker>>
        /\ row[s] = Absent \/ row'[s] = Deleted
        /\ \A t \in Schedule \ {s} : row'[t] = row[t]
    BY <1>2 DEF CreateSchedule, DeleteSchedule, ClaimInv, TypeOK
  <2>2. \A v \in Worker : Executing(v) => row[Hand(v)] # Absent
    BY DEF ClaimInv, ClaimStands
  <2>3. NotLate' /\ ClaimedAlone'
    BY <2>1 DEF ClaimInv, NotLate, Busy, ClaimedAlone, Executing, At, Hand
  <2>4. ASSUME NEW v \in Worker, Executing(v)'
        PROVE  /\ now' < worker'[v].expires
               /\ row'[Hand(v)'] \in Row /\ row'[Hand(v)'].whole =>
                    /\ row'[Hand(v)'].status = "claimed" /\ row'[Hand(v)'].by = v
                    /\ row'[Hand(v)'].expires = worker'[v].expires
               /\ row'[Hand(v)'] # Absent
    <3>1. Executing(v) /\ Hand(v)' = Hand(v) /\ worker'[v] = worker[v]
      BY <2>1, <2>4 DEF Executing, At, Hand
    <3>2. row'[Hand(v)] = Deleted \/ row'[Hand(v)] = row[Hand(v)]
      BY <1>a, <2>1, <2>2, <3>1
    <3> QED BY <2>1, <3>1, <3>2, MissingIsNoRow DEF ClaimInv, ClaimStands
  <2> QED BY <2>3, <2>4 DEF ClaimStands
<1>3. ASSUME NEW w \in Worker, ListDue(w)
      PROVE  NotLate' /\ ClaimStands' /\ ClaimedAlone'
  <2>1. PICK todo \in SetToSeqs(Listed) : Turn(w, todo)
    BY <1>3 DEF ListDue
  <2> QED BY <1>3, <2>1, ListedType, LeavesUnwritten DEF ListDue
<1>4. ASSUME NEW w \in Worker, ClaimRefused(w)
      PROVE  NotLate' /\ ClaimStands' /\ ClaimedAlone'
  <2>1. Tail(worker[w].todo) \in Seq(Schedule)
    BY <1>4, AtHand DEF ClaimRefused, At, ClaimInv
  <2> QED BY <1>4, <2>1, LeavesUnwritten DEF ClaimRefused
<1>5. ASSUME NEW w \in Worker, ClaimFails(w)
      PROVE  NotLate' /\ ClaimStands' /\ ClaimedAlone'
  <2>1. Hand(w) \in Schedule /\ Tail(worker[w].todo) \in Seq(Schedule)
    BY <1>5, AtHand DEF ClaimFails, At, ClaimInv
  <2>2. CASE row' = row
    BY <1>5, <2>1, <2>2, LeavesUnwritten DEF ClaimFails
  <2>3. CASE Claimable(w, Hand(w)) /\ row' = Claimed(w, Hand(w))
    <3>1. row[Hand(w)] \in Row
      BY <2>1, <2>3, ClaimedType DEF Claimable, ClaimInv
    <3>2. row' = [row EXCEPT ![Hand(w)] = [row[Hand(w)] EXCEPT
                    !.status = "claimed", !.by = w, !.expires = worker[w].expires]]
      BY <2>3, <3>1 DEF Claimed, ClaimInv, TypeOK, Row
    <3>3. worker[w].expires \in Nat
      BY DEF ClaimInv, TypeOK, Loop
    <3>4. row'[Hand(w)] \in Row /\ row'[Hand(w)].whole = row[Hand(w)].whole
      BY <2>1, <3>1, <3>2, <3>3 DEF ClaimInv, TypeOK, Row
    <3>5. \A t \in Schedule \ {Hand(w)} : row'[t] = row[t]
      BY <3>2 DEF ClaimInv, TypeOK
    <3>6. \A v \in Worker \ {w} : Executing(v) /\ Hand(v) = Hand(w) => ~row[Hand(v)].whole
      BY <2>3, HeldIsNotClaimable
    <3>7. \A v \in Worker \ {w} : Executing(v) =>
             \/ row'[Hand(v)] = row[Hand(v)]
             \/ row'[Hand(v)] = Deleted
             \/ row'[Hand(v)] \in Row /\ ~row'[Hand(v)].whole
      BY <1>a, <3>4, <3>5, <3>6
    <3>8. /\ ~Executing(w)'
          /\ Busy(w)' => now < worker'[w].expires
          /\ \A v \in Worker \ {w} : worker'[v] = worker[v]
      BY <1>5, <2>1, TurnsAway DEF ClaimInv, ClaimFails
    <3> QED BY <1>5, <3>7, <3>8, OneLeaves DEF ClaimFails
  <2> QED BY <1>5, <2>2, <2>3 DEF ClaimFails
<1>6. ASSUME NEW w \in Worker, Executed(w)
      PROVE  NotLate' /\ ClaimStands' /\ ClaimedAlone'
  <2>1. Hand(w) \in Schedule /\ Tail(worker[w].todo) \in Seq(Schedule)
    BY <1>6, AtHand DEF Executed, At, ClaimInv
  <2>2. CASE Stored(Hand(w))
    <3>1. PICK next : worker' = [worker EXCEPT ![w].pc = "save", ![w].next = next]
      BY <1>6, <2>2 DEF Executed
    <3>2. \A v \in Worker : /\ worker'[v].todo = worker[v].todo
                            /\ worker'[v].expires = worker[v].expires
                            /\ v # w => worker'[v].pc = worker[v].pc
      BY <3>1 DEF ClaimInv, TypeOK, Loop
    <3>3. \A v \in Worker : (Executing(v)' => Executing(v)) /\ (Busy(v)' => Busy(v)) /\ Hand(v)' = Hand(v)
      BY <1>6, <3>2 DEF Executing, Busy, At, Hand, Executed
    <3>4. UNCHANGED <<now, row>>
      BY <1>6 DEF Executed
    <3> QED BY <3>2, <3>3, <3>4 DEF ClaimInv, NotLate, ClaimStands, ClaimedAlone
  <2>3. CASE ~Stored(Hand(w))
    BY <1>6, <2>1, <2>3, LeavesUnwritten DEF Executed
  <2> QED BY <2>2, <2>3
<1>7. ASSUME NEW w \in Worker, MarkAfterRun(w)
      PROVE  NotLate' /\ ClaimStands' /\ ClaimedAlone'
  BY <1>7, MarkStep DEF MarkAfterRun
<1>8. ASSUME NEW w \in Worker, MarkFails(w)
      PROVE  NotLate' /\ ClaimStands' /\ ClaimedAlone'
  <2>1. Tail(worker[w].todo) \in Seq(Schedule)
    BY <1>8, AtHand DEF MarkFails, At, ClaimInv
  <2>2. CASE row' = row
    BY <1>8, <2>1, <2>2, LeavesUnwritten DEF MarkFails
  <2>3. CASE At(w, "save") /\ Mark(w)
    BY <1>8, <2>3, MarkStep DEF MarkFails
  <2> QED BY <1>8, <2>2, <2>3 DEF MarkFails
<1>9. ASSUME NEW w \in Worker, Crash(w)
      PROVE  NotLate' /\ ClaimStands' /\ ClaimedAlone'
  <2>1. worker'[w].pc = "down" /\ \A v \in Worker \ {w} : worker'[v] = worker[v]
    BY <1>9 DEF Crash, Idle, ClaimInv, TypeOK
  <2> QED BY <1>9, <2>1, OneLeaves DEF Crash, Executing, Busy, At
<1>10. CASE Tick
  <2>1. \A w \in Worker : Busy(w) => now' < worker[w].expires
    BY <1>10 DEF Tick, InTime, Busy, At
  <2>2. UNCHANGED <<row, worker>>
    BY <1>10 DEF Tick
  <2> QED BY <2>1, <2>2
          DEF ClaimInv, NotLate, Busy, ClaimStands, ClaimedAlone, Executing, At, Hand
<1> QED
  BY <1>1, <1>2, <1>3, ClaimStep, <1>4, <1>5, <1>6, <1>7, <1>8, <1>9, <1>10 DEF Next, Proceed

\* While a loop executes a schedule its claim stands, as long as loops are done before
\* their claims expire.
THEOREM ClaimAlwaysStands ==
  ASSUME Punctual
  PROVE  Spec => []ClaimStands
<1>1. Init => ClaimInv
  <2>1. Init => TypeOK
    BY EmptySeq, TimeAssumption DEF Init, TypeOK, Idle, Loop, Time
  <2> QED BY <2>1 DEF Init, ClaimInv, NotLate, Busy, ClaimStands, ClaimedAlone, Executing, At, Idle
<1>2. ClaimInv /\ [Next]_vars => ClaimInv'
  BY ClaimInvStep
<1>3. ClaimInv => ClaimStands
  BY DEF ClaimInv
<1> QED BY <1>1, <1>2, <1>3, PTL DEF Spec

\* Two loops never execute one schedule at the same time, whatever fails, dies or is
\* deleted, as long as loops are done before their claims expire.
THEOREM ClaimIsExclusive ==
  ASSUME Punctual
  PROVE  Spec => []ClaimedAlone
<1>1. Init => ClaimInv
  <2>1. Init => TypeOK
    BY EmptySeq, TimeAssumption DEF Init, TypeOK, Idle, Loop, Time
  <2> QED BY <2>1 DEF Init, ClaimInv, NotLate, Busy, ClaimStands, ClaimedAlone, Executing, At, Idle
<1>2. ClaimInv /\ [Next]_vars => ClaimInv'
  BY ClaimInvStep
<1>3. ClaimInv => ClaimedAlone
  BY DEF ClaimInv
<1> QED BY <1>1, <1>2, <1>3, PTL DEF Spec
-----------------------------------------------------------------------------
(* A time fires once.  FiresOnce says nothing of the times still to come:  *)
(* FiredBehind does, the marked times of a schedule lie before its next    *)
(* one, and HandIsDue says why a mark keeps it so, the time a loop is      *)
(* about to save lies behind the time it executes.                         *)

Live(s) == Stored(s) /\ row[s].whole

FiredBehind ==
  \A s \in Schedule, t \in Nat :
    <<s, t>> \in fired =>
      /\ row[s] # Absent
      /\ Live(s) /\ row[s].next # NoTime => t < row[s].next

DueAtHand(w) ==
  LET r == row[Hand(w)] IN
  Executing(w) /\ Live(Hand(w)) =>
    /\ r.next # NoTime /\ r.next <= now
    /\ At(w, "save") /\ worker[w].next # NoTime => r.next < worker[w].next

HandIsDue == \A w \in Worker : DueAtHand(w)

FireInv == ClaimInv /\ FiredBehind /\ HandIsDue /\ FiresOnce

\* What comes after a run lies in the future.
LEMMA EarliestIsLater ==
  ASSUME NEW T \in SUBSET Time, NEW n \in Nat, \A t \in T : t > n, Earliest(T) # NoTime
  PROVE  Earliest(T) > n
<1>1. T # {}
  BY DEF Earliest
<1>2. T \subseteq Nat
  BY TimeAssumption DEF Time
<1>3. PICK x \in T : \A y \in T : ~(<<y, x>> \in OpToRel(<, Nat))
  BY <1>1, <1>2, NatLessThanWellFounded, WFMin
<1>4. \A y \in T : x <= y
  <2>1. TAKE y \in T
  <2>2. <<y, x>> \in Nat \X Nat
    BY <1>2
  <2>3. ~(y < x)
    BY <1>3, <2>2 DEF OpToRel
  <2> QED BY <1>2, <2>1, <2>3
<1>5. Earliest(T) \in T
  BY <1>1, <1>4 DEF Earliest
<1> QED BY <1>5

LEMMA NextRunIsLater ==
  ASSUME now \in Time, NEW mode, NEW runAt \in SUBSET Time, NextRun(mode, runAt) # NoTime
  PROVE  NextRun(mode, runAt) > now
<1>1. now \in Nat /\ now + Period > now
  BY TimeAssumption DEF Time
<1>2. CASE mode = "interval"
  BY <1>1, <1>2 DEF NextRun
<1>3. CASE mode # "interval"
  BY <1>1, <1>3, EarliestIsLater DEF NextRun
<1> QED BY <1>2, <1>3

\* A row keeps what the invariant says of it: it was never there, or it is there still,
\* with the next time it had as far as anybody can claim it.
SameDue(s) ==
  \/ row[s] = Absent
  \/ /\ row'[s] # Absent
     /\ Live(s)' => Live(s) /\ row'[s].next = row[s].next

LEMMA FiredStaysBehind ==
  ASSUME FiredBehind, fired' = fired, \A s \in Schedule : SameDue(s)
  PROVE  FiredBehind'
<1> SUFFICES ASSUME NEW s \in Schedule, NEW t \in Nat, <<s, t>> \in fired'
             PROVE  /\ row'[s] # Absent
                    /\ Live(s)' /\ row'[s].next # NoTime => t < row'[s].next
  BY DEF FiredBehind
<1>1. /\ row[s] # Absent
      /\ Live(s) /\ row[s].next # NoTime => t < row[s].next
  BY DEF FiredBehind
<1> QED BY <1>1 DEF SameDue

LEMMA HandStaysDue ==
  ASSUME ClaimInv, NEW v \in Worker, DueAtHand(v), worker'[v] = worker[v],
         now' \in Nat, now <= now', \A s \in Schedule : SameDue(s), TypeOK'
  PROVE  DueAtHand(v)'
<1> SUFFICES ASSUME Executing(v)', Live(Hand(v))'
             PROVE  /\ row'[Hand(v)'].next # NoTime /\ row'[Hand(v)'].next <= now'
                    /\ At(v, "save")' /\ worker'[v].next # NoTime =>
                         row'[Hand(v)'].next < worker'[v].next
  BY DEF DueAtHand
<1>1. Executing(v) /\ Hand(v)' = Hand(v) /\ (At(v, "save")' => At(v, "save"))
  BY DEF Executing, At, Hand
<1>2. Hand(v) \in Schedule /\ row[Hand(v)] # Absent
  BY <1>1, AtHand DEF ClaimInv, ClaimStands, Executing, At
<1>3. Live(Hand(v)) /\ row'[Hand(v)].next = row[Hand(v)].next
  BY <1>1, <1>2 DEF SameDue
<1>4. /\ row[Hand(v)].next # NoTime /\ row[Hand(v)].next <= now
      /\ At(v, "save") /\ worker[v].next # NoTime => row[Hand(v)].next < worker[v].next
  BY <1>1, <1>3 DEF DueAtHand
<1>5. row[Hand(v)].next \in Nat
  BY <1>2, <1>3, <1>4, StoredIsRow DEF ClaimInv, Live, Row
<1> QED BY <1>1, <1>3, <1>4, <1>5 DEF ClaimInv, TypeOK, Time
\* A claim that is committed leaves the times of its schedule as they were.
LEMMA ClaimedSameDue ==
  ASSUME TypeOK, NEW w \in Worker, NEW s \in Schedule, Reached(s), row' = Claimed(w, s)
  PROVE  /\ \A t \in Schedule : SameDue(t)
         /\ Stored(s) /\ row'[s].next = row[s].next /\ row'[s].whole = row[s].whole
         /\ row[s].next \in Nat /\ row[s].next <= now
<1>1. row[s] \in Row /\ row[s].next \in Nat
  BY ClaimedType
<1>2. row' = [row EXCEPT ![s] = [row[s] EXCEPT !.status = "claimed", !.by = w,
                                               !.expires = worker[w].expires]]
  BY <1>1 DEF Claimed, TypeOK, Row
<1>3. \A t \in Schedule \ {s} : row'[t] = row[t]
  BY <1>2 DEF TypeOK
<1>4. worker[w].expires \in Nat
  BY DEF TypeOK, Loop
<1>5. row'[s] \in Row /\ row'[s].next = row[s].next /\ row'[s].whole = row[s].whole
  <2>1. row'[s] = [row[s] EXCEPT !.status = "claimed", !.by = w, !.expires = worker[w].expires]
    BY <1>2 DEF TypeOK
  <2> QED BY <1>1, <1>4, <2>1 DEF Row
<1>6. row'[s] # Absent /\ Stored(s)
  BY <1>5, MissingIsNoRow DEF Reached
<1>7. \A t \in Schedule : SameDue(t)
  BY <1>3, <1>5, <1>6 DEF SameDue, Live, Stored
<1> QED BY <1>1, <1>5, <1>6, <1>7 DEF Reached

\* A loop that turns away holds nothing; the others stay as they are.
LEMMA OthersStayDue ==
  ASSUME FireInv, NEW w \in Worker, NEW todo \in Seq(Schedule), Turn(w, todo), now' = now,
         TypeOK', \A s \in Schedule : SameDue(s)
  PROVE  HandIsDue'
<1>1. ~Executing(w)' /\ \A v \in Worker \ {w} : worker'[v] = worker[v]
  BY TurnsAway DEF FireInv, ClaimInv
<1>2. DueAtHand(w)'
  BY <1>1 DEF DueAtHand
<1>3. now' \in Nat /\ now <= now'
  BY DEF FireInv, ClaimInv, TypeOK, Time
<1>4. ASSUME NEW v \in Worker \ {w}
      PROVE  DueAtHand(v)'
  BY <1>1, <1>3, HandStaysDue DEF FireInv, HandIsDue
<1> QED BY <1>2, <1>4 DEF HandIsDue

LEMMA ClaimFiresOnce ==
  ASSUME FireInv, NEW w \in Worker, Claim(w), TypeOK'
  PROVE  FiredBehind' /\ HandIsDue' /\ FiresOnce'
<1>1. Hand(w) \in Schedule /\ Tail(worker[w].todo) \in Seq(Schedule)
  BY AtHand DEF FireInv, ClaimInv, Claim, At
<1>2. PICK s \in Schedule : s = Hand(w)
  BY <1>1
<1>3. Claimable(w, s) /\ row' = Claimed(w, s) /\ UNCHANGED <<now, fired>>
  BY <1>2 DEF Claim
<1>4. /\ \A t \in Schedule : SameDue(t)
      /\ Stored(s) /\ row'[s].next = row[s].next /\ row'[s].whole = row[s].whole
      /\ row[s].next \in Nat /\ row[s].next <= now
  BY <1>3, ClaimedSameDue DEF Claimable, FireInv, ClaimInv
<1>5. FiredBehind'
  BY <1>3, <1>4, FiredStaysBehind DEF FireInv
<1>6. CASE ~row[s].whole
  <2>1. Turn(w, Tail(worker[w].todo)) /\ refired' = refired
    BY <1>2, <1>6 DEF Claim
  <2>2. HandIsDue'
    BY <1>1, <1>3, <1>4, <2>1, OthersStayDue
  <2> QED BY <1>5, <2>1, <2>2 DEF FireInv, FiresOnce
<1>7. CASE row[s].whole
  <2>1. /\ worker' = [worker EXCEPT ![w].pc = "execute"]
        /\ refired' = refired \cup ({<<s, row[s].next>>} \cap fired)
    BY <1>2, <1>7 DEF Claim
  <2>2. <<s, row[s].next>> \notin fired
    <3>1. <<s, row[s].next>> \in fired => row[s].next < row[s].next
      BY <1>4, <1>7, TimeAssumption DEF FireInv, FiredBehind, Live
    <3> QED BY <1>4, <3>1
  <2>3. FiresOnce'
    BY <2>1, <2>2 DEF FireInv, FiresOnce
  <2>4. /\ worker'[w].pc = "execute" /\ worker'[w].todo = worker[w].todo
        /\ \A v \in Worker \ {w} : worker'[v] = worker[v]
    BY <2>1 DEF FireInv, ClaimInv, TypeOK, Loop
  <2>5. DueAtHand(w)'
    <3>1. Hand(w)' = s /\ ~At(w, "save")'
      BY <1>2, <2>4 DEF Hand, At
    <3>2. row[s].next # NoTime
      BY <1>4, TimeAssumption
    <3> QED BY <1>3, <1>4, <3>1, <3>2 DEF DueAtHand
  <2>6. now' \in Nat /\ now <= now'
    BY <1>3 DEF FireInv, ClaimInv, TypeOK, Time
  <2>7. ASSUME NEW v \in Worker \ {w}
        PROVE  DueAtHand(v)'
    BY <1>4, <2>4, <2>6, HandStaysDue DEF FireInv, HandIsDue
  <2> QED BY <1>5, <2>3, <2>5, <2>7 DEF HandIsDue
<1> QED BY <1>6, <1>7

\* The mark of a whole row moves its next time past the one that fired.
LEMMA MarkFiresBehind ==
  ASSUME FireInv, NEW w \in Worker, At(w, "save"), Mark(w), now' = now, refired' = refired,
         Turn(w, Tail(worker[w].todo)), TypeOK'
  PROVE  FiredBehind' /\ HandIsDue' /\ FiresOnce'
<1>1. Hand(w) \in Schedule /\ Tail(worker[w].todo) \in Seq(Schedule) /\ Executing(w)
  BY AtHand DEF At, FireInv, ClaimInv, Executing
<1>2. PICK s \in Schedule : s = Hand(w)
  BY <1>1
<1>3. PICK n \in Nat \cup {NoTime} : n = worker[w].next
  BY DEF FireInv, ClaimInv, TypeOK, Loop
<1>4. PICK status \in {"scheduled", "completed", "failed"} : row' = Saved(s, n, status)
  BY <1>2, <1>3 DEF Mark
<1>5. /\ \A t \in Schedule \ {s} : row'[t] = row[t]
      /\ row'[s].next = n /\ row'[s].whole = (Stored(s) /\ row[s].whole)
      /\ DOMAIN row'[s] # {"status"}
  BY ZenonT(40), <1>4 DEF Saved, FireInv, ClaimInv, TypeOK
<1>6. row'[s] # Absent
  BY <1>5 DEF Absent
<1>7. fired' = IF Stored(s) THEN fired \cup {<<s, row[s].next>>} ELSE fired
  BY <1>2 DEF Mark
<1>8. Live(s) =>
        /\ row[s].next \in Nat
        /\ n # NoTime => row[s].next < n
  <2>1. Live(s) => /\ row[s].next # NoTime
                   /\ n # NoTime => row[s].next < n
    BY <1>1, <1>2, <1>3 DEF FireInv, HandIsDue, DueAtHand
  <2>2. Live(s) => row[s] \in Row
    BY StoredIsRow DEF Live, FireInv, ClaimInv
  <2> QED BY <2>1, <2>2 DEF Row
<1>9. FiredBehind'
  <2> SUFFICES ASSUME NEW r \in Schedule, NEW t \in Nat, <<r, t>> \in fired'
               PROVE  /\ row'[r] # Absent
                      /\ Live(r)' /\ row'[r].next # NoTime => t < row'[r].next
    BY DEF FiredBehind
  <2>1. CASE r # s
    <3>1. row'[r] = row[r] /\ <<r, t>> \in fired
      BY <1>5, <1>7, <2>1
    <3> QED BY <3>1 DEF FireInv, FiredBehind, Live, Stored
  <2>2. CASE r = s
    <3>1. SUFFICES ASSUME Live(s)', n # NoTime
                   PROVE  t < n
      BY <1>5, <1>6, <2>2
    <3>2. Live(s)
      BY <1>5, <3>1 DEF Live
    <3>3. row[s].next \in Nat /\ row[s].next < n /\ n \in Nat
      BY <1>8, <3>1, <3>2
    <3>4. <<s, t>> \in fired \/ t = row[s].next
      BY <1>7, <2>2
    <3>5. CASE <<s, t>> \in fired
      <4>1. t < row[s].next
        BY <3>2, <3>3, <3>5, TimeAssumption DEF FireInv, FiredBehind
      <4> QED BY <3>3, <4>1
    <3> QED BY <3>3, <3>4, <3>5
  <2> QED BY <2>1, <2>2
<1>10. HandIsDue'
  <2>1. ~Executing(w)' /\ \A v \in Worker \ {w} : worker'[v] = worker[v]
    BY <1>1, TurnsAway DEF FireInv, ClaimInv
  <2>2. DueAtHand(w)'
    BY <2>1 DEF DueAtHand
  <2>3. ASSUME NEW v \in Worker \ {w}
        PROVE  DueAtHand(v)'
    <3>1. SUFFICES ASSUME Executing(v)'
                   PROVE  DueAtHand(v)'
      BY DEF DueAtHand
    <3>2. Executing(v) /\ Hand(v)' = Hand(v) /\ worker'[v] = worker[v]
          /\ (At(v, "save")' <=> At(v, "save"))
      BY <2>1, <3>1 DEF Executing, At, Hand
    <3>3. Hand(v) \in Schedule \ {s}
      BY <1>1, <1>2, <3>2, AtHand DEF FireInv, ClaimInv, ClaimedAlone, Executing, At
    <3>4. row'[Hand(v)] = row[Hand(v)]
      BY <1>5, <3>3
    <3>5. DueAtHand(v)
      BY DEF FireInv, HandIsDue
    <3> QED BY <3>2, <3>4, <3>5 DEF DueAtHand, Live, Stored
  <2> QED BY <2>2, <2>3 DEF HandIsDue
<1> QED BY <1>9, <1>10 DEF FireInv, FiresOnce
\* A worker that leaves without a mark, whether or not its claim was committed.
LEMMA LeavesUnmarked ==
  ASSUME FireInv, NEW w \in Worker, NEW todo \in Seq(Schedule), Turn(w, todo),
         UNCHANGED <<now, fired, refired>>, TypeOK', \A s \in Schedule : SameDue(s)
  PROVE  FiredBehind' /\ HandIsDue' /\ FiresOnce'
<1>1. FiredBehind'
  BY FiredStaysBehind DEF FireInv
<1>2. HandIsDue'
  BY OthersStayDue
<1> QED BY <1>1, <1>2 DEF FireInv, FiresOnce

LEMMA RowsUnwritten ==
  ASSUME row' = row
  PROVE  \A s \in Schedule : SameDue(s)
BY DEF SameDue, Live, Stored

LEMMA FireStep ==
  ASSUME FireInv, Punctual, [Next]_vars
  PROVE  FireInv'
<1>0. ClaimInv' /\ TypeOK'
  BY ClaimInvStep DEF FireInv, ClaimInv
<1> SUFFICES FiredBehind' /\ HandIsDue' /\ FiresOnce'
  BY <1>0 DEF FireInv
<1>1. CASE UNCHANGED vars
  BY <1>1 DEF FireInv, FiredBehind, HandIsDue, DueAtHand, FiresOnce, Live, Stored, Executing, At,
              Hand, vars
<1>2. ASSUME NEW s \in Schedule, CreateSchedule(s) \/ DeleteSchedule(s)
      PROVE  FiredBehind' /\ HandIsDue' /\ FiresOnce'
  <2>1. UNCHANGED <<now, worker, fired, refired>>
    BY <1>2 DEF CreateSchedule, DeleteSchedule
  <2>2. row[s] = Absent \/ row'[s] = Deleted
    BY <1>2 DEF CreateSchedule, DeleteSchedule, FireInv, ClaimInv, TypeOK
  <2>3. \A t \in Schedule \ {s} : row'[t] = row[t]
    BY <1>2 DEF CreateSchedule, DeleteSchedule, FireInv, ClaimInv, TypeOK
  <2>4. \A t \in Schedule : SameDue(t)
    BY <2>2, <2>3, MissingIsNoRow DEF SameDue, Live, Stored
  <2>5. FiredBehind'
    BY <2>1, <2>4, FiredStaysBehind DEF FireInv
  <2>6. now' \in Nat /\ now <= now'
    BY <2>1 DEF FireInv, ClaimInv, TypeOK, Time
  <2>7. ASSUME NEW v \in Worker
        PROVE  DueAtHand(v)'
    BY <1>0, <2>1, <2>4, <2>6, HandStaysDue DEF FireInv, HandIsDue
  <2> QED BY <2>1, <2>5, <2>7 DEF FireInv, FiresOnce, HandIsDue
<1>3. ASSUME NEW w \in Worker, ListDue(w)
      PROVE  FiredBehind' /\ HandIsDue' /\ FiresOnce'
  <2>1. PICK todo \in SetToSeqs(Listed) : Turn(w, todo)
    BY <1>3 DEF ListDue
  <2>2. todo \in Seq(Schedule) /\ row' = row /\ UNCHANGED <<now, fired, refired>>
    BY <1>3, ListedType DEF ListDue
  <2> QED BY <1>0, <2>1, <2>2, RowsUnwritten, LeavesUnmarked
<1>4. ASSUME NEW w \in Worker, ClaimRefused(w)
      PROVE  FiredBehind' /\ HandIsDue' /\ FiresOnce'
  <2>1. Tail(worker[w].todo) \in Seq(Schedule)
    BY <1>4, AtHand DEF ClaimRefused, At, FireInv, ClaimInv
  <2> QED BY <1>0, <1>4, <2>1, RowsUnwritten, LeavesUnmarked DEF ClaimRefused
<1>5. ASSUME NEW w \in Worker, ClaimFails(w)
      PROVE  FiredBehind' /\ HandIsDue' /\ FiresOnce'
  <2>1. Hand(w) \in Schedule /\ Tail(worker[w].todo) \in Seq(Schedule)
    BY <1>5, AtHand DEF ClaimFails, At, FireInv, ClaimInv
  <2>2. \A s \in Schedule : SameDue(s)
    BY <1>5, <2>1, RowsUnwritten, ClaimedSameDue DEF ClaimFails, Claimable, FireInv, ClaimInv
  <2> QED BY <1>0, <1>5, <2>1, <2>2, LeavesUnmarked DEF ClaimFails
<1>6. ASSUME NEW w \in Worker, Executed(w)
      PROVE  FiredBehind' /\ HandIsDue' /\ FiresOnce'
  <2>1. Hand(w) \in Schedule /\ Tail(worker[w].todo) \in Seq(Schedule)
    BY <1>6, AtHand DEF Executed, At, FireInv, ClaimInv
  <2>2. row' = row /\ UNCHANGED <<now, fired, refired>>
    BY <1>6 DEF Executed
  <2>3. CASE Stored(Hand(w))
    <3>1. PICK s \in Schedule : s = Hand(w)
      BY <2>1
    <3>2. PICK n : n = IF row[s].whole THEN NextRun(row[s].mode, row[s].runAt) ELSE NoTime
      OBVIOUS
    <3>3. worker' = [worker EXCEPT ![w].pc = "save", ![w].next = n]
      BY <1>6, <2>3, <3>1, <3>2 DEF Executed
    <3>4. \A v \in Worker : /\ worker'[v].todo = worker[v].todo
                            /\ v # w => worker'[v] = worker[v]
      BY <3>3 DEF FireInv, ClaimInv, TypeOK, Loop
    <3>5. worker'[w].next = n
      BY <3>3 DEF FireInv, ClaimInv, TypeOK, Loop
    <3>6. Executing(w) /\ row[s] \in Row
      BY <1>6, <2>3, <3>1, StoredIsRow DEF Executed, Executing, FireInv, ClaimInv
    <3>7. row[s].whole => /\ row[s].next # NoTime /\ row[s].next <= now
                          /\ row[s].next \in Nat
      BY <2>3, <3>1, <3>6 DEF FireInv, HandIsDue, DueAtHand, Live, Row
    <3>8. row[s].whole /\ n # NoTime => now < n
      <4>1. row[s].runAt \in SUBSET Time
        BY <3>6 DEF Row
      <4> QED BY <3>2, <4>1, NextRunIsLater DEF FireInv, ClaimInv, TypeOK
    <3>9. row[s].whole /\ n # NoTime => n \in Nat
      <4>1. worker'[w].next \in Nat \cup {NoTime}
        BY <1>0 DEF TypeOK, Loop
      <4> QED BY <3>5, <4>1
    <3>10. row[s].whole /\ n # NoTime => row[s].next < n
      BY <3>7, <3>8, <3>9 DEF FireInv, ClaimInv, TypeOK, Time
    <3>11. DueAtHand(w)'
      <4>1. Hand(w)' = s
        BY <3>1, <3>4 DEF Hand
      <4> QED BY <2>2, <3>5, <3>7, <3>10, <4>1 DEF DueAtHand, Live, Stored
    <3>12. ASSUME NEW v \in Worker \ {w}
           PROVE  DueAtHand(v)'
      <4>1. now' \in Nat /\ now <= now'
        BY <2>2 DEF FireInv, ClaimInv, TypeOK, Time
      <4> QED BY <1>0, <2>2, <3>4, <4>1, RowsUnwritten, HandStaysDue DEF FireInv, HandIsDue
    <3>13. FiredBehind'
      BY <2>2, RowsUnwritten, FiredStaysBehind DEF FireInv
    <3> QED BY <2>2, <3>11, <3>12, <3>13 DEF FireInv, FiresOnce, HandIsDue
  <2>4. CASE ~Stored(Hand(w))
    BY <1>0, <1>6, <2>1, <2>2, <2>4, RowsUnwritten, LeavesUnmarked DEF Executed
  <2> QED BY <2>3, <2>4
<1>7. ASSUME NEW w \in Worker, MarkAfterRun(w)
      PROVE  FiredBehind' /\ HandIsDue' /\ FiresOnce'
  BY <1>0, <1>7, MarkFiresBehind DEF MarkAfterRun
<1>8. ASSUME NEW w \in Worker, MarkFails(w)
      PROVE  FiredBehind' /\ HandIsDue' /\ FiresOnce'
  <2>1. Tail(worker[w].todo) \in Seq(Schedule)
    BY <1>8, AtHand DEF MarkFails, At, FireInv, ClaimInv
  <2>2. CASE UNCHANGED <<row, fired>>
    BY <1>0, <1>8, <2>1, <2>2, RowsUnwritten, LeavesUnmarked DEF MarkFails
  <2>3. CASE At(w, "save") /\ Mark(w)
    BY <1>0, <1>8, <2>3, MarkFiresBehind DEF MarkFails
  <2> QED BY <1>8, <2>2, <2>3 DEF MarkFails
<1>9. ASSUME NEW w \in Worker, Crash(w)
      PROVE  FiredBehind' /\ HandIsDue' /\ FiresOnce'
  <2>1. worker'[w].pc = "down" /\ \A v \in Worker \ {w} : worker'[v] = worker[v]
    BY <1>9 DEF Crash, Idle, FireInv, ClaimInv, TypeOK
  <2>2. row' = row /\ UNCHANGED <<now, fired, refired>>
    BY <1>9 DEF Crash
  <2>3. DueAtHand(w)'
    BY <2>1 DEF DueAtHand, Executing, At
  <2>4. now' \in Nat /\ now <= now'
    BY <2>2 DEF FireInv, ClaimInv, TypeOK, Time
  <2>5. ASSUME NEW v \in Worker \ {w}
        PROVE  DueAtHand(v)'
    BY <1>0, <2>1, <2>2, <2>4, RowsUnwritten, HandStaysDue DEF FireInv, HandIsDue
  <2>6. FiredBehind'
    BY <2>2, RowsUnwritten, FiredStaysBehind DEF FireInv
  <2> QED BY <2>2, <2>3, <2>5, <2>6 DEF FireInv, FiresOnce, HandIsDue
<1>10. CASE Tick
  <2>1. row' = row /\ UNCHANGED <<worker, fired, refired>> /\ now' = now + 1
    BY <1>10 DEF Tick
  <2>2. now' \in Nat /\ now <= now'
    BY <2>1 DEF FireInv, ClaimInv, TypeOK, Time
  <2>3. ASSUME NEW v \in Worker
        PROVE  DueAtHand(v)'
    BY <1>0, <2>1, <2>2, RowsUnwritten, HandStaysDue DEF FireInv, HandIsDue
  <2>4. FiredBehind'
    BY <2>1, RowsUnwritten, FiredStaysBehind DEF FireInv
  <2> QED BY <2>1, <2>3, <2>4 DEF FireInv, FiresOnce, HandIsDue
<1> QED
  BY <1>0, <1>1, <1>2, <1>3, ClaimFiresOnce, <1>4, <1>5, <1>6, <1>7, <1>8, <1>9, <1>10
  DEF Next, Proceed

\* A time whose run was marked never fires again, whatever fails, dies or is deleted and
\* however old the listing a loop acts on, as long as loops are done before their claims
\* expire.
THEOREM MarkedTimesFireOnce ==
  ASSUME Punctual
  PROVE  Spec => []FiresOnce
<1>1. Init => FireInv
  <2>1. Init => TypeOK
    BY EmptySeq, TimeAssumption DEF Init, TypeOK, Idle, Loop, Time
  <2>2. Init => \A w \in Worker : ~Executing(w)
    BY DEF Init, Executing, At, Idle
  <2> QED BY <2>1, <2>2
          DEF Init, FireInv, ClaimInv, NotLate, Busy, ClaimStands, ClaimedAlone, Executing, At,
              Idle, FiredBehind, HandIsDue, DueAtHand, FiresOnce
<1>2. FireInv /\ [Next]_vars => FireInv'
  BY FireStep
<1>3. FireInv => FiresOnce
  BY DEF FireInv
<1> QED BY <1>1, <1>2, <1>3, PTL DEF Spec
=============================================================================
