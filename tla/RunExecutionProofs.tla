------------------------- MODULE RunExecutionProofs -------------------------
(***************************************************************************)
(* Theorems about RunExecution for any number of runs and browser          *)
(* sessions.  The steps are built from operators on a World record, so     *)
(* the lemmas say what each of these operators preserves; a step's proof   *)
(* then only composes them.                                                *)
(***************************************************************************)
EXTENDS RunExecution, WellFoundedInduction, FiniteSetTheorems, TLAPS

AnyState == RunState \cup Missing

WorldType ==
  [st : [Run -> AnyState], bs : [Run -> Session \cup {NoSession}],
   task : [Run -> TaskState], lease : [Run -> Session \cup {NoSession}],
   owner : [Session -> Run \cup {NoRun}], cancel : SUBSET Run]

-----------------------------------------------------------------------------
(* What list_runs_for_browser_session finds.                               *)

\* A listing depends on the rows' states and sessions alone.
LEMMA ListedSame ==
  ASSUME NEW v, NEW w, v.st = w.st, v.bs = w.bs, NEW s
  PROVE  Listed(v, s) = Listed(w, s)
<1>1. Bound(v, s) = Bound(w, s)
  BY DEF Bound
<1>. QED BY <1>1 DEF Listed

\* Who waits in line is a listed queued run of the session without a task.
LEMMA WhoWaits ==
  ASSUME NEW w, NEW s, NEW r
  PROVE  /\ Waiting(w, s, r) \subseteq Run
         /\ \A q \in Waiting(w, s, r) :
              q # r /\ q \in Listed(w, s) /\ w.bs[q] = s /\ w.st[q] = "queued" /\ ~Live(w, q)
BY DEF Waiting, Listed, Bound

\* As long as a session has no more rows than the listing returns, nothing is cut off:
\* then Waiting and CandidateBlocks speak of every run that is bound to the session.
THEOREM FewRunsAreAllListed ==
  ASSUME NumRuns \leq MaxListed
  PROVE  \A w, s : Listed(w, s) = Bound(w, s)
<1>1. SUFFICES ASSUME NEW w, NEW s, NEW q \in Bound(w, s)
               PROVE  Cardinality({p \in Bound(w, s) : p < q}) < MaxListed
  BY DEF Listed
<1>. DEFINE before == {p \in Bound(w, s) : p < q}
<1>2. q \in 1..NumRuns /\ NumRuns \in Nat /\ MaxListed \in Nat
  BY NumRunsAssumption, ListedAssumption DEF Bound, Run
<1>3. IsFiniteSet(1..(q - 1)) /\ Cardinality(1..(q - 1)) = q - 1
  <2>1. 1 \in Int /\ q - 1 \in Int
    BY <1>2
  <2>2. IsFiniteSet(1..(q - 1))
    BY <2>1, FS_Interval
  <2>3. Cardinality(1..(q - 1)) = IF 1 > q - 1 THEN 0 ELSE (q - 1) - 1 + 1
    BY <2>1, FS_Interval
  <2>. QED BY <1>2, <2>2, <2>3
<1>4. before \subseteq 1..(q - 1)
  BY <1>2 DEF Bound, Run
<1>5. Cardinality(before) \leq q - 1 /\ Cardinality(before) \in Nat
  <2>1. IsFiniteSet(before) /\ Cardinality(before) \leq Cardinality(1..(q - 1))
    BY <1>3, <1>4, FS_Subset
  <2>2. Cardinality(before) \in Nat
    BY <2>1, FS_CardinalityType
  <2>. QED BY <1>3, <2>1, <2>2
<1>. QED BY <1>2, <1>5, NumRuns \leq MaxListed

-----------------------------------------------------------------------------
(* The types of the World operators.                                       *)

\* A set of runs has an oldest one (the sort by created_at in
\* _start_next_queued_run_for_browser_session).
LEMMA OldestIn ==
  ASSUME NEW R \in SUBSET Run, R # {}
  PROVE  Oldest(R) \in R
<1>1. R \subseteq Nat
  BY NumRunsAssumption DEF Run
<1>2. PICK x \in R : \A y \in R : ~(<<y, x>> \in OpToRel(<, Nat))
  BY <1>1, NatLessThanWellFounded, WFMin
<1>3. \A y \in R : x <= y
  <2>1. TAKE y \in R
  <2>2. <<y, x>> \in Nat \X Nat
    BY <1>1
  <2>3. ~(y < x)
    BY <1>2, <2>2 DEF OpToRel
  <2>. QED BY <1>1, <2>3
<1>. QED BY <1>3 DEF Oldest

LEMMA CreateTaskType ==
  ASSUME NEW w \in WorldType, NEW r \in Run
  PROVE  CreateTask(w, r) \in WorldType
BY DEF CreateTask, WorldType, TaskState, EngineState

LEMMA CreateEngineTaskType ==
  ASSUME NEW w \in WorldType, NEW r \in Run
  PROVE  CreateEngineTask(w, r) \in WorldType
BY DEF CreateEngineTask, WorldType, TaskState, EngineState

LEMMA StartExecutionType ==
  ASSUME NEW w \in WorldType, NEW r \in Run
  PROVE  StartExecution(w, r) \in WorldType
<1>1. CreateTask(w, r) \in WorldType /\ CreateEngineTask(w, r) \in WorldType
  BY CreateTaskType, CreateEngineTaskType
<1>2. ASSUME w.bs[r] # NoSession
      PROVE  /\ ForgetStaleOwner(w, w.bs[r], r) \in WorldType
             /\ [CreateTask(w, r) EXCEPT !.owner[w.bs[r]] = r] \in WorldType
  <2>1. w.bs[r] \in Session
    BY <1>2 DEF WorldType
  <2>. QED BY <1>1, <2>1 DEF WorldType, ForgetStaleOwner
<1>. QED BY <1>1, <1>2 DEF StartExecution

LEMMA StartNextType ==
  ASSUME NEW w \in WorldType, NEW s, NEW r \in Run
  PROVE  StartNext(w, s, r) \in WorldType
<1>1. CASE s = NoSession \/ Waiting(w, s, r) = {}
  BY <1>1 DEF StartNext
<1>2. CASE ~(s = NoSession \/ Waiting(w, s, r) = {})
  <2>1. Oldest(Waiting(w, s, r)) \in Run
    BY <1>2, OldestIn, WhoWaits
  <2>. QED BY <1>2, <2>1, StartExecutionType DEF StartNext
<1>. QED BY <1>1, <1>2

LEMMA ReleaseOwnerType ==
  ASSUME NEW w \in WorldType, NEW s \in Session \cup {NoSession}, NEW r \in Run
  PROVE  ReleaseOwner(w, s, r) \in WorldType
BY DEF ReleaseOwner, WorldType

LEMMA WithStateType ==
  ASSUME NEW w \in WorldType, NEW r \in Run, NEW state \in AnyState
  PROVE  WithState(w, r, state) \in WorldType
BY DEF WithState, WorldType

LEMMA SetRunStateType ==
  ASSUME NEW w \in WorldType, NEW r \in Run, NEW state \in AnyState
  PROVE  SetRunState(w, r, state) \in WorldType
<1>. DEFINE w1 == WithState(w, r, state)
            s  == w.bs[r]
<1>1. w1 \in WorldType
  BY WithStateType
<1>2. s \in Session \cup {NoSession}
  BY DEF WorldType
<1>3. StartNext(ReleaseOwner(w1, s, r), s, r) \in WorldType
  BY <1>1, <1>2, ReleaseOwnerType, StartNextType
<1>4. s # NoSession => [w1 EXCEPT !.owner[s] = r] \in WorldType
  <2>. HIDE DEF w1
  <2>. QED BY <1>1, <1>2 DEF WorldType
<1>. QED BY <1>1, <1>3, <1>4 DEF SetRunState

LEMMA TaskGoneType ==
  ASSUME NEW w \in WorldType, NEW r \in Run
  PROVE  TaskGone(w, r) \in WorldType
BY DEF TaskGone, WorldType, TaskState, EngineState

LEMMA EndTaskType ==
  ASSUME NEW w \in WorldType, NEW r \in Run
  PROVE  EndTask(w, r) \in WorldType
<1>1. TaskGone(w, r) \in WorldType
  BY TaskGoneType
<1>2. w.lease[r] \in Session \cup {NoSession}
  BY DEF WorldType
<1>. QED BY <1>1, <1>2, ReleaseOwnerType, StartNextType DEF EndTask

LEMMA TaskAtType ==
  ASSUME NEW w \in WorldType, NEW r \in Run, NEW t \in TaskState
  PROVE  TaskAt(w, r, t) \in WorldType
BY DEF TaskAt, WorldType

LEMMA CancelExecutionType ==
  ASSUME NEW w \in WorldType, NEW r \in Run
  PROVE  CancelExecution(w, r) \in WorldType
BY DEF CancelExecution, WorldType

\* A step that ends in a well-typed world keeps the variables' types.
LEMMA BecomesType ==
  ASSUME NEW w \in WorldType, Becomes(w), inflight' \subseteq Handler
  PROVE  TypeOK'
BY DEF Becomes, WorldType, TypeOK, AnyState, Handler

LEMMA WorldIsTyped ==
  ASSUME TypeOK
  PROVE  World \in WorldType
BY DEF World, WorldType, TypeOK, AnyState

-----------------------------------------------------------------------------
(* Type correctness.                                                       *)

LEMMA InitType == Init => TypeOK
BY DEF Init, TypeOK, TaskState, EngineState, Missing

LEMMA HandlingType ==
  ASSUME NEW op \in {"pause", "stop", "again"}, NEW r \in Run,
         NEW s \in Session \cup {NoSession}
  PROVE  Handling(op, r, s) \in Handler
BY DEF Handling, Handler

\* Every state a handler or the executor writes is one of the model's.
LEMMA WrittenStates ==
  {"queued", "awaiting_confirmation", "cancelled", "reconciling", "paused", "starting",
   "human_controlling", "deleted", "running", "failed", "completed", "waiting_for_human",
   "waiting_for_user_action"} \subseteq AnyState
BY DEF AnyState, RunState, Missing, TERMINAL_STATES, HoldsBrowserSession

LEMMA StartWithRetryType ==
  ASSUME TypeOK, NEW w \in WorldType, NEW r \in Run, StartWithRetry(w, r)
  PROVE  TypeOK'
<1>1. StartExecution(w, r) \in WorldType
  BY StartExecutionType
<1>2. inflight' \subseteq Handler
  BY HandlingType DEF StartWithRetry, TypeOK
<1>. QED BY <1>1, <1>2, BecomesType DEF StartWithRetry

LEMMA ReconcileType ==
  ASSUME TypeOK, NEW r \in Run, Reconcile(r)
  PROVE  TypeOK'
<1>1. StartExecution(WithState(World, r, "reconciling"), r) \in WorldType
  BY WorldIsTyped, WrittenStates, WithStateType, StartExecutionType
<1>. QED BY <1>1, BecomesType DEF Reconcile, TypeOK

LEMMA RequestType ==
  ASSUME TypeOK, NEW r \in Run, Request(r)
  PROVE  TypeOK'
<1>. USE WorldIsTyped, WrittenStates
<1>a. inflight \subseteq Handler /\ bs[r] \in Session \cup {NoSession}
  BY DEF TypeOK
<1>b. \A state \in AnyState : WithState(World, r, state) \in WorldType
  BY WithStateType
<1>1. ASSUME NEW s \in Session \cup {NoSession},
             NEW state \in {"awaiting_confirmation", "queued"}, CreateRun(r, s, state)
      PROVE  TypeOK'
  <2>. DEFINE w == [World EXCEPT !.st[r] = state, !.bs[r] = s]
  <2>1. w \in WorldType
    <3>1. \A v \in WorldType : [v EXCEPT !.st[r] = state, !.bs[r] = s] \in WorldType
      BY DEF WorldType
    <3>. QED BY <3>1
  <2>. HIDE DEF w
  <2>2. CASE state = "queued"
    <3>1. StartWithRetry(w, r)
      BY <1>1, <2>2 DEF CreateRun, w
    <3>. QED BY <2>1, <3>1, StartWithRetryType
  <2>3. CASE state # "queued"
    <3>1. Becomes(w) /\ inflight' = inflight
      BY <1>1, <2>3 DEF CreateRun, w
    <3>. QED BY <2>1, <3>1, <1>a, BecomesType
  <2>. QED BY <2>2, <2>3
<1>2. CASE ConfirmIntent(r)
  BY <1>2, <1>a, <1>b, StartExecutionType, BecomesType DEF ConfirmIntent
<1>3. CASE RejectIntent(r)
  BY <1>3, <1>a, <1>b, BecomesType DEF RejectIntent
<1>4. CASE Resume(r) \/ Approve(r)
  BY <1>4, ReconcileType DEF Resume, Approve
<1>5. CASE Pause(r)
  <2>. DEFINE w == WithState(World, r, "paused")
  <2>1. w \in WorldType /\ CancelExecution(w, r) \in WorldType
    BY <1>b, CancelExecutionType
  <2>2. inflight' \subseteq Handler
    BY <1>5, <1>a, HandlingType DEF Pause
  <2>. QED BY <1>5, <2>1, <2>2, BecomesType DEF Pause
<1>6. CASE Stop(r)
  <2>. DEFINE w == WithState(World, r, "cancelled")
  <2>1. w \in WorldType /\ StopTail(w, r, bs[r]) \in WorldType
    BY <1>a, <1>b, CancelExecutionType, StartNextType DEF StopTail
  <2>2. inflight' \subseteq Handler
    BY <1>6, <1>a, HandlingType DEF Stop
  <2>. QED BY <1>6, <2>1, <2>2, BecomesType DEF Stop
<1>7. ASSUME NEW s \in Session \cup {NoSession}, Retry(r, s)
      PROVE  TypeOK'
  <2>1. \A v \in WorldType : [v EXCEPT !.st[r] = "starting", !.bs[r] = s] \in WorldType
    BY DEF WorldType
  <2>2. [World EXCEPT !.st[r] = "starting", !.bs[r] = s] \in WorldType
    BY <2>1
  <2>. QED BY <1>7, <2>2, StartWithRetryType DEF Retry
<1>8. CASE RetryRejected(r)
  BY <1>8, <1>a, <1>b, BecomesType DEF RetryRejected
<1>9. CASE Interrupt(r)
  BY <1>9, <1>a, <1>b, BecomesType DEF Interrupt
<1>10. CASE DeleteRun(r)
  BY <1>10, <1>a, <1>b, BecomesType DEF DeleteRun
<1>11. ASSUME NEW s \in Session, Takeover(s, r)
       PROVE  TypeOK'
  BY <1>11, <1>a, <1>b, BecomesType DEF Takeover
<1>12. ASSUME NEW s \in Session, Release(s, r)
       PROVE  TypeOK'
  BY <1>12, ReconcileType DEF Release
<1>. QED BY <1>1, <1>2, <1>3, <1>4, <1>5, <1>6, <1>7, <1>8, <1>9, <1>10, <1>11, <1>12 DEF Request

LEMMA ContinuesType ==
  ASSUME TypeOK, NEW h \in inflight, Continues(h)
  PROVE  TypeOK'
<1>1. h.run \in Run /\ inflight' \subseteq Handler
  BY DEF Continues, TypeOK, Handler
<1>2. /\ StartExecution(World, h.run) \in WorldType
      /\ CancelExecution(World, h.run) \in WorldType
      /\ StopTail(World, h.run, h.sess) \in WorldType
  BY <1>1, WorldIsTyped, StartExecutionType, CancelExecutionType, StartNextType DEF StopTail
<1>. QED BY <1>1, <1>2, BecomesType DEF Continues, StartAgain, PauseReturns, StopReturns

LEMMA ExecutesType ==
  ASSUME TypeOK, NEW r \in Run, Executes(r)
  PROVE  TypeOK'
<1>. USE WorldIsTyped, WrittenStates
<1>a. inflight \subseteq Handler
  BY DEF TypeOK
<1>b. \A state \in AnyState :
         /\ SetRunState(World, r, state) \in WorldType
         /\ EndTask(SetRunState(World, r, state), r) \in WorldType
         /\ \A t \in TaskState : TaskAt(SetRunState(World, r, state), r, t) \in WorldType
  BY SetRunStateType, EndTaskType, TaskAtType
<1>c. \A t \in TaskState : TaskAt(World, r, t) \in WorldType
  BY TaskAtType
<1>d. {"context", "stream", "decide", "deaf"} \subseteq TaskState
  BY DEF TaskState, EngineState
<1>1. CASE TaskBegin(r)
  BY <1>1, <1>a, <1>b, <1>d, BecomesType DEF TaskBegin
<1>2. CASE TaskRun(r)
  BY <1>2, <1>a, <1>b, <1>d, BecomesType DEF TaskRun
<1>3. ASSUME NEW s \in Session, ResolveFallback(r, s)
      PROVE  TypeOK'
  <2>1. \A v \in WorldType : [v EXCEPT !.bs[r] = s] \in WorldType
    BY DEF WorldType
  <2>2. [World EXCEPT !.bs[r] = s] \in WorldType
    BY <2>1
  <2>. QED BY <1>3, <1>a, <2>2, BecomesType DEF ResolveFallback
<1>4. CASE Observe(r) \/ GoDeaf(r) \/ CarryOn(r)
  BY <1>4, <1>a, <1>c, <1>d, BecomesType DEF Observe, GoDeaf, CarryOn
<1>5. CASE ObserveTerminal(r) \/ DeafEnds(r)
  BY <1>5, <1>a, EndTaskType, BecomesType DEF ObserveTerminal, DeafEnds
<1>6. CASE StreamWaits(r)
  BY <1>6, <1>a, <1>b, BecomesType DEF StreamWaits
<1>7. CASE StreamIncident(r)
  BY <1>7, <1>a, <1>b, <1>d, BecomesType DEF StreamIncident
<1>8. ASSUME NEW state \in Outcomes, Conclude(r, state)
      PROVE  TypeOK'
  BY <1>8, <1>a, <1>b, BecomesType DEF Conclude, Outcomes
<1>9. CASE TaskFails(r)
  BY <1>9, <1>a, <1>b, BecomesType DEF TaskFails
<1>10. CASE EngineDrives(r)
  <2>1. PICK s \in {bs[r]} \cup (IF MayBeUnbound THEN Session ELSE {}) :
          Becomes(TaskAt([WithState(World, r, "running") EXCEPT !.bs[r] = s], r, "engine"))
    BY <1>10 DEF EngineDrives
  <2>2. s \in Session \cup {NoSession}
    BY DEF TypeOK
  <2>3. \A v \in WorldType : [v EXCEPT !.bs[r] = s] \in WorldType
    BY <2>2 DEF WorldType
  <2>4. "engine" \in TaskState
    BY DEF TaskState, EngineState
  <2>5. TaskAt([WithState(World, r, "running") EXCEPT !.bs[r] = s], r, "engine") \in WorldType
    BY <2>3, <2>4, WithStateType, TaskAtType
  <2>. QED BY <1>10, <1>a, <2>1, <2>5, BecomesType DEF EngineDrives
<1>11. CASE EngineEnds(r)
  <2>1. {st[r], "failed", "completed"} \subseteq AnyState
    BY DEF TypeOK, AnyState
  <2>2. \A state \in AnyState : TaskGone(WithState(World, r, state), r) \in WorldType
    BY WithStateType, TaskGoneType
  <2>. QED BY <1>11, <1>a, <2>1, <2>2, BecomesType DEF EngineEnds
<1>. QED BY <1>1, <1>2, <1>3, <1>4, <1>5, <1>6, <1>7, <1>8, <1>9, <1>10, <1>11 DEF Executes

LEMMA TaskEndsType ==
  ASSUME TypeOK, NEW r \in Run, TaskEnds(r)
  PROVE  TypeOK'
<1>1. /\ TaskGone(World, r) \in WorldType
      /\ EndTask(World, r) \in WorldType
      /\ EndTask(SetRunState(World, r, "cancelled"), r) \in WorldType
  BY WorldIsTyped, WrittenStates, TaskGoneType, EndTaskType, SetRunStateType
<1>2. inflight \subseteq Handler
  BY DEF TypeOK
<1>3. CASE TaskDropped(r)
  BY <1>1, <1>2, <1>3, BecomesType DEF TaskDropped
<1>4. CASE TaskCancelled(r)
  BY <1>1, <1>2, <1>4, BecomesType DEF TaskCancelled
<1>5. CASE TaskLosesRun(r)
  BY <1>1, <1>2, <1>5, BecomesType DEF TaskLosesRun
<1>6. CASE EngineCutOff(r)
  BY <1>1, <1>2, <1>6, BecomesType DEF EngineCutOff
<1>. QED BY <1>3, <1>4, <1>5, <1>6 DEF TaskEnds

LEMMA CrashType ==
  ASSUME TypeOK, Crash
  PROVE  TypeOK'
BY DEF TypeOK, Crash, TaskState, EngineState

\* Type correctness: whatever the number of runs and sessions, every variable
\* keeps its type; in particular only known run states are ever stored.
THEOREM TypeCorrect == Spec => []TypeOK
<1>1. TypeOK /\ [Next]_vars => TypeOK'
  <2>. SUFFICES ASSUME TypeOK, [Next]_vars PROVE TypeOK'
    OBVIOUS
  <2>1. CASE Next
    BY <2>1, RequestType, ExecutesType, TaskEndsType, ContinuesType, CrashType DEF Next
  <2>2. CASE UNCHANGED vars
    BY <2>2 DEF vars, TypeOK
  <2>. QED BY <2>1, <2>2
<1>. QED BY InitType, <1>1, PTL DEF Spec

-----------------------------------------------------------------------------
(* The lease on a browser session is exclusive.                            *)

\* The parts of LeaseInv, of a world; Claims leaves out a run that is giving its
\* session up and whose task is about to end.
Placed(w) ==
  \A q \in Run : IF w.st[q] = "absent" THEN w.task[q] = "none" ELSE w.bs[q] \in Session

Over == TERMINAL_STATES \cup {"deleted"}

Deaf(w) == \A q \in Run : w.task[q] = "deaf" => w.st[q] \in Over

Claims(w, x) ==
  \A q \in Run \ {x} : Acting(w.task[q]) /\ w.bs[q] # NoSession => w.owner[w.bs[q]] = q

Sound(w, x) == w \in WorldType /\ Placed(w) /\ Deaf(w) /\ Claims(w, x)

\* What a started run leaves as it was.
Keeps(v, w) ==
  /\ v.st = w.st
  /\ v.bs = w.bs
  /\ \A q \in Run : Live(w, q) => v.task[q] = w.task[q]

LEMMA SoundWorld ==
  ASSUME LeaseInv
  PROVE  Sound(World, NoRun)
<1>1. World \in WorldType
  BY WorldIsTyped DEF LeaseInv
<1>2. Placed(World) /\ Deaf(World) /\ Claims(World, NoRun)
  BY DEF LeaseInv, RunsAreBound, DeafIsOver, OwnerActs, Placed, Deaf, Over, Claims, World
<1>. QED BY <1>1, <1>2 DEF Sound

LEMMA SoundBecomes ==
  ASSUME NEW w, Sound(w, NoRun), Becomes(w), inflight' \subseteq Handler
  PROVE  LeaseInv'
<1>1. TypeOK'
  BY BecomesType DEF Sound
<1>2. NoRun \notin Run
  BY DEF NoRun, Run
<1>3. RunsAreBound' /\ DeafIsOver' /\ OwnerActs'
  BY <1>2 DEF Sound, Placed, Deaf, Over, Claims, Becomes, RunsAreBound, DeafIsOver, OwnerActs
<1>. QED BY <1>1, <1>3 DEF LeaseInv

LEMMA SoundWeaken ==
  ASSUME NEW w, Sound(w, NoRun), NEW r \in Run
  PROVE  Sound(w, r)
<1>1. NoRun \notin Run
  BY DEF NoRun, Run
<1>. QED BY <1>1 DEF Sound, Claims

LEMMA SoundQuiet ==
  ASSUME NEW w, NEW r \in Run, Sound(w, r), ~Acting(w.task[r])
  PROVE  Sound(w, NoRun)
BY DEF Sound, Claims

LEMMA SoundCreateTask ==
  ASSUME NEW w, NEW x \in Run \cup {NoRun}, Sound(w, x), NEW r \in Run,
         ~Live(w, r), w.st[r] \notin Missing, ~OwnerBlocks(w, w.bs[r], r)
  PROVE  LET v == [CreateTask(w, r) EXCEPT !.owner[w.bs[r]] = r]
         IN  Sound(v, x) /\ Keeps(v, w)
<1>. DEFINE s == w.bs[r]
            v == [CreateTask(w, r) EXCEPT !.owner[s] = r]
<1>0. w \in WorldType /\ s \in Session
  BY DEF Sound, Placed, Missing
<1>1. v \in WorldType
  <2>1. CreateTask(w, r) \in WorldType
    BY <1>0, CreateTaskType
  <2>. QED BY <1>0, <2>1 DEF WorldType
<1>2. /\ v.st = w.st
      /\ v.bs = w.bs
      /\ v.task = [w.task EXCEPT ![r] = "created"]
      /\ v.owner = [w.owner EXCEPT ![s] = r]
  BY <1>0 DEF CreateTask, WorldType
<1>. HIDE DEF v
<1>3. Placed(v) /\ Deaf(v)
  BY <1>0, <1>1, <1>2 DEF Sound, Placed, Deaf, Missing, WorldType
<1>4. Claims(v, x)
  <2>1. SUFFICES ASSUME NEW q \in Run \ {x}, q # r, Acting(w.task[q]), w.bs[q] # NoSession
                 PROVE  w.owner[w.bs[q]] = q /\ w.bs[q] # s
    BY <1>0, <1>2 DEF Claims, Acting, WorldType
  <2>2. w.owner[w.bs[q]] = q
    BY <2>1 DEF Sound, Claims
  <2>3. InTasks(w, q) /\ q # NoRun
    BY <2>1 DEF InTasks, EngineState, Acting, NoRun, Run
  <2>. QED BY <2>1, <2>2, <2>3 DEF OwnerBlocks
<1>5. Keeps(v, w)
  BY <1>0, <1>2 DEF Keeps, Live, WorldType
<1>. QED BY <1>1, <1>3, <1>4, <1>5 DEF Sound, v

LEMMA SoundForget ==
  ASSUME NEW w, NEW x \in Run \cup {NoRun}, Sound(w, x), NEW r \in Run,
         ~Live(w, r), w.bs[r] \in Session, ~OwnerBlocks(w, w.bs[r], r)
  PROVE  LET v == ForgetStaleOwner(w, w.bs[r], r) IN Sound(v, x) /\ Keeps(v, w)
<1>. DEFINE s == w.bs[r]
            v == [w EXCEPT !.owner[s] = NoRun]
<1>0. w \in WorldType
  BY DEF Sound
<1>1. v \in WorldType
  BY <1>0 DEF WorldType
<1>2. v.st = w.st /\ v.bs = w.bs /\ v.task = w.task /\ v.owner = [w.owner EXCEPT ![s] = NoRun]
  BY <1>0 DEF WorldType
<1>. HIDE DEF v
<1>3. Placed(v) /\ Deaf(v) /\ Keeps(v, w)
  BY <1>2 DEF Sound, Placed, Deaf, Keeps
<1>4. Claims(v, x)
  <2>1. SUFFICES ASSUME NEW q \in Run \ {x}, Acting(w.task[q]), w.bs[q] # NoSession
                 PROVE  w.owner[w.bs[q]] = q /\ w.bs[q] # s
    BY <1>0, <1>2 DEF Claims, WorldType
  <2>2. w.owner[w.bs[q]] = q
    BY <2>1 DEF Sound, Claims
  <2>3. InTasks(w, q) /\ q # NoRun /\ q # r
    BY <2>1 DEF InTasks, EngineState, Live, Acting, NoRun, Run
  <2>. QED BY <2>1, <2>2, <2>3 DEF OwnerBlocks
<1>5. Sound(v, x) /\ Keeps(v, w)
  BY <1>1, <1>3, <1>4 DEF Sound
<1>6. Keeps(w, w)
  BY DEF Keeps
<1>. QED BY <1>5, <1>6 DEF ForgetStaleOwner, v

\* A computer-use task claims nothing.
LEMMA SoundEngineTask ==
  ASSUME NEW w, NEW x \in Run \cup {NoRun}, Sound(w, x), NEW r \in Run,
         ~Live(w, r), w.st[r] \notin Missing
  PROVE  LET v == CreateEngineTask(w, r) IN Sound(v, x) /\ Keeps(v, w)
<1>. DEFINE v == CreateEngineTask(w, r)
<1>1. w \in WorldType /\ v \in WorldType
  BY CreateEngineTaskType DEF Sound
<1>2. v.st = w.st /\ v.bs = w.bs /\ v.owner = w.owner /\ v.task = [w.task EXCEPT ![r] = "begin"]
  BY <1>1 DEF CreateEngineTask, WorldType
<1>. HIDE DEF v
<1>3. Placed(v) /\ Deaf(v)
  BY <1>1, <1>2 DEF Sound, Placed, Deaf, Missing, WorldType
<1>4. Claims(v, x)
  BY <1>1, <1>2 DEF Sound, Claims, Acting, WorldType
<1>5. Keeps(v, w)
  BY <1>1, <1>2 DEF Keeps, Live, WorldType
<1>. QED BY <1>1, <1>3, <1>4, <1>5 DEF Sound, v

\* start_execution takes a session only from nobody that acts on it.
LEMMA SoundStart ==
  ASSUME NEW w, NEW x \in Run \cup {NoRun}, Sound(w, x), NEW r \in Run
  PROVE  LET v == StartExecution(w, r) IN Sound(v, x) /\ Keeps(v, w)
<1>1. Keeps(w, w)
  BY DEF Keeps
<1>2. CASE w.st[r] \in Missing \/ Live(w, r)
  BY <1>1, <1>2 DEF StartExecution
<1>3. CASE ~(w.st[r] \in Missing \/ Live(w, r))
  <2>1. w.bs[r] \in Session /\ w.bs[r] # NoSession
    BY <1>3, SessionAssumption DEF Sound, Placed, Missing
  <2>2. CASE r \in EngineRun
    BY <1>3, <2>2, SoundEngineTask DEF StartExecution
  <2>3. CASE r \notin EngineRun /\ OwnerBlocks(w, w.bs[r], r)
    BY <1>1, <1>3, <2>1, <2>3 DEF StartExecution
  <2>4. CASE r \notin EngineRun /\ ~OwnerBlocks(w, w.bs[r], r)
    BY <1>3, <2>1, <2>4, SoundForget, SoundCreateTask DEF StartExecution
  <2>. QED BY <2>2, <2>3, <2>4
<1>. QED BY <1>2, <1>3

LEMMA SoundStartNext ==
  ASSUME NEW w, NEW x \in Run \cup {NoRun}, Sound(w, x), NEW s, NEW r \in Run
  PROVE  LET v == StartNext(w, s, r) IN Sound(v, x) /\ Keeps(v, w)
<1>1. CASE s = NoSession \/ Waiting(w, s, r) = {}
  BY <1>1 DEF StartNext, Keeps
<1>2. CASE ~(s = NoSession \/ Waiting(w, s, r) = {})
  <2>1. Oldest(Waiting(w, s, r)) \in Run
    BY <1>2, OldestIn, WhoWaits
  <2>. QED BY <1>2, <2>1, SoundStart DEF StartNext
<1>. QED BY <1>1, <1>2

LEMMA SoundRelease ==
  ASSUME NEW w, NEW r \in Run, Sound(w, r), NEW s \in Session \cup {NoSession}
  PROVE  LET v == ReleaseOwner(w, s, r)
         IN  Sound(v, r) /\ v.st = w.st /\ v.bs = w.bs /\ v.task = w.task
<1>0. w \in WorldType
  BY DEF Sound
<1>1. CASE ~(s # NoSession /\ w.owner[s] = r)
  BY <1>1 DEF ReleaseOwner
<1>2. CASE s # NoSession /\ w.owner[s] = r
  <2>. DEFINE v == [w EXCEPT !.owner[s] = NoRun]
  <2>1. v \in WorldType
    BY <1>0, <1>2 DEF WorldType
  <2>2. v.st = w.st /\ v.bs = w.bs /\ v.task = w.task /\ v.owner = [w.owner EXCEPT ![s] = NoRun]
    BY <1>0 DEF WorldType
  <2>. HIDE DEF v
  <2>3. Placed(v) /\ Deaf(v) /\ Claims(v, r)
    BY <1>0, <1>2, <2>2 DEF Sound, Placed, Deaf, Claims, WorldType
  <2>4. Sound(v, r)
    BY <2>1, <2>3 DEF Sound
  <2>. QED BY <1>2, <2>2, <2>4 DEF ReleaseOwner, v
<1>. QED BY <1>1, <1>2

LEMMA SoundWithState ==
  ASSUME NEW w, NEW x, Sound(w, x), NEW r \in Run,
         NEW state \in AnyState \ {"absent"}, w.st[r] # "absent",
         w.task[r] = "deaf" => state \in Over
  PROVE  LET v == WithState(w, r, state)
         IN  /\ Sound(v, x) /\ v.st[r] = state
             /\ v.bs = w.bs /\ v.task = w.task /\ v.owner = w.owner /\ v.lease = w.lease
<1>. DEFINE v == WithState(w, r, state)
<1>0. w \in WorldType
  BY DEF Sound
<1>1. v \in WorldType
  BY <1>0, WithStateType
<1>2. /\ v.st = [w.st EXCEPT ![r] = state] /\ v.bs = w.bs
      /\ v.task = w.task /\ v.owner = w.owner /\ v.lease = w.lease
  BY <1>0 DEF WithState, WorldType
<1>. HIDE DEF v
<1>3. v.st[r] = state
  BY <1>0, <1>2 DEF WorldType
<1>4. Placed(v) /\ Deaf(v) /\ Claims(v, x)
  BY <1>0, <1>2 DEF Sound, Placed, Deaf, Claims, WorldType
<1>. QED BY <1>1, <1>2, <1>3, <1>4 DEF Sound, v

LEMMA StatesDiffer == "absent" \notin HoldsBrowserSession \cup ReleasesBrowserSession \cup Over
BY DEF HoldsBrowserSession, ReleasesBrowserSession, Over, TERMINAL_STATES

\* A run that writes its own state keeps its claim, or gives it up and starts the
\* next queued run while it is itself still on its way out.
LEMMA SoundSetRunState ==
  ASSUME NEW w, Sound(w, NoRun), NEW r \in Run, Live(w, r),
         NEW state \in AnyState \ {"absent"},
         w.task[r] = "deaf" => state \in Over,
         state \in HoldsBrowserSession => Acting(w.task[r])
  PROVE  LET v == SetRunState(w, r, state)
         IN  /\ Sound(v, r)
             /\ state \in HoldsBrowserSession => Sound(v, NoRun)
             /\ v.task[r] = w.task[r]
             /\ v.st[r] = state
<1>. DEFINE w1 == WithState(w, r, state)
            s  == w.bs[r]
            v  == SetRunState(w, r, state)
<1>1. w.st[r] # "absent"
  BY DEF Sound, Placed, Live
<1>2. /\ Sound(w1, NoRun) /\ w1.st[r] = state
      /\ w1.bs = w.bs /\ w1.task = w.task /\ w1.owner = w.owner
  BY <1>1, SoundWithState
<1>. HIDE DEF w1
<1>3. Sound(w1, r) /\ w1 \in WorldType /\ s \in Session \cup {NoSession}
  BY <1>2, SoundWeaken DEF Sound, WorldType
<1>4. CASE s # NoSession /\ state \in HoldsBrowserSession
  <2>. DEFINE u == [w1 EXCEPT !.owner[s] = r]
  <2>1. u \in WorldType
    BY <1>3, <1>4 DEF WorldType
  <2>2. u.st = w1.st /\ u.bs = w1.bs /\ u.task = w1.task /\ u.owner = [w1.owner EXCEPT ![s] = r]
    BY <1>3 DEF WorldType
  <2>3. w1.owner[s] = r
    BY <1>2, <1>4 DEF Sound, Claims, NoRun, Run
  <2>. HIDE DEF u
  <2>4. u.owner = w1.owner
    BY <1>3, <1>4, <2>2, <2>3 DEF WorldType
  <2>5. Sound(u, NoRun)
    BY <1>2, <2>1, <2>2, <2>4 DEF Sound, Placed, Deaf, Claims
  <2>6. v = u
    BY <1>4 DEF SetRunState, w1, u
  <2>. QED BY <1>2, <2>2, <2>5, <2>6, SoundWeaken
<1>5. CASE s # NoSession /\ state \notin HoldsBrowserSession /\ state \in ReleasesBrowserSession
  <2>. DEFINE u == ReleaseOwner(w1, s, r)
              z == StartNext(u, s, r)
  <2>1. Sound(u, r) /\ u.st = w1.st /\ u.task = w1.task
    BY <1>3, SoundRelease
  <2>. HIDE DEF u
  <2>2. Sound(z, r) /\ Keeps(z, u)
    BY <2>1, SoundStartNext
  <2>3. v = z
    BY <1>5 DEF SetRunState, w1, u
  <2>. QED BY <1>2, <1>5, <2>1, <2>2, <2>3 DEF Keeps, Live
<1>6. CASE s = NoSession \/ (state \notin HoldsBrowserSession /\ state \notin ReleasesBrowserSession)
  <2>1. v = w1
    BY <1>6 DEF SetRunState, w1
  <2>. QED BY <1>2, <1>3, <2>1
<1>. QED BY <1>4, <1>5, <1>6

LEMMA SoundTaskGone ==
  ASSUME NEW w, NEW r \in Run, Sound(w, r)
  PROVE  Sound(TaskGone(w, r), NoRun)
<1>. DEFINE v == TaskGone(w, r)
<1>0. w \in WorldType
  BY DEF Sound
<1>1. v \in WorldType
  BY <1>0, TaskGoneType
<1>2. v.st = w.st /\ v.bs = w.bs /\ v.owner = w.owner /\ v.task = [w.task EXCEPT ![r] = "none"]
  BY <1>0 DEF TaskGone, WorldType
<1>. HIDE DEF v
<1>3. Placed(v) /\ Deaf(v) /\ Claims(v, NoRun)
  BY <1>0, <1>2 DEF Sound, Placed, Deaf, Claims, Acting, WorldType
<1>. QED BY <1>1, <1>3 DEF Sound, v

LEMMA SoundEndTask ==
  ASSUME NEW w, NEW r \in Run, Sound(w, r)
  PROVE  Sound(EndTask(w, r), NoRun)
<1>. DEFINE w1 == TaskGone(w, r)
            s  == w.lease[r]
            u  == ReleaseOwner(w1, s, r)
<1>1. Sound(w1, NoRun) /\ Sound(w1, r)
  BY SoundTaskGone, SoundWeaken
<1>2. s \in Session \cup {NoSession}
  BY DEF Sound, WorldType
<1>3. w1.task[r] = "none"
  BY DEF TaskGone, Sound, WorldType
<1>. HIDE DEF w1
<1>4. Sound(u, r) /\ u.task[r] = "none"
  BY <1>1, <1>2, <1>3, SoundRelease
<1>. HIDE DEF u
<1>5. Sound(u, NoRun)
  BY <1>4, SoundQuiet DEF Acting
<1>6. Sound(StartNext(u, s, r), NoRun)
  BY <1>5, SoundStartNext
<1>. QED BY <1>1, <1>6 DEF EndTask, w1, u

LEMMA SoundTaskAt ==
  ASSUME NEW w, NEW r \in Run, NEW t \in TaskState \ {"none"}, w.st[r] # "absent",
         \/ Sound(w, NoRun) /\ (Acting(w.task[r]) \/ ~Acting(t)) /\ t # "deaf"
         \/ Sound(w, r) /\ t = "deaf" /\ w.st[r] \in Over
  PROVE  Sound(TaskAt(w, r, t), NoRun)
<1>. DEFINE v == TaskAt(w, r, t)
<1>0. w \in WorldType
  BY DEF Sound
<1>1. v \in WorldType
  BY <1>0, TaskAtType
<1>2. v.st = w.st /\ v.bs = w.bs /\ v.owner = w.owner /\ v.task = [w.task EXCEPT ![r] = t]
  BY <1>0 DEF TaskAt, WorldType
<1>. HIDE DEF v
<1>3. Placed(v) /\ Deaf(v)
  BY <1>0, <1>2 DEF Sound, Placed, Deaf, Acting, WorldType
<1>4. CASE Sound(w, NoRun) /\ (Acting(w.task[r]) \/ ~Acting(t)) /\ t # "deaf"
  <2>1. SUFFICES ASSUME NEW q \in Run \ {NoRun}, Acting(v.task[q]), v.bs[q] # NoSession
                 PROVE  v.owner[v.bs[q]] = q
    BY <1>1, <1>3 DEF Sound, Claims, v
  <2>2. Acting(w.task[q])
    BY <1>0, <1>2, <1>4, <2>1 DEF WorldType
  <2>. QED BY <1>2, <1>4, <2>1, <2>2 DEF Sound, Claims
<1>5. CASE Sound(w, r) /\ t = "deaf"
  <2>1. Claims(v, r) /\ ~Acting(v.task[r])
    BY <1>0, <1>2, <1>5 DEF Sound, Claims, Acting, WorldType
  <2>. QED BY <1>1, <1>3, <2>1, SoundQuiet DEF Sound, v
<1>. QED BY <1>4, <1>5

LEMMA SoundCancelExecution ==
  ASSUME NEW w, NEW r \in Run, Sound(w, NoRun)
  PROVE  Sound(CancelExecution(w, r), NoRun)
<1>. DEFINE v == CancelExecution(w, r)
<1>0. w \in WorldType
  BY DEF Sound
<1>1. v \in WorldType
  BY <1>0, CancelExecutionType
<1>2. v.st = w.st /\ v.bs = w.bs /\ v.owner = w.owner /\ v.task = w.task
  BY <1>0 DEF CancelExecution, WorldType
<1>. HIDE DEF v
<1>. QED BY <1>1, <1>2 DEF Sound, Placed, Deaf, Claims, v

-----------------------------------------------------------------------------
(* Every step keeps LeaseInv.                                              *)

\* The assumptions under which the lease is exclusive: runs keep the session they
\* were created with, and a finished run comes back only after its task is gone.
Disciplined == ~MayBeUnbound /\ ~MayReviveLive

LEMMA OverIs ==
  /\ {"cancelled", "failed", "completed", "deleted"} \subseteq Over
  /\ TERMINAL_STATES \subseteq Over /\ ReleasesBrowserSession \subseteq Over
  /\ {"starting", "running", "waiting_for_human"} \subseteq HoldsBrowserSession
BY DEF Over, TERMINAL_STATES, ReleasesBrowserSession, HoldsBrowserSession

\* A user's pause, resume, ... finds a run that is not over, so its task is not deaf.
LEMMA ActionStates ==
  /\ \A a \in {"pause", "resume", "stop", "interrupt", "approve_sensitive_action"} :
       \A state : Allowed(state, a) => state \notin Over /\ state \notin Missing
  /\ \A state : Allowed(state, "retry") => state \in TERMINAL_STATES
  /\ TakeoverCandidates \cap (Over \cup Missing) = {}
  /\ "human_controlling" \notin Over \cup Missing
  /\ ReleasesBrowserSession \cap Missing = {}
  /\ TERMINAL_STATES \cap Missing = {}
BY DEF Allowed, ACTION_ALLOWED_STATES, Over, Missing, TERMINAL_STATES, TakeoverCandidates,
       ReleasesBrowserSession

\* Writing a state into a run whose task is not deaf, or a final one into any run.
LEMMA SoundWrite ==
  ASSUME LeaseInv, NEW r \in Run, st[r] # "absent",
         NEW state \in AnyState \ {"absent"}, task[r] = "deaf" => state \in Over
  PROVE  Sound(WithState(World, r, state), NoRun)
<1>1. World.st[r] # "absent" /\ (World.task[r] = "deaf" => state \in Over)
  BY DEF World
<1>. QED BY <1>1, SoundWorld, SoundWithState

LEMMA SoundReconcile ==
  ASSUME LeaseInv, NEW r \in Run, st[r] \notin Over \cup Missing, Reconcile(r)
  PROVE  LeaseInv'
<1>1. task[r] # "deaf" /\ st[r] # "absent"
  BY DEF LeaseInv, DeafIsOver, Over, Missing
<1>2. Sound(WithState(World, r, "reconciling"), NoRun)
  BY <1>1, WrittenStates, SoundWrite
<1>3. Sound(StartExecution(WithState(World, r, "reconciling"), r), NoRun)
  BY <1>2, SoundStart
<1>. QED BY <1>3, SoundBecomes DEF Reconcile, LeaseInv, TypeOK

LEMMA SoundStartWithRetry ==
  ASSUME LeaseInv, NEW w, Sound(w, NoRun), NEW r \in Run, StartWithRetry(w, r)
  PROVE  LeaseInv'
<1>1. Sound(StartExecution(w, r), NoRun)
  BY SoundStart
<1>2. inflight' \subseteq Handler
  BY HandlingType DEF StartWithRetry, LeaseInv, TypeOK
<1>. QED BY <1>1, <1>2, SoundBecomes DEF StartWithRetry

LEMMA SoundRequest ==
  ASSUME Disciplined, LeaseInv, NEW r \in Run, Request(r)
  PROVE  LeaseInv'
<1>. USE WrittenStates, OverIs
<1>a. inflight \subseteq Handler /\ bs[r] \in Session \cup {NoSession} /\ TypeOK
  BY DEF LeaseInv, TypeOK
<1>b. \A state \in AnyState : state # "absent" /\ st[r] # "absent"
           /\ (task[r] = "deaf" => state \in Over)
         => Sound(WithState(World, r, state), NoRun)
  BY SoundWrite
<1>c. st[r] \notin Over => task[r] # "deaf"
  BY DEF LeaseInv, DeafIsOver, Over
<1>d. Sound(World, NoRun)
  BY SoundWorld
<1>1. ASSUME NEW s \in Session, NEW state \in {"awaiting_confirmation", "queued"},
             CreateRun(r, s, state)
      PROVE  LeaseInv'
  <2>. DEFINE w == [World EXCEPT !.st[r] = state, !.bs[r] = s]
  <2>1. st[r] = "absent" /\ task[r] = "none"
    BY <1>1 DEF CreateRun, LeaseInv, RunsAreBound
  <2>2. w \in WorldType
    <3>1. \A v \in WorldType : [v EXCEPT !.st[r] = state, !.bs[r] = s] \in WorldType
      BY DEF WorldType
    <3>. QED BY <1>d, <3>1 DEF Sound
  <2>3. /\ w.st = [st EXCEPT ![r] = state] /\ w.bs = [bs EXCEPT ![r] = s]
        /\ w.task = task /\ w.owner = owner
    BY DEF World
  <2>. HIDE DEF w
  <2>4. Placed(w) /\ Deaf(w) /\ Claims(w, NoRun)
    BY <1>a, <2>1, <2>3 DEF LeaseInv, RunsAreBound, DeafIsOver, OwnerActs, Placed, Deaf, Over,
       Claims, Acting, TypeOK
  <2>5. Sound(w, NoRun)
    BY <2>2, <2>4 DEF Sound
  <2>6. CASE state = "queued"
    <3>1. StartWithRetry(w, r)
      BY <1>1, <2>6 DEF CreateRun, w
    <3>. QED BY <2>5, <3>1, SoundStartWithRetry
  <2>7. CASE state # "queued"
    <3>1. Becomes(w) /\ inflight' = inflight
      BY <1>1, <2>7 DEF CreateRun, w
    <3>. QED BY <1>a, <2>5, <3>1, SoundBecomes
  <2>. QED BY <2>6, <2>7
<1>2. CASE ConfirmIntent(r)
  <2>1. st[r] # "absent" /\ task[r] # "deaf"
    BY <1>2 DEF ConfirmIntent, Missing, Revives, Disciplined, Live, World, LeaseInv, DeafIsOver
  <2>2. Sound(StartExecution(WithState(World, r, "queued"), r), NoRun)
    BY <1>b, <2>1, SoundStart
  <2>. QED BY <1>2, <1>a, <2>2, SoundBecomes DEF ConfirmIntent
<1>3. CASE RejectIntent(r)
  BY <1>3, <1>a, <1>b, SoundBecomes DEF RejectIntent, Missing
<1>4. CASE Resume(r) \/ Approve(r)
  BY <1>4, ActionStates, SoundReconcile DEF Resume, Approve
<1>5. CASE Pause(r)
  <2>. DEFINE w == WithState(World, r, "paused")
  <2>1. Sound(w, NoRun) /\ Sound(CancelExecution(w, r), NoRun)
    BY <1>5, <1>b, <1>c, ActionStates, SoundCancelExecution DEF Pause, Missing
  <2>2. inflight' \subseteq Handler
    BY <1>5, <1>a, HandlingType DEF Pause
  <2>. QED BY <1>5, <2>1, <2>2, SoundBecomes DEF Pause
<1>6. CASE Stop(r)
  <2>. DEFINE w == WithState(World, r, "cancelled")
  <2>1. Sound(w, NoRun) /\ Sound(StopTail(w, r, bs[r]), NoRun)
    BY <1>6, <1>b, ActionStates, SoundCancelExecution, SoundStartNext DEF Stop, StopTail, Missing
  <2>2. inflight' \subseteq Handler
    BY <1>6, <1>a, HandlingType DEF Stop
  <2>. QED BY <1>6, <2>1, <2>2, SoundBecomes DEF Stop
<1>7. ASSUME NEW s \in Session \cup {NoSession}, Retry(r, s)
      PROVE  LeaseInv'
  <2>. DEFINE w == [World EXCEPT !.st[r] = "starting", !.bs[r] = s]
  <2>1. task[r] = "none" /\ st[r] # "absent"
    BY <1>7, ActionStates DEF Retry, Revives, Disciplined, Live, World, Missing
  <2>2. s \in Session
    BY <1>7, <2>1 DEF Retry, LeaseInv, RunsAreBound
  <2>3. w \in WorldType
    <3>1. \A v \in WorldType : [v EXCEPT !.st[r] = "starting", !.bs[r] = s] \in WorldType
      BY DEF WorldType
    <3>. QED BY <1>d, <3>1 DEF Sound
  <2>4. /\ w.st = [st EXCEPT ![r] = "starting"] /\ w.bs = [bs EXCEPT ![r] = s]
        /\ w.task = task /\ w.owner = owner
    BY DEF World
  <2>. HIDE DEF w
  <2>5. Placed(w) /\ Deaf(w) /\ Claims(w, NoRun)
    BY <1>a, <2>1, <2>2, <2>4 DEF LeaseInv, RunsAreBound, DeafIsOver, OwnerActs, Placed, Deaf,
       Over, Claims, Acting, TypeOK
  <2>6. Sound(w, NoRun)
    BY <2>3, <2>5 DEF Sound
  <2>7. StartWithRetry(w, r)
    BY <1>7 DEF Retry, w
  <2>. QED BY <2>6, <2>7, SoundStartWithRetry
<1>8. CASE RetryRejected(r)
  <2>1. task[r] = "none" /\ st[r] # "absent"
    BY <1>8, ActionStates DEF RetryRejected, Revives, Disciplined, Live, World, Missing
  <2>. QED BY <1>8, <1>a, <1>b, <2>1, SoundBecomes DEF RetryRejected
<1>9. CASE Interrupt(r)
  BY <1>9, <1>a, <1>b, <1>c, ActionStates, SoundBecomes DEF Interrupt, Missing
<1>10. CASE DeleteRun(r)
  BY <1>10, <1>a, <1>b, ActionStates, SoundBecomes DEF DeleteRun, Missing
<1>11. ASSUME NEW s \in Session, Takeover(s, r)
       PROVE  LeaseInv'
  <2>1. st[r] \in TakeoverCandidates
    BY <1>11 DEF Takeover, Newest
  <2>2. task[r] # "deaf" /\ st[r] # "absent"
    BY <1>c, <2>1, ActionStates DEF Missing
  <2>. QED BY <1>11, <1>a, <1>b, <2>2, SoundBecomes DEF Takeover
<1>12. ASSUME NEW s \in Session, Release(s, r)
       PROVE  LeaseInv'
  BY <1>12, ActionStates, SoundReconcile DEF Release, Newest
<1>. QED BY <1>1, <1>2, <1>3, <1>4, <1>5, <1>6, <1>7, <1>8, <1>9, <1>10, <1>11, <1>12
     DEF Request, Disciplined

LEMMA SoundContinues ==
  ASSUME LeaseInv, NEW h \in inflight, Continues(h)
  PROVE  LeaseInv'
<1>1. h.run \in Run /\ inflight' \subseteq Handler
  BY DEF Continues, LeaseInv, TypeOK, Handler
<1>2. /\ Sound(StartExecution(World, h.run), NoRun)
      /\ Sound(CancelExecution(World, h.run), NoRun)
      /\ Sound(StopTail(World, h.run, h.sess), NoRun)
  BY <1>1, SoundWorld, SoundStart, SoundCancelExecution, SoundStartNext DEF StopTail
<1>. QED BY <1>1, <1>2, SoundBecomes DEF Continues, StartAgain, PauseReturns, StopReturns

\* A task that runs is acting, unless it reads a stream it has given up.
LEMMA RunningTask ==
  ASSUME LeaseInv, NEW r \in Run, NEW t \in TaskState \ {"none"}, Runs(r, t),
         t \notin EngineState
  PROVE  /\ World.task[r] = t /\ World.st[r] = st[r] /\ st[r] # "absent" /\ Live(World, r)
         /\ t # "deaf" => Acting(t)
         /\ t = "deaf" => st[r] \in TERMINAL_STATES
BY DEF Runs, World, Live, TaskState, EngineState, Acting, LeaseInv, RunsAreBound, DeafIsOver

\* The executor writes a state that keeps the session, and its task goes on.
LEMMA SoundHold ==
  ASSUME LeaseInv, NEW r \in Run, NEW t \in TaskState \ {"none", "deaf"}, Runs(r, t),
         t \notin EngineState,
         NEW state \in HoldsBrowserSession, state \in AnyState,
         NEW u \in TaskState \ {"none", "deaf"}
  PROVE  /\ Sound(SetRunState(World, r, state), NoRun)
         /\ Sound(TaskAt(SetRunState(World, r, state), r, u), NoRun)
         /\ Sound(EndTask(SetRunState(World, r, state), r), NoRun)
<1>1. Acting(World.task[r]) /\ World.task[r] # "deaf" /\ Live(World, r)
  BY RunningTask
<1>2. state # "absent"
  BY StatesDiffer
<1>. DEFINE v == SetRunState(World, r, state)
<1>3. Sound(v, r) /\ Sound(v, NoRun) /\ v.task[r] = World.task[r] /\ v.st[r] = state
  BY <1>1, <1>2, SoundWorld, SoundSetRunState
<1>. HIDE DEF v
<1>. QED BY <1>1, <1>2, <1>3, SoundTaskAt, SoundEndTask DEF v

\* The executor writes a final state, and its task goes deaf or ends.
LEMMA SoundFinish ==
  ASSUME LeaseInv, NEW r \in Run, Live(World, r),
         NEW state \in {"cancelled", "failed", "completed"}
  PROVE  /\ Sound(TaskAt(SetRunState(World, r, state), r, "deaf"), NoRun)
         /\ Sound(EndTask(SetRunState(World, r, state), r), NoRun)
<1>1. state \in Over /\ state \notin HoldsBrowserSession /\ state \in AnyState \ {"absent"}
  BY OverIs, WrittenStates DEF HoldsBrowserSession
<1>. DEFINE v == SetRunState(World, r, state)
<1>2. Sound(v, r) /\ v.st[r] = state
  BY <1>1, SoundWorld, SoundSetRunState
<1>3. "deaf" \in TaskState \ {"none"}
  BY DEF TaskState, EngineState
<1>. HIDE DEF v
<1>. QED BY <1>1, <1>2, <1>3, SoundTaskAt, SoundEndTask DEF v

LEMMA SoundExecutes ==
  ASSUME Disciplined, LeaseInv, NEW r \in Run, Executes(r)
  PROVE  LeaseInv'
<1>. USE OverIs, WrittenStates
<1>a. inflight' \subseteq Handler /\ inflight \subseteq Handler
  BY DEF LeaseInv, TypeOK, Executes, TaskBegin, TaskRun, ResolveFallback, Observe,
     ObserveTerminal, GoDeaf, CarryOn, StreamWaits, StreamIncident, Conclude, DeafEnds, TaskFails,
     EngineDrives, EngineEnds
<1>b. Sound(World, NoRun) /\ Sound(World, r)
  BY SoundWorld, SoundWeaken
<1>c. {"created", "context", "stream", "decide"} \subseteq TaskState \ ({"none", "deaf"} \cup EngineState)
  BY DEF TaskState, EngineState
<1>1. CASE TaskBegin(r)
  BY <1>1, <1>a, <1>c, SoundHold, SoundBecomes DEF TaskBegin
<1>2. CASE TaskRun(r)
  BY <1>2, <1>a, <1>c, SoundHold, SoundBecomes DEF TaskRun
<1>3. CASE Observe(r)
  <2>1. Sound(TaskAt(World, r, "decide"), NoRun)
    BY <1>3, <1>b, <1>c, RunningTask, SoundTaskAt DEF Observe
  <2>. QED BY <1>3, <1>a, <2>1, SoundBecomes DEF Observe
<1>4. CASE CarryOn(r)
  <2>1. Sound(TaskAt(World, r, "stream"), NoRun)
    BY <1>4, <1>b, <1>c, RunningTask, SoundTaskAt DEF CarryOn
  <2>. QED BY <1>4, <1>a, <2>1, SoundBecomes DEF CarryOn
<1>5. CASE ObserveTerminal(r) \/ DeafEnds(r)
  BY <1>5, <1>a, <1>b, SoundEndTask, SoundBecomes DEF ObserveTerminal, DeafEnds
<1>6. CASE GoDeaf(r)
  <2>1. World.st[r] # "absent" /\ World.st[r] \in Over
    BY <1>6, <1>c, RunningTask DEF GoDeaf, Terminal
  <2>2. Sound(TaskAt(World, r, "deaf"), NoRun)
    BY <1>b, <2>1, SoundTaskAt DEF TaskState, EngineState
  <2>. QED BY <1>6, <1>a, <2>2, SoundBecomes DEF GoDeaf
<1>7. ASSUME Streaming(r)
      PROVE  Runs(r, "stream")
  <2>1. ~Runs(r, "deaf")
    BY <1>7, RunningTask DEF Streaming, Terminal, TaskState, EngineState
  <2>. QED BY <1>7, <2>1 DEF Streaming
<1>8. CASE StreamWaits(r)
  BY <1>8, <1>7, <1>a, <1>c, SoundHold, SoundBecomes DEF StreamWaits
<1>9. CASE StreamIncident(r)
  <2>1. Live(World, r)
    BY <1>9, <1>7, <1>c, RunningTask DEF StreamIncident
  <2>. QED BY <1>9, <1>a, <2>1, SoundFinish, SoundBecomes DEF StreamIncident
<1>10. ASSUME NEW state \in Outcomes, Conclude(r, state)
       PROVE  LeaseInv'
  <2>1. Runs(r, "decide") /\ Live(World, r)
    BY <1>10, <1>c, RunningTask DEF Conclude
  <2>2. CASE state \in {"completed", "failed"}
    BY <1>10, <1>a, <2>1, <2>2, SoundFinish, SoundBecomes DEF Conclude
  <2>3. CASE state \in {"waiting_for_human", "waiting_for_user_action"}
    <3>1. state \in HoldsBrowserSession /\ state \in AnyState
      BY <2>3 DEF HoldsBrowserSession
    <3>. QED BY <1>10, <1>a, <1>c, <2>1, <3>1, SoundHold, SoundBecomes DEF Conclude
  <2>. QED BY <2>2, <2>3 DEF Outcomes
<1>11. CASE TaskFails(r)
  <2>1. Live(World, r)
    BY <1>11 DEF TaskFails, InTasks, Live
  <2>. QED BY <1>11, <1>a, <2>1, SoundFinish, SoundBecomes DEF TaskFails
<1>12. CASE EngineDrives(r)
  <2>. DEFINE w == WithState(World, r, "running")
  <2>1. task[r] = "begin" /\ st[r] # "absent"
    BY <1>12 DEF EngineDrives, Runs, LeaseInv, RunsAreBound
  <2>2. Sound(w, NoRun)
    BY <2>1, StatesDiffer, SoundWrite
  <2>3. w.st[r] # "absent" /\ w.bs = bs
    BY <1>b DEF WithState, World, Sound, WorldType
  <2>4. Becomes(TaskAt([w EXCEPT !.bs[r] = bs[r]], r, "engine"))
    BY <1>12 DEF EngineDrives, Disciplined
  <2>. HIDE DEF w
  <2>5. [w EXCEPT !.bs[r] = bs[r]] = w
    BY <2>2, <2>3 DEF Sound, WorldType
  <2>6. "engine" \in TaskState \ {"none"} /\ ~Acting("engine")
    BY DEF TaskState, EngineState, Acting
  <2>7. Sound(TaskAt(w, r, "engine"), NoRun)
    BY <2>2, <2>3, <2>6, SoundTaskAt
  <2>. QED BY <1>a, <2>4, <2>5, <2>7, SoundBecomes
<1>13. CASE EngineEnds(r)
  <2>1. task[r] \in EngineState /\ st[r] # "absent" /\ st[r] \in AnyState
    BY <1>13, WorldIsTyped DEF EngineEnds, Runs, EngineState, LeaseInv, RunsAreBound, TypeOK, AnyState
  <2>2. PICK state \in {st[r], "failed", "completed"} :
          Becomes(TaskGone(WithState(World, r, state), r))
    BY <1>13 DEF EngineEnds
  <2>3. state \in AnyState \ {"absent"} /\ task[r] # "deaf"
    BY <2>1 DEF EngineState
  <2>4. Sound(TaskGone(WithState(World, r, state), r), NoRun)
    BY <2>1, <2>3, SoundWrite, SoundWeaken, SoundTaskGone
  <2>. QED BY <1>a, <2>2, <2>4, SoundBecomes
<1>. QED BY <1>1, <1>2, <1>3, <1>4, <1>5, <1>6, <1>8, <1>9, <1>10, <1>11, <1>12, <1>13
     DEF Executes, ResolveFallback, Disciplined

LEMMA SoundTaskEnds ==
  ASSUME LeaseInv, NEW r \in Run, TaskEnds(r)
  PROVE  LeaseInv'
<1>1. Sound(World, NoRun) /\ Sound(World, r)
  BY SoundWorld, SoundWeaken
<1>2. inflight' \subseteq Handler
  BY DEF LeaseInv, TypeOK, TaskEnds, TaskDropped, TaskCancelled, EngineCutOff, TaskLosesRun
<1>3. CASE TaskDropped(r)
  BY <1>1, <1>2, <1>3, SoundTaskGone, SoundBecomes DEF TaskDropped
<1>4. CASE TaskCancelled(r)
  <2>1. Live(World, r)
    BY <1>4 DEF TaskCancelled, InTasks, Live
  <2>2. Sound(EndTask(IF Terminal(r) THEN World ELSE SetRunState(World, r, "cancelled"), r), NoRun)
    BY <1>1, <2>1, SoundEndTask, SoundFinish
  <2>. QED BY <1>2, <1>4, <2>2, SoundBecomes DEF TaskCancelled
<1>5. CASE TaskLosesRun(r)
  BY <1>1, <1>2, <1>5, SoundEndTask, SoundBecomes DEF TaskLosesRun
<1>6. CASE EngineCutOff(r)
  BY <1>1, <1>2, <1>6, SoundTaskGone, SoundBecomes DEF EngineCutOff
<1>. QED BY <1>3, <1>4, <1>5, <1>6 DEF TaskEnds

LEMMA SoundCrash ==
  ASSUME LeaseInv, Crash
  PROVE  LeaseInv'
<1>1. TypeOK'
  BY CrashType DEF LeaseInv
<1>. QED BY <1>1 DEF LeaseInv, TypeOK, RunsAreBound, OwnerActs, DeafIsOver, Acting, Crash

LEMMA InitLease == Init => LeaseInv
BY InitType DEF Init, LeaseInv, RunsAreBound, OwnerActs, DeafIsOver, Acting

\* LeaseInv is an invariant: runs keep a session, every acting task is the
\* recorded owner of its run's session, and a task that ignores its stream belongs
\* to a run that is over.  It holds for any number of runs and sessions when runs
\* are bound to a session and no finished run is revived under a live task.
THEOREM LeaseInductive ==
  ASSUME Disciplined
  PROVE  Spec => []LeaseInv
<1>1. LeaseInv /\ [Next]_vars => LeaseInv'
  <2>. SUFFICES ASSUME LeaseInv, [Next]_vars PROVE LeaseInv'
    OBVIOUS
  <2>1. CASE Next
    BY <2>1, SoundRequest, SoundExecutes, SoundTaskEnds, SoundContinues, SoundCrash DEF Next
  <2>2. CASE UNCHANGED vars
    BY <2>2 DEF vars, LeaseInv, TypeOK, RunsAreBound, OwnerActs, DeafIsOver
  <2>. QED BY <2>1, <2>2
<1>. QED BY InitLease, <1>1, PTL DEF Spec

\* A session has one recorded owner, so no two runs drive one browser session:
\* start_execution, the releases, takeovers, retries and hand-overs of
\* executor.py and run_service.py never let a second task onto it.
THEOREM LeaseIsExclusive ==
  ASSUME Disciplined
  PROVE  Spec => []LeaseExclusive
<1>1. LeaseInv => LeaseExclusive
  BY DEF LeaseInv, OwnerActs, LeaseExclusive
<1>. QED BY LeaseInductive, <1>1, PTL

\* The recorded owner of a session is the task that acts on it.
THEOREM OwnerAlwaysActs ==
  ASSUME Disciplined
  PROVE  Spec => []OwnerActs
<1>1. LeaseInv => OwnerActs
  BY DEF LeaseInv
<1>. QED BY LeaseInductive, <1>1, PTL

-----------------------------------------------------------------------------
(* What a step starts and what it hands over.  The world a step is on its  *)
(* way to (a handler starts runs one after the other) is compared with the *)
(* tables before the step; x is the run whose task the step has ended, or  *)
(* NoRun.                                                                  *)

\* No other listed run waits for its user on the session of run p.
Undisturbed(v, p) ==
  v.bs[p] # NoSession => \A q \in Listed(v, v.bs[p]) \ {p} : v.st[q] \notin AwaitsUser

StartsWell(v) == \A p \in Run : task[p] = "none" /\ v.task[p] = "created" => Undisturbed(v, p)

GoesOn(v, x) ==
  \A p \in Run \ {x} : task[p] # "none" => v.task[p] # "none" /\ v.lease[p] = lease[p]

Underway(v, x) == v \in WorldType /\ StartsWell(v) /\ GoesOn(v, x)

\* No listed queued run of session s is left behind by run r, unless a computer-use
\* run was started instead.
HandedOver(v, s, r) ==
  \/ \E e \in Run : task[e] = "none" /\ v.task[e] = "begin"
  \/ \A q \in Waiting(v, s, r) : OwnerBlocks(v, s, q) \/ CandidateBlocks(v, s, q)

\* The bodies of the two action properties.
WaitsAreKept ==
  \A r \in Run :
    Starts(r) /\ bs'[r] # NoSession
      => \A q \in Listed(World', bs'[r]) \ {r} : st'[q] \notin AwaitsUser

EndsHandOver ==
  \A r \in Run : \A s \in Session :
    Finishes(r) /\ lease[r] = s /\ st'[r] \in ReleasesBrowserSession /\ ~EngineTakesOver
      => \A q \in Waiting(World', s, r) :
           OwnerBlocks(World', s, q) \/ CandidateBlocks(World', s, q)

\* A world that has the tasks it began with has started nothing.
LEMMA UnderwayBegins ==
  ASSUME NEW v \in WorldType, v.task = task, v.lease = lease
  PROVE  Underway(v, NoRun)
BY DEF Underway, StartsWell, GoesOn

\* Who waits for its user depends on the rows' states and sessions alone.
LEMMA UndisturbedSame ==
  ASSUME NEW v, NEW w, v.st = w.st, v.bs = w.bs, NEW p
  PROVE  Undisturbed(v, p) <=> Undisturbed(w, p)
<1>1. Listed(v, v.bs[p]) = Listed(w, w.bs[p])
  BY ListedSame
<1>. QED BY <1>1 DEF Undisturbed

\* A run that waits for its user keeps start_execution off its session.
LEMMA UnderwayStart ==
  ASSUME NEW v, NEW x \in Run \cup {NoRun}, Underway(v, x), NEW r \in Run
  PROVE  LET z == StartExecution(v, r)
         IN  Underway(z, x) /\ z.st = v.st /\ z.bs = v.bs
<1>. DEFINE s == v.bs[r]
            z == StartExecution(v, r)
<1>. SUFFICES Underway(z, x) /\ z.st = v.st /\ z.bs = v.bs
  OBVIOUS
<1>1. v \in WorldType /\ z \in WorldType
  BY StartExecutionType DEF Underway
<1>2. CASE z.st = v.st /\ z.bs = v.bs /\ z.task = v.task /\ z.lease = v.lease
  <2>. HIDE DEF z
  <2>. QED BY <1>1, <1>2, UndisturbedSame DEF Underway, StartsWell, GoesOn
<1>2e. CASE /\ z.st = v.st /\ z.bs = v.bs /\ z.lease = v.lease
            /\ z.task = [v.task EXCEPT ![r] = "begin"] /\ ~Live(v, r)
  <2>. HIDE DEF z
  <2>1. \A p \in Run \ {r} : z.task[p] = v.task[p]
    BY <1>1, <1>2e DEF WorldType
  <2>2. z.task[r] = "begin" /\ v.task[r] = "none"
    BY <1>1, <1>2e DEF WorldType, Live
  <2>3. StartsWell(z)
    BY <1>2e, <2>1, <2>2, UndisturbedSame DEF Underway, StartsWell
  <2>4. GoesOn(z, x)
    BY <1>2e, <2>1, <2>2 DEF Underway, GoesOn
  <2>. QED BY <1>1, <1>2e, <2>3, <2>4 DEF Underway
<1>3. CASE /\ z.st = v.st /\ z.bs = v.bs
           /\ z.task = [v.task EXCEPT ![r] = "created"] /\ z.lease = [v.lease EXCEPT ![r] = s]
           /\ ~Live(v, r)
           /\ s # NoSession => ~CandidateBlocks(v, s, r)
  <2>. HIDE DEF z
  <2>1. \A p \in Run \ {r} : z.task[p] = v.task[p] /\ z.lease[p] = v.lease[p]
    BY <1>1, <1>3 DEF WorldType
  <2>2. AwaitsUser \subseteq HoldsBrowserSession
    BY DEF AwaitsUser, HoldsBrowserSession
  <2>3. Undisturbed(z, r)
    <3>1. Undisturbed(v, r)
      BY <1>3, <2>2 DEF Undisturbed, CandidateBlocks
    <3>. QED BY <1>3, <3>1, UndisturbedSame
  <2>4. StartsWell(z)
    BY <1>3, <2>1, <2>3, UndisturbedSame DEF Underway, StartsWell
  <2>5. GoesOn(z, x)
    BY <1>3, <2>1 DEF Underway, GoesOn, Live
  <2>. QED BY <1>1, <1>3, <2>4, <2>5 DEF Underway
<1>4. CASE v.st[r] \in Missing \/ Live(v, r)
  <2>1. z = v
    BY <1>4 DEF StartExecution
  <2>. QED BY <1>2, <2>1
<1>4e. CASE ~(v.st[r] \in Missing \/ Live(v, r)) /\ r \in EngineRun
  <2>1. z = CreateEngineTask(v, r)
    BY <1>4e DEF StartExecution
  <2>2. /\ z.st = v.st /\ z.bs = v.bs /\ z.lease = v.lease
        /\ z.task = [v.task EXCEPT ![r] = "begin"]
    BY <1>1, <2>1 DEF CreateEngineTask, WorldType
  <2>. QED BY <1>2e, <1>4e, <2>2
<1>5. CASE ~(v.st[r] \in Missing \/ Live(v, r)) /\ r \notin EngineRun /\ s = NoSession
  <2>1. z = CreateTask(v, r)
    BY <1>5 DEF StartExecution
  <2>. QED BY <1>1, <1>3, <1>5, <2>1 DEF CreateTask, WorldType
<1>6. CASE ~(v.st[r] \in Missing \/ Live(v, r)) /\ r \notin EngineRun /\ s # NoSession
           /\ OwnerBlocks(v, s, r)
  <2>1. z = v
    BY <1>6 DEF StartExecution
  <2>. QED BY <1>2, <2>1
<1>7. CASE ~(v.st[r] \in Missing \/ Live(v, r)) /\ r \notin EngineRun /\ s # NoSession
           /\ ~OwnerBlocks(v, s, r)
           /\ CandidateBlocks(v, s, r)
  <2>1. z = ForgetStaleOwner(v, s, r)
    BY <1>7 DEF StartExecution
  <2>2. z.st = v.st /\ z.bs = v.bs /\ z.task = v.task /\ z.lease = v.lease
    BY <1>1, <2>1 DEF ForgetStaleOwner, WorldType
  <2>. QED BY <1>2, <2>2
<1>8. CASE ~(v.st[r] \in Missing \/ Live(v, r)) /\ r \notin EngineRun /\ s # NoSession
           /\ ~OwnerBlocks(v, s, r)
           /\ ~CandidateBlocks(v, s, r)
  <2>1. z = [CreateTask(v, r) EXCEPT !.owner[s] = r]
    BY <1>8 DEF StartExecution
  <2>2. /\ z.st = v.st /\ z.bs = v.bs
        /\ z.task = [v.task EXCEPT ![r] = "created"] /\ z.lease = [v.lease EXCEPT ![r] = s]
    BY <1>1, <2>1 DEF CreateTask, WorldType
  <2>. QED BY <1>3, <1>8, <2>2
<1>. QED BY <1>4, <1>4e, <1>5, <1>6, <1>7, <1>8

LEMMA UnderwayStartNext ==
  ASSUME NEW v, NEW x \in Run \cup {NoRun}, Underway(v, x), NEW s, NEW r \in Run
  PROVE  LET z == StartNext(v, s, r)
         IN  Underway(z, x) /\ z.st = v.st /\ z.bs = v.bs
<1>1. CASE s = NoSession \/ Waiting(v, s, r) = {}
  BY <1>1 DEF StartNext
<1>2. CASE ~(s = NoSession \/ Waiting(v, s, r) = {})
  <2>1. Oldest(Waiting(v, s, r)) \in Run
    BY <1>2, OldestIn, WhoWaits
  <2>. QED BY <1>2, <2>1, UnderwayStart DEF StartNext
<1>. QED BY <1>1, <1>2

\* Where only the owners, or what is cancelled, are written.
LEMMA UnderwaySame ==
  ASSUME NEW v, NEW x \in Run \cup {NoRun}, Underway(v, x), NEW z \in WorldType,
         z.st = v.st, z.bs = v.bs, z.task = v.task, z.lease = v.lease
  PROVE  Underway(z, x)
BY UndisturbedSame DEF Underway, StartsWell, GoesOn

LEMMA UnderwayRelease ==
  ASSUME NEW v, NEW x \in Run \cup {NoRun}, Underway(v, x), NEW s \in Session \cup {NoSession},
         NEW r \in Run
  PROVE  LET z == ReleaseOwner(v, s, r)
         IN  Underway(z, x) /\ z.st = v.st /\ z.bs = v.bs /\ z.task = v.task /\ z.lease = v.lease
<1>. DEFINE z == ReleaseOwner(v, s, r)
<1>1. v \in WorldType /\ z \in WorldType
  BY ReleaseOwnerType DEF Underway
<1>2. z.st = v.st /\ z.bs = v.bs /\ z.task = v.task /\ z.lease = v.lease
  BY <1>1 DEF ReleaseOwner, WorldType
<1>. HIDE DEF z
<1>3. Underway(z, x)
  BY <1>1, <1>2, UnderwaySame
<1>. QED BY <1>2, <1>3 DEF z

LEMMA UnderwayCancel ==
  ASSUME NEW v, NEW x \in Run \cup {NoRun}, Underway(v, x), NEW r \in Run
  PROVE  Underway(CancelExecution(v, r), x)
<1>. DEFINE z == CancelExecution(v, r)
<1>1. v \in WorldType /\ z \in WorldType
  BY CancelExecutionType DEF Underway
<1>2. z.st = v.st /\ z.bs = v.bs /\ z.task = v.task /\ z.lease = v.lease
  BY <1>1 DEF CancelExecution, WorldType
<1>. HIDE DEF z
<1>3. Underway(z, x)
  BY <1>1, <1>2, UnderwaySame
<1>. QED BY <1>3 DEF z
\* The executor writes the state of its own run before any run is started.
LEMMA UnderwaySetRunState ==
  ASSUME TypeOK, NEW r \in Run, NEW state \in AnyState
  PROVE  Underway(SetRunState(World, r, state), NoRun)
<1>. DEFINE w1 == WithState(World, r, state)
            s  == World.bs[r]
            v  == SetRunState(World, r, state)
<1>1. w1 \in WorldType /\ s \in Session \cup {NoSession}
  BY WorldIsTyped, WithStateType DEF WorldType
<1>2. w1.task = task /\ w1.lease = lease
  BY DEF WithState, World
<1>. HIDE DEF w1
<1>3. Underway(w1, NoRun)
  BY <1>1, <1>2, UnderwayBegins
<1>4. CASE s # NoSession /\ state \in HoldsBrowserSession
  <2>1. v = [w1 EXCEPT !.owner[s] = r]
    BY <1>4 DEF SetRunState, w1
  <2>2. v.st = w1.st /\ v.bs = w1.bs /\ v.task = w1.task /\ v.lease = w1.lease
    BY <1>1, <2>1 DEF WorldType
  <2>3. v \in WorldType
    BY WorldIsTyped, SetRunStateType
  <2>. HIDE DEF v
  <2>4. Underway(v, NoRun)
    BY <1>3, <2>2, <2>3, UnderwaySame
  <2>. QED BY <2>4 DEF v
<1>5. CASE s # NoSession /\ state \notin HoldsBrowserSession /\ state \in ReleasesBrowserSession
  <2>1. v = StartNext(ReleaseOwner(w1, s, r), s, r)
    BY <1>5 DEF SetRunState, w1
  <2>2. Underway(ReleaseOwner(w1, s, r), NoRun)
    BY <1>1, <1>3, UnderwayRelease
  <2>. QED BY <2>1, <2>2, UnderwayStartNext
<1>6. CASE s = NoSession \/ (state \notin HoldsBrowserSession /\ state \notin ReleasesBrowserSession)
  <2>1. v = w1
    BY <1>6 DEF SetRunState, w1
  <2>. QED BY <1>3, <2>1
<1>. QED BY <1>4, <1>5, <1>6

LEMMA UnderwayTaskAt ==
  ASSUME NEW v, NEW r \in Run, Underway(v, NoRun), task[r] # "none", NEW t \in TaskState \ {"none"}
  PROVE  Underway(TaskAt(v, r, t), NoRun)
<1>. DEFINE z == TaskAt(v, r, t)
<1>1. v \in WorldType /\ z \in WorldType
  BY TaskAtType DEF Underway
<1>2. z.st = v.st /\ z.bs = v.bs /\ z.lease = v.lease /\ z.task = [v.task EXCEPT ![r] = t]
  BY <1>1 DEF TaskAt, WorldType
<1>. HIDE DEF z
<1>3. StartsWell(z)
  BY <1>1, <1>2, UndisturbedSame DEF Underway, StartsWell, WorldType
<1>4. GoesOn(z, NoRun)
  BY <1>1, <1>2 DEF Underway, GoesOn, WorldType
<1>. QED BY <1>1, <1>3, <1>4 DEF Underway, z

LEMMA UnderwayTaskGone ==
  ASSUME NEW v, NEW r \in Run, Underway(v, NoRun)
  PROVE  LET z == TaskGone(v, r)
         IN  Underway(z, r) /\ z.st = v.st /\ z.bs = v.bs
<1>. DEFINE z == TaskGone(v, r)
<1>. SUFFICES Underway(z, r) /\ z.st = v.st /\ z.bs = v.bs
  OBVIOUS
<1>1. v \in WorldType /\ z \in WorldType
  BY TaskGoneType DEF Underway
<1>2. /\ z.st = v.st /\ z.bs = v.bs
      /\ z.task = [v.task EXCEPT ![r] = "none"] /\ z.lease = [v.lease EXCEPT ![r] = NoSession]
  BY <1>1 DEF TaskGone, WorldType
<1>. HIDE DEF z
<1>3. StartsWell(z)
  BY <1>1, <1>2, UndisturbedSame DEF Underway, StartsWell, WorldType
<1>4. GoesOn(z, r)
  BY <1>1, <1>2 DEF Underway, GoesOn, WorldType, NoRun, Run
<1>. QED BY <1>1, <1>2, <1>3, <1>4 DEF Underway

\* Whoever keeps the oldest queued run of a session from starting keeps the others too.
LEMMA StartNextHandsOver ==
  ASSUME NEW v, NEW s \in Session, s # NoSession, NEW r \in Run, Underway(v, r)
  PROVE  HandedOver(StartNext(v, s, r), s, r)
<1>. DEFINE z == StartNext(v, s, r)
<1>. SUFFICES HandedOver(z, s, r)
  OBVIOUS
<1>0. v \in WorldType /\ GoesOn(v, r)
  BY DEF Underway
<1>1. CASE Waiting(v, s, r) = {}
  <2>1. z = v
    BY <1>1 DEF StartNext
  <2>. QED BY <1>1, <2>1 DEF HandedOver
<1>2. CASE Waiting(v, s, r) # {}
  <2>1. PICK o : o = Oldest(Waiting(v, s, r))
    OBVIOUS
  <2>2. o \in Waiting(v, s, r)
    <3>1. Waiting(v, s, r) \subseteq Run
      BY WhoWaits
    <3>. QED BY <1>2, <2>1, <3>1, OldestIn
  <2>3. /\ o \in Run /\ v.bs[o] = s /\ v.st[o] = "queued" /\ ~Live(v, o)
    BY <2>2, WhoWaits
  <2>4. z = StartExecution(v, o)
    BY <1>2, <2>1 DEF StartNext
  <2>5. "queued" \notin Missing /\ "queued" \notin HoldsBrowserSession
    BY DEF Missing, HoldsBrowserSession
  <2>. HIDE DEF z
  <2>5e. CASE o \in EngineRun
    <3>1. z = CreateEngineTask(v, o)
      BY <2>3, <2>4, <2>5, <2>5e DEF StartExecution
    <3>2. z.task[o] = "begin"
      BY <1>0, <2>3, <3>1 DEF CreateEngineTask, WorldType
    <3>3. task[o] = "none"
      BY <1>0, <2>2, <2>3, WhoWaits DEF GoesOn, Live
    <3>. QED BY <2>3, <3>2, <3>3 DEF HandedOver
  <2>6. CASE o \notin EngineRun /\ OwnerBlocks(v, s, o)
    <3>1. z = v
      BY <2>3, <2>4, <2>5, <2>6 DEF StartExecution
    <3>2. ASSUME NEW q \in Waiting(v, s, r)
          PROVE  OwnerBlocks(v, s, q)
      <4>1. v.st[q] = "queued" /\ ~InTasks(v, q)
        BY WhoWaits DEF InTasks, Live
      <4>. QED BY <2>5, <2>6, <4>1 DEF OwnerBlocks
    <3>. QED BY <3>1, <3>2 DEF HandedOver
  <2>7. CASE o \notin EngineRun /\ ~OwnerBlocks(v, s, o) /\ CandidateBlocks(v, s, o)
    <3>1. z = ForgetStaleOwner(v, s, o)
      BY <2>3, <2>4, <2>5, <2>7 DEF StartExecution
    <3>2. z.st = v.st /\ z.bs = v.bs /\ z.task = v.task
      BY <1>0, <3>1 DEF ForgetStaleOwner, WorldType
    <3>3. PICK p \in Listed(v, s) : /\ v.st[p] \in HoldsBrowserSession
                                    /\ InTasks(v, p) \/ v.st[p] \in AwaitsUser
      BY <2>7 DEF CandidateBlocks
    <3>4. Listed(z, s) = Listed(v, s)
      BY <3>2, ListedSame
    <3>5. ASSUME NEW q \in Waiting(z, s, r)
          PROVE  CandidateBlocks(z, s, q)
      <4>1. p # q
        BY <2>5, <3>2, <3>3, WhoWaits
      <4>. QED BY <3>2, <3>3, <3>4, <4>1 DEF CandidateBlocks, InTasks
    <3>. QED BY <3>5 DEF HandedOver
  <2>8. CASE o \notin EngineRun /\ ~OwnerBlocks(v, s, o) /\ ~CandidateBlocks(v, s, o)
    <3>1. z = [CreateTask(v, o) EXCEPT !.owner[s] = o]
      BY <2>3, <2>4, <2>5, <2>8 DEF StartExecution
    <3>2. z.owner[s] = o /\ z.task[o] = "created"
      BY <1>0, <2>3, <3>1 DEF CreateTask, WorldType
    <3>3. InTasks(z, o) /\ o # NoRun
      BY <2>3, <3>2 DEF InTasks, EngineState, NoRun, Run
    <3>4. ASSUME NEW q \in Waiting(z, s, r)
          PROVE  OwnerBlocks(z, s, q)
      <4>1. q # o
        BY <3>2, WhoWaits DEF Live
      <4>. QED BY <3>2, <3>3, <4>1 DEF OwnerBlocks
    <3>. QED BY <3>4 DEF HandedOver
  <2>. QED BY <2>5e, <2>6, <2>7, <2>8
<1>. QED BY <1>1, <1>2

\* The finally of a task: what it was started for is handed over.
LEMMA EndTaskHandsOver ==
  ASSUME NEW v, NEW r \in Run, Underway(v, NoRun), task[r] # "none"
  PROVE  LET z == EndTask(v, r)
         IN  /\ Underway(z, r)
             /\ z.st[r] \in ReleasesBrowserSession /\ lease[r] \in Session /\ lease[r] # NoSession
                  => HandedOver(z, lease[r], r)
<1>. DEFINE s  == v.lease[r]
            w1 == TaskGone(v, r)
            u  == ReleaseOwner(w1, s, r)
            z  == EndTask(v, r)
<1>. SUFFICES /\ Underway(z, r)
              /\ z.st[r] \in ReleasesBrowserSession /\ lease[r] \in Session /\ lease[r] # NoSession
                   => HandedOver(z, lease[r], r)
  OBVIOUS
<1>1. v \in WorldType /\ s \in Session \cup {NoSession} /\ s = lease[r]
  <2>1. v \in WorldType /\ GoesOn(v, NoRun)
    BY DEF Underway
  <2>2. r # NoRun
    BY DEF NoRun, Run
  <2>. QED BY <2>1, <2>2 DEF GoesOn, WorldType
<1>2. Underway(w1, r)
  BY UnderwayTaskGone
<1>3. Underway(u, r) /\ u.st = w1.st
  BY <1>1, <1>2, UnderwayRelease
<1>4. z = IF s # NoSession /\ w1.st[r] \in ReleasesBrowserSession THEN StartNext(u, s, r) ELSE w1
  BY DEF EndTask
<1>. HIDE DEF w1, u, z
<1>5. CASE s # NoSession /\ w1.st[r] \in ReleasesBrowserSession
  <2>1. z = StartNext(u, s, r)
    BY <1>4, <1>5
  <2>2. Underway(z, r)
    BY <1>3, <2>1, UnderwayStartNext
  <2>3. HandedOver(z, s, r)
    <3>1. Underway(u, r) /\ s \in Session
      BY <1>1, <1>3, <1>5
    <3>. QED BY <1>5, <2>1, <3>1, StartNextHandsOver
  <2>. QED BY <1>1, <2>2, <2>3
<1>6. CASE ~(s # NoSession /\ w1.st[r] \in ReleasesBrowserSession)
  BY <1>1, <1>2, <1>4, <1>6
<1>. QED BY <1>5, <1>6
Orderly == WaitsAreKept /\ EndsHandOver

LEMMA WorldBecomes ==
  ASSUME NEW v \in WorldType, Becomes(v)
  PROVE  World' = v
BY DEF Becomes, World, WorldType

LEMMA OrderlyEnds ==
  ASSUME NEW v, NEW x \in Run \cup {NoRun}, Underway(v, x), Becomes(v),
         x \in Run /\ v.st[x] \in ReleasesBrowserSession /\ lease[x] \in Session
           => HandedOver(v, lease[x], x)
  PROVE  Orderly
<1>1. v \in WorldType /\ World' = v
  BY WorldBecomes DEF Underway
<1>2. st' = v.st /\ bs' = v.bs /\ task' = v.task
  BY DEF Becomes
<1>3. WaitsAreKept
  BY <1>1, <1>2 DEF WaitsAreKept, Starts, Underway, StartsWell, Undisturbed
<1>4. EndsHandOver
  <2>. SUFFICES ASSUME NEW r \in Run, NEW s \in Session,
                       Finishes(r), lease[r] = s, st'[r] \in ReleasesBrowserSession
                PROVE  HandedOver(v, s, r)
    BY <1>1, <1>2 DEF EndsHandOver, HandedOver, EngineTakesOver
  <2>1. task[r] # "none" /\ v.task[r] = "none"
    BY <1>2 DEF Finishes, InTasks, World
  <2>2. r = x
    BY <2>1 DEF Underway, GoesOn
  <2>. QED BY <1>2, <2>2
<1>. QED BY <1>3, <1>4 DEF Orderly

LEMMA OrderlyGoesOn ==
  ASSUME NEW v, Underway(v, NoRun), Becomes(v)
  PROVE  Orderly
<1>1. NoRun \notin Run
  BY DEF NoRun, Run
<1>. QED BY <1>1, OrderlyEnds

\* The task of r ends in this step.
LEMMA OrderlyEndTask ==
  ASSUME NEW v, NEW r \in Run, Underway(v, NoRun), task[r] # "none", Becomes(EndTask(v, r))
  PROVE  Orderly
<1>. DEFINE z == EndTask(v, r)
<1>1. /\ Underway(z, r)
      /\ z.st[r] \in ReleasesBrowserSession /\ lease[r] \in Session /\ lease[r] # NoSession
           => HandedOver(z, lease[r], r)
  BY EndTaskHandsOver
<1>2. Becomes(z)
  OBVIOUS
<1>. HIDE DEF z
<1>. QED BY <1>1, <1>2, SessionAssumption, OrderlyEnds

\* The task of r is dropped in this step, without a finally.
LEMMA OrderlyGone ==
  ASSUME NEW v, NEW r \in Run, Underway(v, NoRun), Becomes(TaskGone(v, r)), ~Finishes(r)
  PROVE  Orderly
<1>. DEFINE z == TaskGone(v, r)
<1>1. Underway(z, r) /\ Becomes(z)
  BY UnderwayTaskGone
<1>. HIDE DEF z
<1>2. World' = z
  BY <1>1, WorldBecomes DEF Underway
<1>3. st' = z.st /\ bs' = z.bs /\ task' = z.task
  BY <1>1 DEF Becomes
<1>4. WaitsAreKept
  BY <1>1, <1>2, <1>3 DEF WaitsAreKept, Starts, Underway, StartsWell, Undisturbed
<1>5. ASSUME NEW p \in Run
      PROVE  ~Finishes(p)
  <2>1. p # r => task[p] = "none" \/ task'[p] # "none"
    BY <1>1, <1>3 DEF Underway, GoesOn
  <2>. QED BY <2>1 DEF Finishes, InTasks, World
<1>. QED BY <1>4, <1>5 DEF Orderly, EndsHandOver

LEMMA OrderlyRequest ==
  ASSUME TypeOK, NEW r \in Run, Request(r)
  PROVE  Orderly
<1>. USE WrittenStates
<1>a. bs[r] \in Session \cup {NoSession} /\ World \in WorldType
  BY WorldIsTyped DEF TypeOK
<1>b. ASSUME NEW state \in AnyState
      PROVE  Underway(WithState(World, r, state), NoRun)
  <2>1. WithState(World, r, state) \in WorldType
    BY <1>a, WithStateType
  <2>2. WithState(World, r, state).task = task /\ WithState(World, r, state).lease = lease
    BY DEF WithState, World
  <2>. QED BY <2>1, <2>2, UnderwayBegins
<1>c. ASSUME NEW state \in AnyState, NEW s \in Session \cup {NoSession}
      PROVE  Underway([World EXCEPT !.st[r] = state, !.bs[r] = s], NoRun)
  <2>. DEFINE w == [World EXCEPT !.st[r] = state, !.bs[r] = s]
  <2>1. \A v \in WorldType : [v EXCEPT !.st[r] = state, !.bs[r] = s] \in WorldType
    BY DEF WorldType
  <2>2. w \in WorldType
    BY <1>a, <2>1
  <2>3. w.task = task /\ w.lease = lease
    BY DEF World
  <2>. HIDE DEF w
  <2>4. Underway(w, NoRun)
    BY <2>2, <2>3, UnderwayBegins
  <2>. QED BY <2>4 DEF w
<1>d. ASSUME NEW v, Underway(v, NoRun), Becomes(StartExecution(v, r))
      PROVE  Orderly
  BY <1>d, UnderwayStart, OrderlyGoesOn
<1>1. ASSUME NEW s \in Session \cup {NoSession},
             NEW state \in {"awaiting_confirmation", "queued"}, CreateRun(r, s, state)
      PROVE  Orderly
  <2>. DEFINE w == [World EXCEPT !.st[r] = state, !.bs[r] = s]
  <2>1. Underway(w, NoRun)
    BY <1>c
  <2>2. Becomes(w) \/ Becomes(StartExecution(w, r))
    BY <1>1 DEF CreateRun, StartWithRetry
  <2>. HIDE DEF w
  <2>. QED BY <1>d, <2>1, <2>2, OrderlyGoesOn
<1>2. CASE ConfirmIntent(r)
  BY <1>2, <1>b, <1>d DEF ConfirmIntent
<1>3. CASE RejectIntent(r)
  BY <1>3, <1>b, OrderlyGoesOn DEF RejectIntent
<1>4. ASSUME Reconcile(r)
      PROVE  Orderly
  BY <1>4, <1>b, <1>d DEF Reconcile
<1>5. CASE Resume(r) \/ Approve(r)
  BY <1>4, <1>5 DEF Resume, Approve
<1>6. CASE Pause(r)
  <2>. DEFINE w == WithState(World, r, "paused")
  <2>1. Underway(w, NoRun) /\ Underway(CancelExecution(w, r), NoRun)
    BY <1>b, UnderwayCancel
  <2>. QED BY <1>6, <2>1, OrderlyGoesOn DEF Pause
<1>7. CASE Stop(r)
  <2>. DEFINE w == WithState(World, r, "cancelled")
  <2>1. Underway(w, NoRun) /\ Underway(CancelExecution(w, r), NoRun)
    BY <1>b, UnderwayCancel
  <2>2. Underway(StopTail(w, r, bs[r]), NoRun)
    BY <2>1, UnderwayStartNext DEF StopTail
  <2>. QED BY <1>7, <2>1, <2>2, OrderlyGoesOn DEF Stop
<1>8. ASSUME NEW s \in Session \cup {NoSession}, Retry(r, s)
      PROVE  Orderly
  <2>1. Underway([World EXCEPT !.st[r] = "starting", !.bs[r] = s], NoRun)
    BY <1>c
  <2>. QED BY <1>8, <1>d, <2>1 DEF Retry, StartWithRetry
<1>9. CASE RetryRejected(r)
  BY <1>9, <1>b, OrderlyGoesOn DEF RetryRejected
<1>10. CASE Interrupt(r)
  BY <1>10, <1>b, OrderlyGoesOn DEF Interrupt
<1>11. CASE DeleteRun(r)
  BY <1>11, <1>b, OrderlyGoesOn DEF DeleteRun
<1>12. ASSUME NEW s \in Session, Takeover(s, r)
       PROVE  Orderly
  BY <1>12, <1>b, OrderlyGoesOn DEF Takeover
<1>13. ASSUME NEW s \in Session, Release(s, r)
       PROVE  Orderly
  BY <1>4, <1>13 DEF Release
<1>. QED BY <1>1, <1>2, <1>3, <1>5, <1>6, <1>7, <1>8, <1>9, <1>10, <1>11, <1>12, <1>13 DEF Request

LEMMA OrderlyContinues ==
  ASSUME TypeOK, NEW h \in inflight, Continues(h)
  PROVE  Orderly
<1>1. h.run \in Run
  BY DEF TypeOK, Handler
<1>2. Underway(World, NoRun)
  <2>1. World \in WorldType /\ World.task = task /\ World.lease = lease
    BY WorldIsTyped DEF World
  <2>. QED BY <2>1, UnderwayBegins
<1>3. /\ Underway(StartExecution(World, h.run), NoRun)
      /\ Underway(CancelExecution(World, h.run), NoRun)
  BY <1>1, <1>2, UnderwayStart, UnderwayCancel
<1>4. Underway(StopTail(World, h.run, h.sess), NoRun)
  BY <1>1, <1>3, UnderwayStartNext DEF StopTail
<1>. QED BY <1>3, <1>4, OrderlyGoesOn DEF Continues, StartAgain, PauseReturns, StopReturns

LEMMA OrderlyExecutes ==
  ASSUME TypeOK, NEW r \in Run, Executes(r)
  PROVE  Orderly
<1>. USE WrittenStates
<1>a. ASSUME NEW state \in AnyState
      PROVE  Underway(SetRunState(World, r, state), NoRun)
  BY UnderwaySetRunState
<1>b. Underway(World, NoRun)
  <2>1. World \in WorldType /\ World.task = task /\ World.lease = lease
    BY WorldIsTyped DEF World
  <2>. QED BY <2>1, UnderwayBegins
<1>c. {"context", "stream", "decide", "deaf"} \subseteq TaskState \ {"none"}
  BY DEF TaskState, EngineState
<1>1. CASE TaskBegin(r)
  <2>1. task[r] # "none"
    BY <1>1 DEF TaskBegin, Runs
  <2>. QED BY <1>1, <1>a, <1>c, <2>1, UnderwayTaskAt, OrderlyGoesOn DEF TaskBegin
<1>2. CASE TaskRun(r)
  <2>1. task[r] # "none"
    BY <1>2 DEF TaskRun, Runs
  <2>. QED BY <1>2, <1>a, <1>c, <2>1, UnderwayTaskAt, OrderlyGoesOn DEF TaskRun
<1>3. ASSUME NEW s \in Session, ResolveFallback(r, s)
      PROVE  Orderly
  <2>. DEFINE w == [World EXCEPT !.bs[r] = s]
  <2>1. \A v \in WorldType : [v EXCEPT !.bs[r] = s] \in WorldType
    BY DEF WorldType
  <2>2. w \in WorldType /\ w.task = task /\ w.lease = lease
    BY <2>1, WorldIsTyped DEF World
  <2>3. Becomes(w)
    BY <1>3 DEF ResolveFallback
  <2>. HIDE DEF w
  <2>. QED BY <2>2, <2>3, UnderwayBegins, OrderlyGoesOn
<1>4. CASE Observe(r) \/ GoDeaf(r) \/ CarryOn(r)
  <2>1. task[r] # "none"
    BY <1>4 DEF Observe, GoDeaf, CarryOn, Runs
  <2>. QED BY <1>4, <1>b, <1>c, <2>1, UnderwayTaskAt, OrderlyGoesOn DEF Observe, GoDeaf, CarryOn
<1>5. CASE ObserveTerminal(r) \/ DeafEnds(r)
  <2>1. task[r] # "none"
    BY <1>5 DEF ObserveTerminal, DeafEnds, Runs
  <2>. QED BY <1>5, <1>b, <2>1, OrderlyEndTask DEF ObserveTerminal, DeafEnds
<1>6. CASE StreamWaits(r)
  BY <1>6, <1>a, OrderlyGoesOn DEF StreamWaits
<1>7. CASE StreamIncident(r)
  <2>1. task[r] # "none"
    BY <1>7 DEF StreamIncident, Streaming, Runs
  <2>. QED BY <1>7, <1>a, <1>c, <2>1, UnderwayTaskAt, OrderlyGoesOn DEF StreamIncident
<1>8. ASSUME NEW state \in Outcomes, Conclude(r, state)
      PROVE  Orderly
  <2>1. task[r] # "none" /\ state \in AnyState
    BY <1>8 DEF Conclude, Runs, Outcomes
  <2>. QED BY <1>8, <1>a, <2>1, OrderlyEndTask DEF Conclude
<1>9. CASE TaskFails(r)
  <2>1. task[r] # "none"
    BY <1>9 DEF TaskFails, InTasks, World
  <2>. QED BY <1>9, <1>a, <2>1, OrderlyEndTask DEF TaskFails
<1>10. CASE EngineDrives(r)
  <2>1. PICK s \in {bs[r]} \cup (IF MayBeUnbound THEN Session ELSE {}) :
          Becomes(TaskAt([WithState(World, r, "running") EXCEPT !.bs[r] = s], r, "engine"))
    BY <1>10 DEF EngineDrives
  <2>2. s \in Session \cup {NoSession}
    BY DEF TypeOK
  <2>. DEFINE w == [WithState(World, r, "running") EXCEPT !.bs[r] = s]
  <2>3. \A v \in WorldType : [v EXCEPT !.bs[r] = s] \in WorldType
    BY <2>2 DEF WorldType
  <2>4. w \in WorldType /\ w.task = task /\ w.lease = lease
    <3>1. WithState(World, r, "running") \in WorldType
      BY WorldIsTyped, WithStateType
    <3>2. w \in WorldType
      BY <2>3, <3>1
    <3>. QED BY <3>2 DEF WithState, World
  <2>5. Becomes(TaskAt(w, r, "engine"))
    BY <2>1
  <2>. HIDE DEF w
  <2>6. task[r] # "none" /\ "engine" \in TaskState \ {"none"}
    BY <1>10 DEF EngineDrives, Runs, TaskState, EngineState
  <2>7. Underway(w, NoRun)
    BY <2>4, UnderwayBegins
  <2>8. Underway(TaskAt(w, r, "engine"), NoRun)
    BY <2>6, <2>7, UnderwayTaskAt
  <2>. QED BY <2>5, <2>8, OrderlyGoesOn
<1>11. CASE EngineEnds(r)
  <2>1. PICK state \in {st[r], "failed", "completed"} :
          Becomes(TaskGone(WithState(World, r, state), r))
    BY <1>11 DEF EngineEnds
  <2>2. state \in AnyState
    BY DEF TypeOK, AnyState
  <2>. DEFINE w == WithState(World, r, state)
  <2>3. w \in WorldType /\ w.task = task /\ w.lease = lease
    <3>1. w \in WorldType
      BY <2>2, WorldIsTyped, WithStateType
    <3>. QED BY <3>1 DEF WithState, World
  <2>4. ~Finishes(r)
    BY <1>11 DEF EngineEnds, Runs, Finishes, InTasks, EngineState, World
  <2>. HIDE DEF w
  <2>5. Underway(w, NoRun)
    BY <2>3, UnderwayBegins
  <2>. QED BY <2>1, <2>4, <2>5, OrderlyGone DEF w
<1>. QED BY <1>1, <1>2, <1>3, <1>4, <1>5, <1>6, <1>7, <1>8, <1>9, <1>10, <1>11 DEF Executes

LEMMA OrderlyTaskEnds ==
  ASSUME TypeOK, NEW r \in Run, TaskEnds(r)
  PROVE  Orderly
<1>a. Underway(World, NoRun)
  <2>1. World \in WorldType /\ World.task = task /\ World.lease = lease
    BY WorldIsTyped DEF World
  <2>. QED BY <2>1, UnderwayBegins
<1>1. CASE TaskDropped(r)
  BY <1>1, <1>a, OrderlyGone DEF TaskDropped, Finishes
<1>2. CASE TaskCancelled(r)
  <2>1. task[r] # "none"
    BY <1>2 DEF TaskCancelled, InTasks, World
  <2>2. Underway(IF Terminal(r) THEN World ELSE SetRunState(World, r, "cancelled"), NoRun)
    BY <1>a, WrittenStates, UnderwaySetRunState
  <2>. QED BY <1>2, <2>1, <2>2, OrderlyEndTask DEF TaskCancelled
<1>3. CASE TaskLosesRun(r)
  <2>1. task[r] # "none"
    BY <1>3 DEF TaskLosesRun, Live, World
  <2>. QED BY <1>3, <1>a, <2>1, OrderlyEndTask DEF TaskLosesRun
<1>4. CASE EngineCutOff(r)
  <2>1. ~Finishes(r)
    BY <1>4 DEF EngineCutOff, Finishes, InTasks, World
  <2>. QED BY <1>4, <1>a, <2>1, OrderlyGone DEF EngineCutOff
<1>. QED BY <1>1, <1>2, <1>3, <1>4 DEF TaskEnds

LEMMA OrderlyCrash ==
  ASSUME Crash
  PROVE  Orderly
<1>1. \A p \in Run : task'[p] = "none" /\ ~Finishes(p)
  BY DEF Crash, Finishes
<1>. QED BY <1>1 DEF Orderly, WaitsAreKept, EndsHandOver, Starts

LEMMA OrderlyStep ==
  ASSUME TypeOK, Next
  PROVE  Orderly
BY OrderlyRequest, OrderlyExecutes, OrderlyTaskEnds, OrderlyContinues, OrderlyCrash DEF Next

\* No way to start a run, a request, a retry, a second try, a hand-over or a reconciliation,
\* starts an executor task on a session where another of the rows that
\* list_runs_for_browser_session returns waits for its user, for any number of runs and
\* sessions and any limit of the listing, bound or not, moved or revived.
THEOREM UserWaitAlwaysKeepsSession == Spec => UserWaitKeepsSession
<1>1. TypeOK /\ [Next]_vars => [WaitsAreKept]_vars
  BY OrderlyStep DEF Orderly
<1>2. TypeOK /\ [Next]_vars =>
        [\A r \in Run :
           Starts(r) /\ bs'[r] # NoSession
             => \A q \in Listed(World', bs'[r]) \ {r} : st'[q] \notin AwaitsUser]_vars
  BY <1>1 DEF WaitsAreKept
<1>. QED BY TypeCorrect, <1>2, PTL DEF Spec, UserWaitKeepsSession

\* An executor task that ends hands its session over: none of the queued runs among the
\* rows that list_runs_for_browser_session returns is left behind, unless another run
\* still blocks it or a computer-use run was started, for any number of runs and sessions
\* and any limit of the listing, bound or not, moved or revived.
THEOREM HandoverIsComplete == Spec => HandoverComplete
<1>1. TypeOK /\ [Next]_vars => [EndsHandOver]_vars
  BY OrderlyStep DEF Orderly
<1>2. TypeOK /\ [Next]_vars =>
        [\A r \in Run : \A s \in Session :
           Finishes(r) /\ lease[r] = s /\ st'[r] \in ReleasesBrowserSession /\ ~EngineTakesOver
             => \A q \in Waiting(World', s, r) :
                  OwnerBlocks(World', s, q) \/ CandidateBlocks(World', s, q)]_vars
  BY <1>1 DEF EndsHandOver
<1>. QED BY TypeCorrect, <1>2, PTL DEF Spec, HandoverComplete
=============================================================================
