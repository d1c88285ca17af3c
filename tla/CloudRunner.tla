----------------------------- MODULE CloudRunner -----------------------------
(***************************************************************************)
(* The remote browser of one user when a Cloud Run service serves it       *)
(* (_CloudRunServerRunnerBackend in api/browser/server_runner_manager.py). *)
(* A start deletes and creates the service and waits until its worker has  *)
(* made the user's session ready; it tries twice.  Starts and stops hold   *)
(* the user's lock over all their requests to Google's API, each of which  *)
(* may be refused (a RuntimeError) or end in an error of the HTTP client,  *)
(* which nothing here catches and which leaves open what was done.         *)
(***************************************************************************)
EXTENDS Naturals

CONSTANTS
  Call,      \* requests, each starting or stopping again and again
  MaxBoot,   \* services created in a behaviour
  NoCall

VARIABLES
  svc,      \* the service there is, numbered by its creation; 0: none
  boots,    \* services created so far
  row,      \* status of the session that the worker registers
  phase,    \* _phases[user]
  call,     \* where each request stands, and its attempts
  lock,     \* _locks[user]
  stopped,  \* history: a stop was the last to succeed
  undone    \* history: the last undoing of an attempt deleted the service

vars == <<svc, boots, row, phase, call, lock, stopped, undone>>

Phase == {"idle", "provisioning", "booting_browser", "connecting", "ready", "failed"}
At == {"idle", "status", "check", "delete", "post", "poll", "undo", "remove", "mark"}

TypeOK ==
  /\ svc \in 0..MaxBoot /\ boots \in 0..MaxBoot
  /\ row \in {"none", "ready", "stopped"}
  /\ phase \in Phase
  /\ call \in [Call -> [at : At, attempts : 0..2]]
  /\ lock \in Call \cup {NoCall}
  /\ stopped \in BOOLEAN /\ undone \in BOOLEAN

Init ==
  /\ svc = 0 /\ boots = 0 /\ row = "none" /\ phase = "idle"
  /\ call = [c \in Call |-> [at |-> "idle", attempts |-> 0]]
  /\ lock = NoCall /\ stopped = FALSE /\ undone = TRUE

Goes(c, place) == call' = [call EXCEPT ![c].at = place]

\* The request returns or raises and gives the lock back.
Leaves(c) == call' = [call EXCEPT ![c] = [at |-> "idle", attempts |-> 0]] /\ lock' = NoCall

\* A RuntimeError in an attempt: it is undone, whether or not another one follows.
FailsForever(c) ==
  /\ call' = [call EXCEPT ![c] = [at |-> "undo", attempts |-> 1]]
  /\ phase' = "provisioning"
  /\ UNCHANGED lock

Fails(c) ==
  /\ call' = [call EXCEPT ![c] = [at |-> "undo", attempts |-> @.attempts + 1]]
  /\ phase' = IF call[c].attempts = 0 THEN "provisioning" ELSE "failed"
  /\ UNCHANGED lock

\* The two ways a request in an attempt may fail.
Errs(c) == Fails(c) \/ (Leaves(c) /\ UNCHANGED phase)

-----------------------------------------------------------------------------
(* start.                                                                  *)

Start(c) ==
  /\ call[c].at = "idle" /\ lock = NoCall
  /\ Goes(c, "status") /\ lock' = c /\ stopped' = FALSE
  /\ UNCHANGED <<svc, boots, row, phase, undone>>

\* status asks for the session and for the service, and believes the session.
Status(c) ==
  /\ call[c].at = "status"
  /\ \/ row = "ready" /\ Leaves(c) /\ UNCHANGED phase
     \/ row # "ready" /\ Goes(c, "check") /\ phase' = "provisioning" /\ UNCHANGED lock
     \/ Leaves(c) /\ UNCHANGED phase
  /\ UNCHANGED <<svc, boots, row, stopped, undone>>

Check(c) ==
  /\ call[c].at = "check"
  /\ \/ /\ Goes(c, IF svc # 0 THEN "delete" ELSE "post")
        /\ phase' = "provisioning" /\ UNCHANGED lock
     \/ Errs(c)
  /\ UNCHANGED <<svc, boots, row, stopped, undone>>

Delete(c) ==
  /\ call[c].at = "delete"
  /\ \/ svc' = 0 /\ Goes(c, "post") /\ UNCHANGED <<phase, lock>>
     \/ svc' \in {svc, 0} /\ Errs(c)
  /\ UNCHANGED <<boots, row, stopped, undone>>

Creates == svc = 0 /\ boots < MaxBoot /\ svc' = boots + 1 /\ boots' = boots + 1

\* The creation and the wait for its operation.
Post(c) ==
  /\ call[c].at = "post"
  /\ \/ Creates /\ Goes(c, "poll") /\ phase' = "booting_browser" /\ UNCHANGED lock
     \/ (Creates \/ UNCHANGED <<svc, boots>>) /\ Errs(c)
  /\ UNCHANGED <<row, stopped, undone>>

\* Whatever session the runner has that is ready; otherwise until the timeout.
Poll(c) ==
  /\ call[c].at = "poll"
  /\ \/ row = "ready" /\ Leaves(c) /\ phase' = "ready"
     \/ /\ row # "ready"
        /\ \/ phase' = (IF svc # 0 THEN "connecting" ELSE phase) /\ UNCHANGED <<call, lock>>
           \/ Errs(c)
  /\ UNCHANGED <<svc, boots, row, stopped, undone>>

\* Mutant: an attempt too many.
UndoOnceMore(c) ==
  /\ call[c].at = "undo"
  /\ svc' = 0 /\ undone' = TRUE
  /\ IF call[c].attempts <= 2 THEN Goes(c, "check") /\ UNCHANGED lock ELSE Leaves(c)
  /\ UNCHANGED <<boots, row, phase, stopped>>

\* The service is deleted, whatever the deletion raises; once more, or the start fails.
Undo(c) ==
  /\ call[c].at = "undo"
  /\ \/ svc' = 0 /\ undone' = TRUE
     \/ UNCHANGED svc /\ undone' = FALSE
  /\ IF call[c].attempts = 1 THEN Goes(c, "check") /\ UNCHANGED lock ELSE Leaves(c)
  /\ UNCHANGED <<boots, row, phase, stopped>>

-----------------------------------------------------------------------------
(* stop.                                                                   *)

Stop(c) ==
  /\ call[c].at = "idle" /\ lock = NoCall
  /\ Goes(c, "remove") /\ lock' = c /\ phase' = "idle"
  /\ UNCHANGED <<svc, boots, row, stopped, undone>>

Remove(c) ==
  /\ call[c].at = "remove"
  /\ \/ svc' = 0 /\ Goes(c, "mark") /\ UNCHANGED lock
     \/ svc' \in {svc, 0} /\ Leaves(c)
  /\ UNCHANGED <<boots, row, phase, stopped, undone>>

\* The sessions of the runner become stopped, unless writing them fails.
Mark(c) ==
  /\ call[c].at = "mark"
  /\ row' \in {row, IF row = "none" THEN "none" ELSE "stopped"}
  /\ stopped' = TRUE
  /\ Leaves(c)
  /\ UNCHANGED <<svc, boots, phase, undone>>

-----------------------------------------------------------------------------
\* The worker registers its session as ready, and may say that it stops.
Worker ==
  /\ \/ svc # 0 /\ row' = "ready"
     \/ row = "ready" /\ row' = "stopped"
  /\ UNCHANGED <<svc, boots, phase, call, lock, stopped, undone>>

Ends(c) ==
  \/ Status(c) \/ Check(c) \/ Delete(c) \/ Post(c) \/ (Poll(c) /\ ~UNCHANGED call)
  \/ Undo(c) \/ Remove(c) \/ Mark(c)

Next ==
  \/ \E c \in Call : Start(c) \/ Stop(c) \/ Ends(c) \/ Poll(c)
  \/ Worker

Spec == Init /\ [][Next]_vars

\* Every request and every poll has a timeout.
Fairness == \A c \in Call : WF_vars(Ends(c))

FairSpec == Spec /\ Fairness

-----------------------------------------------------------------------------
(* Properties                                                              *)

\* After a stop that succeeded no service is left, nor created by a start that was under way,
\* until somebody starts again.
StoppedIsGone == stopped => svc = 0

\* A start that failed leaves no service behind, unless its deletion failed too.
FailureIsUndone == phase = "failed" /\ lock = NoCall /\ undone => svc = 0

\* A start ends though all of its attempts fail, and gives the lock to the next.
StartEnds == \A c \in Call : lock = c ~> lock = NoCall
=============================================================================
