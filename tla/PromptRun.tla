------------------------------ MODULE PromptRun ------------------------------
(***************************************************************************)
(* One run of the automation runtime, from the inside: the prompt that     *)
(* executePromptBrowserRun of runtime/agent-browser.ts hands to a bridge   *)
(* process, the loop state it fills from the process's events, and the     *)
(* second attempt it makes when the first ended in a way it knows.         *)
(*                                                                         *)
(* The run manager keeps one loop state per run id and never drops it, and *)
(* the bridge judges a run by its session's transcript, a file: an         *)
(* execution of a retried run starts with what the earlier ones left.      *)
(*                                                                         *)
(* An observation is told by its refs: "none" (an empty list), "field"     *)
(* (one or two inputs), "listing" (three clickable results or more) and    *)
(* "page" (many).  The bridge sends tool events and its result, nothing    *)
(* else, so no event sets the terminal incident.  Its result carries the   *)
(* browser operations under metadata.meta, where the check of a step's     *)
(* allowed actions does not look: currentStepActionMismatchResult finds    *)
(* none in any result of the bridge and is left out.                       *)
(***************************************************************************)
EXTENDS Naturals, FiniteSets

CONSTANTS
  PageId,        \* browser targets that an observation may name
  NoPage,        \* an observation that names none
  MaxEvent,      \* bound: tool events of a run id
  MaxExecution   \* bound: executions of a run id

Seen    == {"unseen", "none", "field", "listing", "page"}
Purpose == {"first", "observation", "tool", "channel", "transient", "refusal"}
Text    == {"plain", "channel", "transient", "refusal"}
Verdict == {"none", "completed", "failed", "unverified", "ungrounded", "transient"}
Result  == {r \in [ok : BOOLEAN, text : Text, toolError : BOOLEAN] :
              r.toolError => ~r.ok /\ r.text = "plain"}

VARIABLES
  call,        \* purpose of the bridge process under way, or "idle", or "judge"
  purpose,     \* purpose of the last process of the execution
  result,      \* what it returned, while that is judged
  last,        \* lastBrowserObservation: [page, refs]
  byPage,      \* browserObservationsByTarget
  mutating,    \* lastBrowserAction is a mutating one
  fresh,       \* lastBrowserObservation is younger than lastBrowserAction
  pending,     \* pendingObservationRecovery is set
  incident,    \* terminalIncident is set
  count,       \* recoveries of each kind, over the life of the run id
  transcript,  \* of the run's own session, and of the session in use
  zombie,      \* a process that was given up still writes
  looked,      \* history: an observation came after the last mutating action
  verdict,     \* what the last execution returned
  events,      \* tool events so far
  executions   \* executions so far

memory == <<last, byPage, mutating, fresh, pending, looked>>
vars   == <<call, purpose, result, memory, incident, count, transcript, zombie,
            verdict, events, executions>>

\* Of a transcript the bridge asks which browser calls it holds.
Blank == [engaged |-> FALSE, mutated |-> FALSE, did |-> FALSE]
NoResult == [ok |-> FALSE, text |-> "plain", toolError |-> FALSE]

TypeOK ==
  /\ call \in Purpose \cup {"idle", "judge"} /\ purpose \in Purpose
  /\ result \in Result /\ verdict \in Verdict
  /\ last \in [page : PageId \cup {NoPage}, refs : Seen]
  /\ byPage \in [PageId -> Seen]
  /\ {mutating, fresh, pending, incident, zombie, looked} \subseteq BOOLEAN
  /\ count \in [observation : 0..1, tool : 0..1, channel : 0..2]
  /\ DOMAIN transcript = {"own", "used", "retry"}
  /\ events \in 0..MaxEvent /\ executions \in 0..MaxExecution

Init ==
  /\ call = "idle" /\ purpose = "first" /\ result = NoResult /\ verdict = "none"
  /\ last = [page |-> NoPage, refs |-> "unseen"] /\ byPage = [p \in PageId |-> "unseen"]
  /\ mutating = FALSE /\ fresh = FALSE /\ pending = FALSE /\ incident = FALSE
  /\ count = [observation |-> 0, tool |-> 0, channel |-> 0]
  /\ transcript = [own |-> Blank, used |-> "own", retry |-> Blank]
  /\ zombie = FALSE /\ looked = TRUE
  /\ events = 0 /\ executions = 0

-----------------------------------------------------------------------------
(* The loop state.                                                         *)

\* observationsShareTarget: with two names it is the name that counts; an
\* observation that names none shares it unless its URL and title both differ.
MayShare(cur, page) ==
  IF cur.page # NoPage /\ page # NoPage THEN {cur.page = page}
  ELSE IF cur.page # NoPage THEN BOOLEAN ELSE {TRUE}

\* Fewer refs mean a more specific observation, so an empty one is the most
\* specific of all.
Rank(refs) == CASE refs = "page" -> 0 [] refs = "listing" -> 1 [] refs = "field" -> 2 [] OTHER -> 3

\* shouldReplaceObservationMemory, for an observation of the same target: after
\* a mutating action a broad one does not replace a narrow one, nor ever a field
\* the results of the same search.
MayReplace(cur, refs) ==
  IF cur.refs = "unseen" THEN {TRUE}
  ELSE IF cur.refs = "listing" /\ refs = "field" THEN BOOLEAN
  ELSE IF Rank(refs) >= Rank(cur.refs) THEN {TRUE}
  ELSE IF ~mutating THEN {TRUE}
  ELSE IF cur.refs = "none" THEN {FALSE} ELSE BOOLEAN

\* What is kept is merged with what was known of the target.
Merged(cur, share, page, refs) ==
  IF cur.refs = "unseen" \/ ~share THEN [page |-> page, refs |-> refs]
  ELSE [page |-> IF page = NoPage THEN cur.page ELSE page, refs |-> refs]

Keep(obs) ==
  /\ last' = obs
  /\ byPage' = IF obs.page = NoPage THEN byPage ELSE [byPage EXCEPT ![obs.page] = obs.refs]

\* Mutant: an observation that comes with an action counts as a look at what it did.
ActionIsALook(op, kept) == kept \/ (fresh /\ op # "mutating")

\* The observation of an event is remembered before its action.
FreshAfter(op, kept) ==
  IF op = "mutating" THEN FALSE ELSE IF kept THEN TRUE ELSE fresh

\* rememberBrowserRuntimeEvent, for a finished (or updated) browser tool call.
\* A payload that names no kind of operation leaves the last action alone.
Remember(op, page, refs, plan) ==
  LET saw == refs # "unseen"
      cur == IF page = NoPage THEN last ELSE [page |-> page, refs |-> byPage[page]]
  IN /\ \E share \in MayShare(cur, page) :
          \E keep \in (IF ~saw THEN {FALSE} ELSE IF share THEN MayReplace(cur, refs) ELSE {TRUE}) :
            /\ IF keep THEN Keep(Merged(cur, share, page, refs)) ELSE UNCHANGED <<last, byPage>>
            /\ pending' = IF keep /\ refs # "none" THEN FALSE ELSE pending \/ plan
            /\ fresh' = FreshAfter(op, keep)
     /\ mutating' = IF op \in {"mutating", "reading"} THEN op = "mutating" ELSE mutating
     /\ looked' = IF op = "mutating" THEN FALSE ELSE looked \/ saw

-----------------------------------------------------------------------------
(* The bridge process.                                                     *)

Running == call \in Purpose
Session == transcript[transcript.used]

\* A tool call of the process ends: it is in the transcript and in the events.
ToolEnds ==
  /\ Running /\ events < MaxEvent /\ events' = events + 1
  /\ \E op \in {"mutating", "reading", "snapshot", "none"}, page \in PageId \cup {NoPage},
        refs \in Seen, good \in BOOLEAN, plan \in BOOLEAN :
       /\ plan => ~good
       /\ Remember(op, page, refs, plan)
       /\ transcript' = [transcript EXCEPT ![transcript.used] =
            [engaged |-> TRUE, mutated |-> @.mutated \/ op = "mutating",
             did |-> @.did \/ (good /\ op = "mutating")]]
  /\ UNCHANGED <<call, purpose, result, incident, count, zombie, verdict, executions>>

\* classifyBridgeOutcome: a result is a success when the transcript holds a
\* mutation that succeeded, or no mutation and a request that only reads.
MaySucceed == Session.engaged /\ (Session.did \/ ~Session.mutated)

\* A structured result, or the lack of one, settles the call.
ProcessReturns ==
  /\ Running
  /\ \E r \in Result :
       /\ r.ok => MaySucceed
       /\ result' = r
  /\ call' = "judge"
  /\ UNCHANGED <<purpose, memory, incident, count, transcript, zombie, verdict, events, executions>>

\* After five minutes the process is told to stop and the call settles; what
\* it still writes is read as before.
ProcessTimesOut ==
  /\ Running
  /\ result' = NoResult /\ call' = "judge" /\ zombie' = TRUE
  /\ UNCHANGED <<purpose, memory, incident, count, transcript, verdict, events, executions>>

\* A pause or a cancellation rejects the call.
Aborted ==
  /\ Running
  /\ call' = "idle" /\ verdict' = "failed" /\ zombie' = TRUE /\ purpose' = "first"
  /\ UNCHANGED <<result, memory, incident, count, transcript, events, executions>>

LateEvent ==
  /\ zombie /\ events < MaxEvent /\ events' = events + 1
  /\ \E op \in {"mutating", "snapshot"}, refs \in {"none", "page"} : Remember(op, NoPage, refs, FALSE)
  /\ UNCHANGED <<call, purpose, result, incident, count, transcript, zombie, verdict, executions>>

ZombieDies ==
  /\ zombie /\ zombie' = FALSE
  /\ UNCHANGED <<call, purpose, result, memory, incident, count, transcript, verdict, events, executions>>

-----------------------------------------------------------------------------
(* The execution.                                                          *)

\* prepareEmbeddedRuntimeRun finds the session of an earlier execution again.
Execute ==
  /\ call = "idle" /\ executions < MaxExecution /\ executions' = executions + 1
  /\ call' = "first" /\ purpose' = "first" /\ verdict' = "none"
  /\ transcript' = [transcript EXCEPT !.used = "own"]
  /\ UNCHANGED <<result, memory, incident, count, zombie, events>>

\* hasFreshObservationAfterLastMutation
Observed == mutating => fresh

\* withObservedCompletionRequirement
Ended(r) == IF ~r.ok THEN "failed" ELSE IF Observed THEN "completed" ELSE "unverified"

Return(v) ==
  /\ verdict' = v /\ call' = "idle" /\ purpose' = "first"
  /\ UNCHANGED <<transcript, count>>

Again(why, session) ==
  /\ call' = why /\ purpose' = why
  /\ transcript' = IF session = "retry" THEN [transcript EXCEPT !.used = "retry", !.retry = Blank]
                   ELSE transcript
  /\ UNCHANGED verdict

Counted(why) == count' = [count EXCEPT ![why] = @ + 1]

\* The prompts of a second attempt, each with the session it is given.
RecoverObservation == Again("observation", "retry") /\ Counted("observation")
RecoverTool        == Again("tool", "retry") /\ Counted("tool")
RecoverChannel     == Again("channel", "same") /\ Counted("channel")
RetryTransient     == Again("transient", "retry") /\ UNCHANGED count
RetryRefusal       == Again("refusal", "same") /\ UNCHANGED count

Ungrounded == incident' = TRUE /\ Return("ungrounded")

\* Mutant: however often it was tried.
ToolRecoveryAgain == ~result.ok /\ result.toolError /\ last.refs \notin {"unseen", "none"}

\* shouldRecoverFromToolError
ToolRecovery == ~result.ok /\ result.toolError /\ last.refs \notin {"unseen", "none"} /\ count.tool < 1

\* After the first attempt, in the order of the code.
JudgeFirst ==
  /\ purpose = "first"
  /\ LET v == Ended(result) IN
     IF incident THEN Return("failed") /\ UNCHANGED incident
     ELSE IF pending /\ v # "completed"
       THEN IF count.observation < 1
            THEN RecoverObservation /\ UNCHANGED incident
            ELSE Ungrounded
     ELSE /\ UNCHANGED incident
          /\ IF ToolRecovery /\ v # "completed" THEN RecoverTool
             ELSE IF result.text = "channel"
               THEN IF count.channel >= 2 THEN Return(IF result.ok THEN "completed" ELSE "failed")
                    ELSE RecoverChannel
             ELSE IF result.text = "transient" THEN RetryTransient
             ELSE IF result.text = "refusal" THEN RetryRefusal
             ELSE Return(v)

\* After the second, which is the last.
JudgeSecond ==
  /\ purpose # "first"
  /\ IF incident THEN Return("failed") /\ UNCHANGED incident
     ELSE IF purpose = "observation" /\ pending THEN Ungrounded
     ELSE IF purpose = "transient" /\ result.text = "transient"
       THEN Return("transient") /\ UNCHANGED incident
     ELSE Return(Ended(result)) /\ UNCHANGED incident

Judge ==
  /\ call = "judge"
  /\ JudgeFirst \/ JudgeSecond
  /\ result' = NoResult
  /\ UNCHANGED <<memory, zombie, events, executions>>

\* The runtime stops: the loop states are lost, the transcripts are not.
RuntimeStops ==
  /\ call' = "idle" /\ zombie' = FALSE /\ verdict' = "none" /\ result' = NoResult
  /\ last' = [page |-> NoPage, refs |-> "unseen"] /\ byPage' = [p \in PageId |-> "unseen"]
  /\ mutating' = FALSE /\ fresh' = FALSE /\ pending' = FALSE /\ incident' = FALSE /\ looked' = TRUE
  /\ count' = [observation |-> 0, tool |-> 0, channel |-> 0]
  /\ purpose' = "first"
  /\ UNCHANGED <<transcript, events, executions>>

Next ==
  \/ Execute \/ ToolEnds \/ ProcessReturns \/ ProcessTimesOut \/ Aborted
  \/ LateEvent \/ ZombieDies \/ Judge \/ RuntimeStops

Spec == Init /\ [][Next]_vars

-----------------------------------------------------------------------------
Completes == verdict' = "completed" /\ verdict # "completed"

\* A prompt whose last remembered action is a mutating one is completed only when
\* an observation came after it, whichever attempt ended it and whatever a process
\* that was given up still wrote; but for a third attempt on a channel that timed
\* out, whose result is returned as it came.  An id found ungrounded never completes.
CompletedWasSeen ==
  [][Completes => /\ ~incident
                  /\ mutating => looked \/ (result.text = "channel" /\ count.channel = 2)]_vars
=============================================================================
