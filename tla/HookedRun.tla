------------------------------ MODULE HookedRun ------------------------------
(***************************************************************************)
(* The loop of runtime/agent-browser.ts that drives a browser itself: it   *)
(* runs when the caller hands executePromptBrowserRun a command to run     *)
(* browser operations with (executePromptBrowserRunWithHooks; the          *)
(* repository's callers of it are the package's tests).  Each turn looks   *)
(* at the page, narrows the look where the surface calls for it, stops at  *)
(* a prompt for a human, ends when the goal shows, and otherwise does one  *)
(* action a planner or the active step's contract names.                   *)
(*                                                                         *)
(* A look is told by its text, by whether it has refs, whether it asks for *)
(* a sign-in or a consent, and whether it shows what the run wants.        *)
(***************************************************************************)
EXTENDS Naturals

CONSTANTS
  Looks,      \* texts a page may show
  Gates,       \* those that ask for a sign-in or a consent
  Wanted,     \* those that show an explicit verifier of the run
  NoLook,     \* no previous look
  Steps,      \* page actions that change the page
  Reads,      \* page actions that do not
  NoStep,     \* no action
  MaxTurn     \* turns of the loop

\* target: the control the request names can be clicked; named: its name shows.
Look == {l \in [text : Looks, refs : BOOLEAN, target : BOOLEAN, named : BOOLEAN] :
           l.target => l.refs /\ l.named}

VARIABLES
  request,    \* whether it is about signing in, has explicit verifiers, and
              \* names a control to click
  at,         \* the await the loop stands at
  turn,       \* turns begun
  look,       \* snapshot of this turn
  before,     \* previousSnapshotText
  act,        \* the action about to be done, and who named it
  lastStep,   \* lastMutatingActionSignature
  progress,   \* hasPriorProgress
  misses,     \* observationAttempts
  recovery,   \* the pending observation recovery
  outcome     \* terminal code, or "open"

vars == <<request, at, turn, look, before, act, lastStep, progress, misses, recovery, outcome>>

Outcomes == {"COMPLETED", "EXECUTION_FAILED", "AUTH_OR_HUMAN_REQUIRED", "OBSERVATION_EXHAUSTED",
             "ACTION_STALLED", "ACTION_REJECTED", "OBSERVATION_UNGROUNDED"}
Named    == [step : Steps \cup Reads \cup {NoStep}, planned : BOOLEAN]
Nothing  == [step |-> NoStep, planned |-> FALSE]
NoGlance == [text |-> NoLook, refs |-> FALSE, target |-> FALSE, named |-> FALSE]

TypeOK ==
  /\ request \in [signsIn : BOOLEAN, verified : BOOLEAN, targeted : BOOLEAN]
  /\ at \in {"look", "focus", "narrow", "results", "judge", "plan", "act", "over"}
  /\ turn \in 0..MaxTurn /\ misses \in 0..1
  /\ look \in Look \cup {NoGlance} /\ before \in Looks \cup {NoLook}
  /\ act \in Named /\ lastStep \in Steps \cup {NoStep}
  /\ recovery \in {"none", "asked", "observed"} /\ progress \in BOOLEAN
  /\ outcome \in Outcomes \cup {"open"} /\ (at = "over") = (outcome # "open")

Init ==
  /\ request \in [signsIn : BOOLEAN, verified : BOOLEAN, targeted : BOOLEAN]
  /\ at = "look" /\ turn = 0 /\ look = NoGlance /\ before = NoLook
  /\ act = Nothing /\ lastStep = NoStep /\ progress = FALSE /\ misses = 0
  /\ recovery = "none" /\ outcome = "open"

Over(code) == at' = "over" /\ outcome' = code

-----------------------------------------------------------------------------
(* The look.                                                               *)

\* A recovery that brought an observation is used as it is, once; one that asked
\* for a snapshot, and every other turn, takes one.
TakeLook ==
  /\ at = "look" /\ turn < MaxTurn
  /\ turn' = turn + 1 /\ recovery' = "none"
  /\ \/ \E l \in Look : look' = l /\ at' = (IF l.refs THEN "narrow" ELSE "focus")
        /\ UNCHANGED outcome
     \/ recovery # "observed" /\ Over("EXECUTION_FAILED") /\ UNCHANGED look
  /\ UNCHANGED <<request, before, act, lastStep, progress, misses>>

\* Without refs one more snapshot of what can be edited, kept when it has some.
Focus ==
  /\ at = "focus" /\ at' = "narrow"
  /\ look' \in {look} \cup {l \in Look : l.refs}
  /\ UNCHANGED <<request, turn, before, act, lastStep, progress, misses, recovery, outcome>>

\* The best of a few scoped snapshots stands in for the page's when it has refs.
Scoped == look' \in {look} \cup {l \in Look : l.refs}

\* applyCatalogSnapshotSequence: for a filter step whose control is not in sight.
Narrow ==
  /\ at = "narrow" /\ at' = "results"
  /\ Scoped
  /\ UNCHANGED <<request, turn, before, act, lastStep, progress, misses, recovery, outcome>>

\* applySearchResultsSnapshotSequence: for results that hardly show.
NarrowResults ==
  /\ at = "results" /\ at' = "judge"
  /\ Scoped
  /\ UNCHANGED <<request, turn, before, act, lastStep, progress, misses, recovery, outcome>>

-----------------------------------------------------------------------------
(* The judgement.                                                          *)

\* snapshotStateChanged: an empty look is no change.
Changed == before # NoLook /\ look.text # before

\* detectForegroundInterruption: only after progress or a change of the page.
Interrupted == ~request.signsIn /\ (progress \/ Changed) /\ look.text \in Gates

\* genericGoalLooksComplete: the named control is gone.
GoalGone ==
  /\ request.targeted /\ ~look.target
  /\ (Changed /\ ~look.named) \/ (~look.refs /\ (Changed \/ look.named))

\* snapshotMatchesExplicitVerifier
GoalShown == request.verified /\ look.text \in Wanted

Judge ==
  /\ at = "judge"
  /\ IF Interrupted THEN Over("AUTH_OR_HUMAN_REQUIRED")
     ELSE IF GoalGone \/ GoalShown THEN Over("COMPLETED")
     ELSE at' = "plan" /\ UNCHANGED outcome
  /\ UNCHANGED <<request, turn, look, before, act, lastStep, progress, misses, recovery>>

-----------------------------------------------------------------------------
(* The action.                                                             *)

\* The planner's action.
Planned == [step : Steps \cup Reads, planned : {TRUE}]

\* findRefByName: without one, a click on the control the request names.
NamedControl == IF request.targeted /\ look.target THEN [step : Steps, planned : {FALSE}] ELSE {Nothing}

\* preferredActionArgsForCurrentStep: the active step's contract overrules either
\* when its control is in sight.
StepActions == [step : Steps, planned : BOOLEAN]

\* liveCatalogPreferredActionArgs: so do the filters that the request names, the
\* first in sight every time.
CatalogActions == [step : Steps, planned : BOOLEAN]

Choices == Planned \cup NamedControl \cup (IF look.refs THEN StepActions \cup CatalogActions ELSE {})

\* Mutant: the last action is only compared with the page, never with itself.
StalledByPage(a) == FALSE

Stalled(a) == a.planned /\ a.step \in Steps /\ a.step = lastStep /\ ~Changed

\* A planner that says it is done is believed only on a page without refs, when
\* no verifier could tell.
Plan ==
  /\ at = "plan"
  /\ \/ ~request.verified /\ ~look.refs /\ Over("COMPLETED") /\ UNCHANGED <<act, misses>>
     \/ \E a \in Choices :
          IF a = Nothing
          THEN /\ IF misses = 1 THEN Over("OBSERVATION_EXHAUSTED") /\ UNCHANGED misses
                  ELSE at' = "look" /\ misses' = 1 /\ UNCHANGED outcome
               /\ UNCHANGED act
          ELSE IF Stalled(a) THEN Over("ACTION_STALLED") /\ UNCHANGED <<act, misses>>
          ELSE act' = a /\ at' = "act" /\ misses' = 0 /\ UNCHANGED outcome
  /\ UNCHANGED <<request, turn, look, before, lastStep, progress, recovery>>

\* The action was done.
Done ==
  /\ at = "act" /\ at' = "look" /\ act' = Nothing
  /\ progress' = TRUE /\ before' = look.text
  /\ lastStep' = IF act.step \in Steps THEN act.step ELSE NoStep
  /\ UNCHANGED <<request, turn, look, misses, recovery, outcome>>

\* It was turned down for want of an observation, that comes with the answer or
\* has to be taken; or for good.
TurnedDown ==
  /\ at = "act" /\ act' = Nothing
  /\ \/ \E r \in {"asked", "observed"} :
          at' = "look" /\ recovery' = r /\ before' = look.text /\ UNCHANGED outcome
     \/ \E code \in {"OBSERVATION_UNGROUNDED", "ACTION_REJECTED"} :
          Over(code) /\ UNCHANGED <<before, recovery>>
  /\ UNCHANGED <<request, turn, look, lastStep, progress, misses>>

\* Whatever else a command (the first connects) or the planner throws ends the run.
Throws ==
  /\ at \in {"plan", "act"} \/ (at = "look" /\ turn = 0)
  /\ Over("EXECUTION_FAILED") /\ act' = Nothing
  /\ UNCHANGED <<request, turn, look, before, lastStep, progress, misses, recovery>>

\* The budget of turns is spent.
Spent ==
  /\ at = "look" /\ turn = MaxTurn
  /\ Over("OBSERVATION_EXHAUSTED")
  /\ UNCHANGED <<request, turn, look, before, act, lastStep, progress, misses, recovery>>

Next ==
  \/ TakeLook \/ Focus \/ Narrow \/ NarrowResults \/ Judge
  \/ Plan \/ Done \/ TurnedDown \/ Throws \/ Spent

Spec == Init /\ [][Next]_vars

-----------------------------------------------------------------------------
\* A planner that names the mutating action that was just done, turned down or
\* not in between, is not followed while the page looks as it did before it; and
\* once the run has changed something no action is done on a page that asks for a
\* human, unless the request was about signing in.
NoBlindStep ==
  [][act' # Nothing /\ act' # act =>
       /\ act'.planned /\ act'.step = lastStep => before # look.text
       /\ progress /\ ~request.signsIn => look.text \notin Gates]_vars
=============================================================================
