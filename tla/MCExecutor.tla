------------------------------ MODULE MCExecutor ------------------------------
(***************************************************************************)
(* What acts on the browser in a run, and what is made of it, on small     *)
(* instances: the steps the backend picks and directs (StepPlanner,        *)
(* DirectedRun), the prompt the automation runtime executes (PromptRun),   *)
(* its loop with hooks (HookedRun), the backend's verdict (RunVerdict),    *)
(* the other engine (ComputerUse, ComputerEngine), and the conversation    *)
(* that starts runs and is told of them (Conversation).  They share no     *)
(* state, so a behaviour of this module is one of any of them: focus says  *)
(* which, and the others stay as they begin.                               *)
(***************************************************************************)
EXTENDS Naturals

CONSTANTS
  LastTab, Url, Listing, Goal, Ref, Closed, NoRef, MaxIteration, MaxMove,
  PageId, NoPage, MaxEvent, MaxExecution, MaxAttempt,
  Looks, Gates, Wanted, NoLook, Steps, Reads, NoStep, MaxTurn,
  MaxTask, MaxStep, LastModel, LastSize,
  MaxRun, MaxDeed,
  Element, Clickable, Typeable, Container, Gone

ASSUME BoundAssumption ==
  /\ {LastTab, MaxIteration, MaxMove, MaxEvent, MaxExecution, MaxAttempt, MaxTurn, MaxTask, MaxStep,
      MaxRun, MaxDeed, LastModel, LastSize} \subseteq Nat
  /\ MaxStep > 0 /\ LastModel > 0 /\ LastSize > 0

ASSUME ClosedAssumption == Closed \notin Url

ASSUME StepAssumption == NoStep \notin Steps \cup Reads

VARIABLES
  focus,
  at, round, url, front, registry, active, plannedOn, meant, failed, astray, moves,
  state, phase, attempt, acted, live, obs, surface, latest, tracker, incident,
  deaf, reported, ending, seen,
  call, purpose, result, last, byPage, mutating, fresh, pending, grounded, count,
  transcript, zombie, looked, verdict, events, executions,
  request, hook, turn, look, before, act, lastStep, progress, misses, recovery, outcome,
  ask, talk, run, mode, browser, named, slot, task, cut, inflight,
  wants, loop, tabs, there, page, asked, doing, trail, got,
  topic, legacy, chat, demand, runs, blind, deeds,
  stage, typed, refs, kind, results, picks, draft, told, plan, decided

Directed == INSTANCE DirectedRun
Verdicts == INSTANCE RunVerdict
Prompt   == INSTANCE PromptRun WITH incident <- grounded
Hooked   == INSTANCE HookedRun WITH at <- hook
Computer == INSTANCE ComputerUse WITH phase <- talk, state <- run, doing <- named, at <- task
Engine   == INSTANCE ComputerEngine WITH at <- loop, act <- doing, result <- got
Talk     == INSTANCE Conversation WITH task <- topic, talk <- chat
Planner  == INSTANCE StepPlanner

directedVars == <<at, round, url, front, registry, active, plannedOn, meant, failed,
                  astray, moves>>
verdictVars  == <<state, phase, attempt, acted, live, obs, surface, latest, tracker,
                  incident, deaf, reported, ending, seen>>
promptVars   == <<call, purpose, result, last, byPage, mutating, fresh, pending,
                  grounded, count, transcript, zombie, looked, verdict, events, executions>>
hookedVars   == <<request, hook, turn, look, before, act, lastStep, progress, misses,
                  recovery, outcome>>
computerVars == <<ask, talk, run, mode, browser, named, slot, task, cut, inflight>>
engineVars   == <<wants, loop, tabs, there, page, asked, doing, trail, got>>
talkVars     == <<topic, legacy, chat, demand, runs, blind, deeds>>
plannerVars  == <<stage, typed, refs, kind, results, picks, draft, told, plan, decided>>

MCInit ==
  /\ focus \in {"directed", "verdict", "prompt", "hooked", "computer", "engine", "talk", "planner"}
  /\ Verdicts!Init /\ Prompt!Init
  /\ Directed!Init
  /\ focus # "directed" => \A i \in 0..LastTab : url[i] = CHOOSE u \in Url : TRUE
  /\ Hooked!Init
  /\ focus # "hooked" => ~request.signsIn /\ ~request.verified /\ ~request.targeted
  /\ Computer!Init /\ Engine!Init
  /\ focus # "computer" => ask.target = "auto" /\ ~ask.kept /\ ~ask.own
  /\ focus # "engine" => wants = "other" /\ tabs = [i \in 0..LastTab |-> "plain"]
  /\ Talk!Init
  /\ focus # "talk" => topic.phase = "none"
  /\ Planner!Init
  /\ focus # "planner" => typed = "none" /\ picks

MCNext ==
  /\ UNCHANGED focus
  /\ \/ /\ focus = "directed" /\ Directed!Next
        /\ UNCHANGED <<verdictVars, promptVars, hookedVars, computerVars, engineVars, talkVars,
                       plannerVars>>
     \/ /\ focus = "verdict" /\ Verdicts!Next
        /\ UNCHANGED <<directedVars, promptVars, hookedVars, computerVars, engineVars, talkVars,
                       plannerVars>>
     \/ /\ focus = "prompt" /\ Prompt!Next
        /\ UNCHANGED <<directedVars, verdictVars, hookedVars, computerVars, engineVars, talkVars,
                       plannerVars>>
     \/ /\ focus = "hooked" /\ Hooked!Next
        /\ UNCHANGED <<directedVars, verdictVars, promptVars, computerVars, engineVars, talkVars,
                       plannerVars>>
     \/ /\ focus = "computer" /\ Computer!Next
        /\ UNCHANGED <<directedVars, verdictVars, promptVars, hookedVars, engineVars, talkVars,
                       plannerVars>>
     \/ /\ focus = "engine" /\ Engine!Next
        /\ UNCHANGED <<directedVars, verdictVars, promptVars, hookedVars, computerVars, talkVars,
                       plannerVars>>
     \/ /\ focus = "talk" /\ Talk!Next
        /\ UNCHANGED <<directedVars, verdictVars, promptVars, hookedVars, computerVars, engineVars,
                       plannerVars>>
     \/ /\ focus = "planner" /\ Planner!Next
        /\ UNCHANGED <<directedVars, verdictVars, promptVars, hookedVars, computerVars, engineVars,
                       talkVars>>

MCSpec ==
  /\ MCInit
  /\ [][MCNext]_<<focus, directedVars, verdictVars, promptVars, hookedVars, computerVars, engineVars,
                talkVars, plannerVars>>

-----------------------------------------------------------------------------
\* A part out of focus stays as it begins.
TypeOK ==
  CASE focus = "directed" -> Directed!TypeOK
    [] focus = "verdict"  -> Verdicts!TypeOK
    [] focus = "prompt"   -> Prompt!TypeOK
    [] focus = "hooked"   -> Hooked!TypeOK
    [] focus = "computer" -> Computer!TypeOK
    [] focus = "engine"   -> Engine!TypeOK
    [] focus = "talk"     -> Talk!TypeOK
    [] focus = "planner"  -> Planner!TypeOK

\* What the parts' modules state, and say there.
PageIsKept       == Directed!PageIsKept /\ Planner!OnlyListed
VerdictSound     == Verdicts!VerdictSound
CompletedWasSeen == Prompt!CompletedWasSeen
NoBlindStep      == Hooked!NoBlindStep
OneEngine        == Computer!OneEngine
StopSticks       == Computer!StopSticks
NavigationIsFollowed == Engine!NavigationIsFollowed
OutcomeIsShown       == Talk!OutcomeIsShown
=============================================================================
