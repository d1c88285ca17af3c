----------------------------- MODULE StepPlanner -----------------------------
(***************************************************************************)
(* How the backend picks the next step it directs itself.  A round of      *)
(* _run_backend_directed_runtime_actions (automation/executor.py) takes a  *)
(* snapshot, brings the run's progress up to date, asks                    *)
(* plan_runtime_action (services/tools/step_planner.py) for a step, and    *)
(* directs it, stops the run, or hands the run over to the runtime.  The   *)
(* planner first looks for a step the run's own data determines; else it   *)
(* asks a model, once more when the answer is invalid, once more when the  *)
(* steps are not bound to the refs of the snapshot, and what comes back    *)
(* passes filters and gates.  DirectedRun has what a directed step does to *)
(* the browser, and takes from here which steps there are.                 *)
(*                                                                         *)
(* The loop runs for runs with a browser session of their own.  Such a run *)
(* may still hold typed steps: it was created without a session and found  *)
(* one when it was executed.  The model's answers are free.                *)
(***************************************************************************)
CONSTANTS
  Element,    \* the refs a snapshot can list
  Clickable,  \* those with a role that the planner clicks by itself: buttons, links, options
  Typeable,   \* those with a role that takes text: boxes, fields
  Container,  \* those with a role that only holds others: lists, regions
  Gone        \* a ref that no snapshot lists

\* Steps with a kind of ExecutionStep that the planner has a rule for, and the others.
Ruled == {"search", "filter", "advance", "fill_field", "select_result"}
Kind  == Ruled \cup {"navigate"}

\* Kinds of UI surface that a rule asks for; unknown stands for the others.
Surface == {"listing", "dialog", "unknown"}

\* A target is a ref, words (a label, a role with a name, a text), a selector (CSS,
\* XPath, any other string), or missing.
Pointing == [command : {"click", "type"}, target : Element \cup {Gone, "words", "selector", "missing"}]
Plain    == [command : {"open", "press", "snapshot", "consult"}, target : {"missing"}]
Nothing  == [command |-> "none", target |-> "missing"]
Step     == Pointing \cup Plain \cup {Nothing}

VARIABLES
  stage,    \* what the round stands at
  typed,    \* kind of the run's current typed step, "none" without one
  refs,     \* the refs of the round's snapshot
  kind,     \* kind of the UI surface read from it
  results,  \* the refs it lists as results
  picks,    \* the goal asks to select, open or buy something listed
  draft,    \* the step that the answers have come to
  told,     \* the status of the first valid answer
  plan,     \* the RuntimeActionPlan
  decided   \* what the round made of it

vars == <<stage, typed, refs, kind, results, picks, draft, told, plan, decided>>

\* The statuses of a valid answer.  What else the contract asks of it is not told apart.
Told == {"ok", "completed", "stopped"}

Plans == [status : {"none", "action", "blocked", "completed"},
          source : {"none", "listing", "typed", "model"}, step : Step]
NoPlan == [status |-> "none", source |-> "none", step |-> Nothing]

TypeOK ==
  /\ stage \in {"look", "sync", "plan", "ask", "repair", "refine", "rerepair",
                "gate", "decide", "act", "over"}
  /\ typed \in Kind \cup {"none"}
  /\ refs \subseteq Element /\ results \subseteq refs
  /\ kind \in Surface /\ picks \in BOOLEAN
  /\ draft \in Step /\ told \in Told \cup {"none"}
  /\ plan \in Plans
  /\ decided \in {"none", "directed", "ungrounded", "blocked", "handed"}

Init ==
  /\ stage = "look"
  /\ typed \in Kind \cup {"none"} /\ picks \in BOOLEAN
  /\ refs = {} /\ results = {} /\ kind = "unknown"
  /\ draft = Nothing /\ told = "none" /\ plan = NoPlan /\ decided = "none"

Page == <<refs, kind, results>>

-----------------------------------------------------------------------------
(* What the run's own data determines.                                     *)

Click(R) == [command : {"click"}, target : R]
Type(R)  == [command : {"type"}, target : R]

\* The rules of the typed steps.  Which control a rule takes depends on names and
\* on the query, and no control may fit.
SearchSteps ==
  [command : {"press"}, target : {"missing"}]
  \cup IF refs \cap Typeable # {} THEN Type(refs \cap Typeable) ELSE Click(refs \cap Clickable)

FilterSteps == IF kind \in {"listing", "dialog"} THEN Click(refs \cap Clickable) ELSE {}

AdvanceSteps == IF kind = "dialog" THEN Click(refs \cap Clickable) ELSE {}

FillSteps == IF kind = "dialog" THEN Type(refs \cap Typeable) ELSE {}

\* A listed result; without a typed step, when the goal asks for one.
ListedSteps ==
  IF kind = "listing" /\ (typed = "select_result" \/ (typed = "none" /\ picks))
  THEN Click(results \cap Clickable) ELSE {}

\* The search rule looks before it acts, the others the same way.
Determined ==
  IF refs = {} THEN {}
  ELSE CASE typed = "search"     -> SearchSteps
         [] typed = "filter"     -> FilterSteps
         [] typed = "advance"    -> AdvanceSteps
         [] typed = "fill_field" -> FillSteps
         [] OTHER                -> ListedSteps

-----------------------------------------------------------------------------
(* What becomes of an answer's steps.                                      *)

Points(s) == s.command \in {"click", "type"}
ByRef(s)  == s.target \in Element \cup {Gone}

\* A step that points needs a target.  With a snapshot selectors are not followed, and
\* nobody is consulted here.
Valid(s)    == Points(s) => s.target # "missing"
Followed(s) == s.target # "selector" /\ s.command # "consult"
Usable      == {s \in Step : Valid(s) /\ Followed(s)}

\* One usable step of an answer is taken, if it has any.  It is bare when some step of
\* it, this one or another, points without a ref.
Answers == {a \in [step : Usable, bare : BOOLEAN] : a.step.target = "words" => a.bare}

\* The ref's role suits the command.  A ref that the snapshot does not list passes.
Suits(s) ==
  s.target \in refs =>
    IF s.command = "type" THEN s.target \in Typeable ELSE s.target \notin Container

-----------------------------------------------------------------------------
\* The snapshot of the round.
Look ==
  /\ stage = "look"
  /\ refs' \in SUBSET Element
  /\ kind' = "unknown" /\ results' = {}
  /\ draft' = Nothing /\ told' = "none" /\ plan' = NoPlan /\ decided' = "none"
  /\ stage' = "sync"
  /\ UNCHANGED <<typed, picks>>

\* Mutant: the typed steps of a run with a browser of its own are kept.
SyncKeepsSteps ==
  /\ stage = "sync"
  /\ kind' \in Surface /\ results' \in SUBSET refs
  /\ stage' \in {"plan", "over"}
  /\ UNCHANGED <<typed, refs, picks, draft, told, plan, decided>>

\* _sync_run_phase_progress reads the surface, and clears the typed steps of a run
\* with a browser of its own.  The round ends when the run has ended.
Sync ==
  /\ stage = "sync"
  /\ kind' \in Surface /\ results' \in SUBSET refs
  /\ typed' = "none"
  /\ stage' \in {"plan", "over"}
  /\ UNCHANGED <<refs, picks, draft, told, plan, decided>>

Determine ==
  /\ stage = "plan"
  /\ \E s \in Determined :
       plan' = [status |-> "action", step |-> s,
                source |-> IF typed \in Ruled THEN "typed" ELSE "listing"]
  /\ stage' = "decide"
  /\ UNCHANGED <<typed, Page, picks, draft, told, decided>>

Ask ==
  /\ stage = "plan"
  /\ stage' = "ask"
  /\ UNCHANGED <<typed, Page, picks, draft, told, plan, decided>>

\* A valid answer, the model's first or the repaired one.
Answer ==
  /\ stage \in {"ask", "repair"}
  /\ \E a \in Answers :
       /\ draft' = a.step
       /\ stage' = IF refs # {} /\ a.bare THEN "refine" ELSE "gate"
  /\ told' \in Told
  /\ UNCHANGED <<typed, Page, picks, plan, decided>>

\* An answer that neither parses as a contract nor as steps is sent back once.
Invalid ==
  /\ stage \in {"ask", "refine"}
  /\ stage' = IF stage = "ask" THEN "repair" ELSE "rerepair"
  /\ UNCHANGED <<typed, Page, picks, draft, told, plan, decided>>

\* The steps of the refined answer replace the drafted ones, when any is left.  Its
\* status is not looked at.
Refined ==
  /\ stage \in {"refine", "rerepair"}
  /\ \E a \in Answers : draft' = IF a.step = Nothing THEN draft ELSE a.step
  /\ stage' = "gate"
  /\ UNCHANGED <<typed, Page, picks, told, plan, decided>>

\* A timeout, an error or a second invalid answer: _navigator_fallback.
Fallback ==
  /\ stage \in {"ask", "repair", "refine", "rerepair"}
  /\ draft' = Nothing /\ told' = "stopped"
  /\ stage' = "gate"
  /\ UNCHANGED <<typed, Page, picks, plan, decided>>

\* A page with refs is acted on by a ref that suits; on it, a step within the site
\* and a text that is there already are refused too.
Passes == (refs # {} /\ Points(draft)) => (ByRef(draft) /\ Suits(draft))
MayBeRefused == refs # {} /\ draft.command \in {"open", "type"}

Gate ==
  /\ stage = "gate"
  /\ plan' \in [status : IF told = "completed" THEN {"completed"}
                         ELSE IF told = "stopped" \/ draft = Nothing \/ ~Passes THEN {"blocked"}
                         ELSE {"action"} \cup IF MayBeRefused THEN {"blocked"} ELSE {},
                source : {"model"}, step : {draft}]
  /\ stage' = "decide"
  /\ UNCHANGED <<typed, Page, picks, draft, told, decided>>

\* Actions that a typed step allows.
Allowed ==
  CASE typed = "navigate" -> {"snapshot"}
    [] typed \in {"filter", "select_result"} -> {"snapshot", "click"}
    [] typed = "advance" -> {"snapshot", "click", "press"}
    [] OTHER -> {"snapshot", "click", "type", "press"}

\* A step the data determined, or one of the model that the typed step allows and
\* that needs no target or has a ref.
Directs ==
  /\ plan.status = "action"
  /\ \/ plan.source \in {"listing", "typed"}
     \/ /\ typed # "none" /\ plan.step.command \in Allowed
        /\ Points(plan.step) => ByRef(plan.step)

\* Without such a step a typed step stops the run; else the runtime gets it, also
\* when the planner said that it is completed or waits for the user.
Decide ==
  /\ stage = "decide"
  /\ decided' = IF Directs THEN "directed"
                ELSE IF typed \in Ruled /\ refs # {} THEN "ungrounded"
                ELSE IF typed # "none" THEN "blocked" ELSE "handed"
  /\ stage' = IF Directs THEN "act" ELSE "over"
  /\ UNCHANGED <<typed, Page, picks, draft, told, plan>>

\* The step is sent.  The loop goes on unless it failed, the run has ended, or this
\* was the last iteration.
Act ==
  /\ stage = "act"
  /\ stage' \in {"look", "over"}
  /\ UNCHANGED <<typed, Page, picks, draft, told, plan, decided>>

Next ==
  \/ Look \/ Sync \/ Determine \/ Ask \/ Answer \/ Invalid \/ Refined \/ Fallback
  \/ Gate \/ Decide \/ Act

Spec == Init /\ [][Next]_vars

-----------------------------------------------------------------------------
\* A step that is directed is a click on one of the results that the snapshot of the
\* round lists, with a role to be clicked: no answer of a model is ever directed,
\* whatever it names, and none stops the run.
OnlyListed ==
  /\ decided = "directed" =>
       /\ kind = "listing" /\ picks /\ plan.source = "listing"
       /\ plan.step \in Click(results \cap Clickable)
  /\ decided \notin {"ungrounded", "blocked"}
=============================================================================
