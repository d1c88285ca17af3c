----------------------------- MODULE DirectedRun -----------------------------
(***************************************************************************)
(* The part of a run the backend directs itself before it hands the run to *)
(* the automation runtime: _run_backend_directed_runtime_actions of        *)
(* automation/executor.py.  It looks at the page, lets the planner name a  *)
(* result to click, sends the click to the runtime and, when that breaks,  *)
(* clicks itself through the agent-browser command line, whose current tab *)
(* it has to keep on the page the run means.                               *)
(*                                                                         *)
(* Every step below is one command or connection that the code awaits.     *)
(* Tabs move between any two of them.  Pages are told apart by their URL   *)
(* (the code also accepts an equal title).  Plans of a browser-owned run   *)
(* hold no typed steps here, so the only directed action is the click on a *)
(* listed result, and whatever else the planner says hands the run over.   *)
(***************************************************************************)
EXTENDS Naturals, FiniteSets

CONSTANTS
  LastTab,      \* tabs are numbered 0..LastTab
  Url,          \* pages
  Listing,      \* the pages that list results
  Goal,         \* the pages the plan's target names
  Ref,          \* page refs of the run's registry (bound)
  Closed,       \* the URL of a tab that is not open
  NoRef,        \* no page ref
  MaxIteration, \* max_iterations of the loop
  MaxMove       \* bound: moves of the tabs in one loop

Tab   == 0..LastTab
NoTab == LastTab + 1

VARIABLES
  at,        \* the await the loop stands at
  round,     \* iterations begun
  url,       \* what each tab shows
  front,     \* current tab of the agent-browser session
  registry,  \* page_registry of the run
  active,    \* active_page_ref
  plannedOn, \* history: the page of the snapshot the planner saw
  meant,     \* history: the page the active ref stood for at the last sync
  failed,    \* the step's result was an error
  astray,    \* history: no tab showed it then, or a tab moved since
  moves      \* moves so far

vars == <<at, round, url, front, registry, active, plannedOn, meant, failed, astray, moves>>

Entry   == [url : Url, index : Tab \cup {NoTab}]

TypeOK ==
  /\ at \in {"idle", "observe", "look", "plan", "runtime", "sync", "tab", "again",
             "click", "after", "resync", "patch"}
  /\ round \in 0..MaxIteration
  /\ url \in [Tab -> Url \cup {Closed}]
  /\ front \in Tab
  /\ DOMAIN registry \subseteq Ref /\ \A r \in DOMAIN registry : registry[r] \in Entry
  /\ active \in DOMAIN registry \cup {NoRef}
  /\ {plannedOn, meant} \subseteq Url \cup {Closed}
  /\ {failed, astray} \subseteq BOOLEAN /\ moves \in 0..MaxMove

Init ==
  /\ at = "idle" /\ round = 0 /\ front = 0
  /\ url \in [Tab -> Url \cup {Closed}] /\ url[0] # Closed
  /\ registry = [r \in {} |-> 0] /\ active = NoRef
  /\ plannedOn = Closed /\ meant = Closed
  /\ failed = FALSE /\ astray = FALSE /\ moves = 0

Open == {t \in Tab : url[t] # Closed}
First(T) == CHOOSE t \in T : \A u \in T : t <= u

-----------------------------------------------------------------------------
(* The run's registry of pages.                                            *)

\* _resolve_runtime_target_page: a registered page the goal names, else the
\* active one.
Resolves(ref) ==
  LET named == {r \in DOMAIN registry : registry[r].url \in Goal}
  IN IF named # {} THEN ref \in named ELSE ref = active

\* The page _resolve_cdp_page_for_step takes a ref for: the first with its URL,
\* and when there is none the first page of the browser.
TargetTab(ref) ==
  LET same == {t \in Open : ref # NoRef /\ url[t] = registry[ref].url}
  IN First(IF same # {} THEN same ELSE Open)

\* _next_dynamic_page_ref: a page no entry stands for gets a ref of its own.
Discovered(reg) ==
  LET new == {u \in {url[t] : t \in Open} : \A r \in DOMAIN reg : reg[r].url # u}
      free == Ref \ DOMAIN reg
  IN IF new = {} \/ free = {} THEN reg
     ELSE LET u == CHOOSE v \in new : TRUE
              r == CHOOSE f \in free : TRUE
          IN [q \in DOMAIN reg \cup {r} |->
               IF q = r THEN [url |-> u, index |-> NoTab] ELSE reg[q]]

\* _sync_page_registry_over_cdp: the entry is rewritten from the page taken,
\* whether or not it is the page the ref stood for.
SyncedRegistry ==
  Discovered(IF active = NoRef THEN registry
             ELSE [registry EXCEPT ![active] = [url |-> url[TargetTab(active)], index |-> NoTab]])

\* A listed tab matches a stored index, but for the index 0, which reads as -1.
IndexMatch(e) == {t \in Open : t = e.index /\ t # 0}

\* Mutant: the stored index is trusted before the page.
MatchedByIndex(e) ==
  IF IndexMatch(e) # {} THEN IndexMatch(e) ELSE {t \in Open : url[t] = e.url}

Matched(e) ==
  LET same == {t \in Open : url[t] = e.url}
  IN IF same # {} THEN same ELSE IndexMatch(e)

\* _sync_agent_browser_active_tab: switch the command line to the active page.
\* When no tab matches, that is logged and the command line stays where it is.
NoMatch == active = NoRef \/ Matched(registry[active]) = {}
MatchedTab ==
  LET T == Matched(registry[active])  both == IndexMatch(registry[active]) \cap T
  IN First(IF both # {} THEN both ELSE T)

SwitchTab ==
  /\ meant' = IF active = NoRef THEN Closed ELSE registry[active].url
  /\ astray' = \A t \in Open : url[t] # meant'
  /\ front' = IF NoMatch THEN front ELSE MatchedTab

\* The active entry is rewritten from the tab.
SyncTab ==
  /\ SwitchTab
  /\ registry' = IF NoMatch THEN registry
                 ELSE [registry EXCEPT ![active] = [url |-> url[MatchedTab], index |-> MatchedTab]]

-----------------------------------------------------------------------------
(* The loop.                                                               *)

Tabs == <<url, moves>>

\* A run starts, or is retried: the surface is prepared and the target page
\* becomes the active one.  A registry is first filled from the live session.
Prepare ==
  /\ at = "idle" /\ round < MaxIteration
  /\ IF registry = [r \in {} |-> 0]
     THEN \E r \in Ref : /\ registry' = [q \in {r} |-> [url |-> url[First(Open)], index |-> First(Open)]]
                         /\ active' \in {r, NoRef}
     ELSE /\ \E ref \in DOMAIN registry \cup {NoRef} : Resolves(ref) /\ active' = ref
          /\ UNCHANGED registry
  /\ at' = "observe"
  /\ UNCHANGED <<Tabs, round, front, plannedOn, meant, failed, astray>>

\* The observation works on a copy of the registry: what the sync writes there is dropped.
Observe ==
  /\ at = "observe" /\ round < MaxIteration
  /\ round' = round + 1
  /\ SwitchTab
  /\ at' = "look"
  /\ UNCHANGED <<Tabs, registry, active, plannedOn, failed>>

\* The snapshot of the command line's tab.
Look ==
  /\ at = "look"
  /\ plannedOn' = url[front]
  /\ at' = "plan"
  /\ UNCHANGED <<Tabs, round, front, registry, active, meant, failed, astray>>

HandedOver == at' = "idle"

\* The planner may click a result of a listing, or not.
Plan ==
  /\ at = "plan"
  /\ \/ plannedOn \in Listing /\ at' = "runtime"
     \/ HandedOver
  /\ UNCHANGED <<Tabs, round, front, registry, active, plannedOn, meant, failed, astray>>

\* The runtime takes the step as a hint.  An exception of the request or of its
\* stream falls back to the command line, whatever the runtime did before it.
ViaRuntime ==
  /\ at = "runtime"
  /\ \/ at' = "patch" /\ failed' \in BOOLEAN
     \/ at' = "sync" /\ UNCHANGED failed
  /\ \E t \in Open, u \in Url : url' = [url EXCEPT ![t] = u]
  /\ astray' = TRUE
  /\ UNCHANGED <<round, front, registry, active, plannedOn, meant, moves>>

SyncBefore ==
  /\ at = "sync"
  /\ registry' = SyncedRegistry
  /\ at' = "tab"
  /\ UNCHANGED <<Tabs, round, front, active, plannedOn, meant, failed, astray>>

\* No snapshot is kept between steps, so a new one is taken before the click; the
\* ref is not compared with the snapshot the planner saw.
Refresh ==
  /\ at = "tab"
  /\ SyncTab
  /\ at' = "again"
  /\ UNCHANGED <<Tabs, round, active, plannedOn, failed>>

Retaken ==
  /\ at = "again"
  /\ at' = "click"
  /\ UNCHANGED <<Tabs, round, front, registry, active, plannedOn, meant, failed, astray>>

\* The click, and the page it leads to.
Click ==
  /\ at = "click"
  /\ \E u \in Url : url' = IF url[front] = Closed THEN url ELSE [url EXCEPT ![front] = u]
  /\ at' = "after"
  /\ UNCHANGED <<round, front, registry, active, plannedOn, meant, failed, astray, moves>>

\* The snapshot after the step syncs the tab once more.
After ==
  /\ at = "after"
  /\ SyncTab
  /\ at' = "resync"
  /\ UNCHANGED <<Tabs, round, active, plannedOn, failed>>

SyncAfter ==
  /\ at = "resync"
  /\ registry' = SyncedRegistry
  /\ at' = "patch" /\ failed' = FALSE
  /\ UNCHANGED <<Tabs, round, front, active, plannedOn, meant, astray>>

\* Whatever raises in the step makes an error result of it.
StepRaises ==
  /\ at \in {"sync", "tab", "again", "click", "after", "resync"}
  /\ at' = "patch" /\ failed' = TRUE
  /\ UNCHANGED <<Tabs, round, front, registry, active, plannedOn, meant, astray>>

\* The registry is stored; an error or the last iteration hands the run over.
Patch ==
  /\ at = "patch"
  /\ IF failed \/ round = MaxIteration THEN HandedOver ELSE at' = "observe"
  /\ failed' = FALSE
  /\ UNCHANGED <<Tabs, round, front, registry, active, plannedOn, meant, astray>>

\* Outside of a step an exception ends the execution of the run.
Raises ==
  /\ at \in {"observe", "look", "plan"}
  /\ HandedOver
  /\ UNCHANGED <<Tabs, round, front, registry, active, plannedOn, meant, failed, astray>>

\* The user or a page opens, closes or leads a tab elsewhere.
TabMoves ==
  /\ moves < MaxMove /\ moves' = moves + 1
  /\ \E t \in Tab, u \in Url \cup {Closed} :
       /\ u # url[t] /\ url' = [url EXCEPT ![t] = u]
       /\ \E o \in Tab : url'[o] # Closed
  /\ astray' = TRUE
  /\ UNCHANGED <<at, round, front, registry, active, plannedOn, meant, failed>>

Work == Observe \/ Look \/ Plan \/ ViaRuntime \/ SyncBefore \/ Refresh \/ Retaken
        \/ Click \/ After \/ SyncAfter \/ Patch

Next == Prepare \/ Work \/ StepRaises \/ Raises \/ TabMoves

Spec == Init /\ [][Next]_vars

-----------------------------------------------------------------------------
\* When a tab showed the page the active ref stood for and none moved since, the
\* command line looks at, and clicks in, that page, whatever tab index the run had
\* stored for it.
OnTheMeantPage == at \in {"look", "click"} /\ ~astray => url[front] = meant

\* The active ref is one of the registry's refs whatever the syncs made of it.
RefIsKnown == active # NoRef => active \in DOMAIN registry

PageIsKept == OnTheMeantPage /\ RefIsKnown
=============================================================================
