----------------------------- MODULE RunVerdict -----------------------------
(***************************************************************************)
(* What the backend makes of one run handed to the automation runtime:     *)
(* _execute_run_via_automation_runtime of automation/executor.py.  It      *)
(* follows the runtime's events, keeps an observation of the page and a    *)
(* tracker of repeated actions, may fail the run itself, and when the      *)
(* stream ends decides between completed, failed and waiting_for_human by  *)
(* what was observed and by what the browser shows then.                   *)
(*                                                                         *)
(* A page is told apart by what the verdict looks for in it.  Every plan   *)
(* of automation/planner_service.py has completion criteria, so completion *)
(* is always verified.  An event is handled in one step; the browser is    *)
(* asked again at the points where the code awaits it, and may have        *)
(* changed by then.                                                        *)
(***************************************************************************)
EXTENDS Naturals

CONSTANTS
  MaxAttempt,  \* bound: how often the run is started
  MaxEvent     \* bound: browser events of one attempt

VARIABLES
  state,     \* the run's stored state
  phase,     \* where the executor task stands
  attempt,   \* starts so far
  acted,     \* browser events of this attempt
  live,      \* what the browser shows
  obs,       \* runtime_observation: page shown by its url, text of its snapshot
  surface,   \* stored execution_progress.ui_surface
  latest,    \* stored execution_progress.latest_snapshot
  tracker,   \* stored progress_tracker
  incident,  \* stored runtime_incident
  deaf,      \* runtime_locally_terminated
  reported,  \* what the last run.runtime_incident that stops the run asks for
  ending,    \* the runtime's terminal event
  seen       \* history: "sent" was on the page when this attempt looked at it

vars == <<state, phase, attempt, acted, live, obs, surface, latest, tracker,
          incident, deaf, reported, ending, seen>>

\* plain: nothing of note; editor: an unsent draft; sent: an explicit success;
\* blocked: an interstitial; blank: no text at all.
Page   == {"plain", "editor", "sent", "blocked", "blank"}
NoText == "none"
Action == {"snapshot", "click", "scroll"}

Terminal == {"completed", "failed"}

NoTracker == [snap |-> NoText, at |-> "blank", repeatedSnap |-> 0, action |-> <<>>,
              repeatedAction |-> 0, vague |-> FALSE, vagueInRow |-> 0,
              soft |-> <<>>, softInRow |-> 0]

\* Does a text of the runtime claim success or admit defeat?
Saying == {"success", "blocked", "other"}

\* The runtime's terminal event: did it fail, does it ask for a person?
Ending == {e \in [failed : BOOLEAN, person : BOOLEAN, says : Saying] :
             e.failed \/ (~e.person /\ e.says # "blocked")}
NoEnding == [failed |-> FALSE, person |-> FALSE, says |-> "other"]

TypeOK ==
  /\ state \in {"queued", "running", "waiting_for_human"} \cup Terminal
  /\ phase \in {"idle", "stream", "failure", "live", "again"}
  /\ attempt \in 0..MaxAttempt /\ acted \in 0..MaxEvent
  /\ live \in Page /\ latest \in Page \cup {NoText}
  /\ obs \in [page : Page, text : Page \cup {NoText}]
  /\ surface \in {"none", "blocker", "other"}
  /\ incident \in {"none", "soft", "persisted", "blocker", "reported", "unverified"}
  /\ deaf \in BOOLEAN /\ seen \in BOOLEAN
  /\ reported \in {"none", "person", "failed"}
  /\ ending \in Ending

Init ==
  /\ state = "queued" /\ phase = "idle" /\ attempt = 0 /\ acted = 0
  /\ live = "plain" /\ obs = [page |-> "plain", text |-> NoText]
  /\ surface = "none" /\ latest = NoText /\ tracker = NoTracker
  /\ incident = "none" /\ deaf = FALSE /\ reported = "none"
  /\ ending = NoEnding /\ seen = FALSE

-----------------------------------------------------------------------------
(* The tracker.                                                            *)

\* A tool call that names no target.
LowSpecificity(action) == action = "scroll"

\* _track_runtime_event_progress
Tracked(t, action, o) ==
  LET hashed     == action = "snapshot" /\ o.text # NoText
      sameSnap   == o.text = t.snap /\ o.page = t.at
      sameAction == t.action = <<action, o.page>>
  IN [t EXCEPT
       !.snap = IF hashed THEN o.text ELSE @,
       !.repeatedSnap = IF ~hashed THEN @ ELSE IF sameSnap THEN @ + 1 ELSE 0,
       !.at = o.page,
       !.action = <<action, o.page>>,
       !.repeatedAction = IF sameAction THEN @ + 1 ELSE 0,
       !.vague = LowSpecificity(action),
       !.vagueInRow = IF LowSpecificity(action) \/ (action = "snapshot" /\ t.vague)
                      THEN @ + 1 ELSE 0]

\* The soft incident of a tool call, by the tracker before (t) and after it (n).
SoftIncident(t, n, action) ==
  CASE n.vague /\ t.vague /\ n.repeatedAction >= 1 -> "ambiguous"
    [] n.vagueInRow >= 3                            -> "ambiguous"
    [] action = "snapshot" /\ t.vague               -> "ambiguous"
    [] n.repeatedSnap >= 2 \/ n.repeatedAction >= 3 -> "no_progress"
    [] OTHER                                        -> "none"

\* _register_soft_runtime_incident: the second one in a row with the same code
\* on the same page is final.
Registered(n, code, page) ==
  [n EXCEPT !.soft = <<code, page>>,
            !.softInRow = IF n.soft = <<code, page>> THEN @ + 1 ELSE 1]

Persisted(n) == n.softInRow > 1

-----------------------------------------------------------------------------
(* Observation.                                                            *)

\* _runtime_browser_observation_from_payload, as a set: what the event may make of the
\* observation, if it brings the text of the page or not.  The text of a snapshot
\* replaces the earlier one; any other event keeps that, unless it names another target,
\* and brings text only where there is none.
Observed(action, page, brings) ==
  LET shown == IF brings /\ page # "blank" THEN page ELSE NoText
      texts == IF action = "snapshot" THEN {shown}
               ELSE {IF kept = NoText THEN shown ELSE kept : kept \in {obs.text, NoText}}
  IN [page : {page}, text : texts]

\* interpret_ui_surface, for the verdict: is a blocking page in the foreground?
Interpreted(text) == IF text = "blocked" THEN "blocker" ELSE "other"

Remembered(o) == IF o.text = NoText THEN latest ELSE o.text

\* _run_backend_directed_runtime_actions looks at the page before the runtime
\* starts; the tracker is loaded through a model without the vague fields.
StartAttempt ==
  /\ phase = "idle" /\ attempt < MaxAttempt
  /\ state \in {"queued", "failed", "waiting_for_human"}
  /\ state' = "running" /\ phase' = "stream"
  /\ attempt' = attempt + 1 /\ acted' = 0
  /\ obs' = [page |-> live, text |-> NoText]
  /\ latest' = IF live = "blank" THEN latest ELSE live
  /\ surface' = Interpreted(latest')
  /\ tracker' = [tracker EXCEPT !.vague = FALSE, !.vagueInRow = 0]
  /\ deaf' = FALSE /\ reported' = "none" /\ ending' = NoEnding
  /\ seen' = FALSE
  /\ UNCHANGED <<live, incident>>

\* on_runtime_event of an event that finds the run finished.
Ignored ==
  /\ deaf' = TRUE
  /\ UNCHANGED <<state, obs, surface, latest, tracker, incident, reported>>

\* The progress row read when the handler began is written back with the
\* incident: it still holds the surface from before this event.
ToolReported(action, o) ==
  LET n == Tracked(tracker, action, o)
      code == SoftIncident(tracker, n, action)
      r == IF code = "none" THEN n ELSE Registered(n, code, o.page)
      final == code # "none" /\ Persisted(r)
  IN /\ obs' = o /\ latest' = Remembered(o)
     /\ tracker' = r
     /\ surface' = IF code = "none" THEN Interpreted(Remembered(o)) ELSE surface
     /\ incident' = IF code = "none" THEN incident ELSE IF final THEN "persisted" ELSE "soft"
     /\ state' = IF final THEN "failed" ELSE state
     /\ deaf' = final
     /\ UNCHANGED reported

\* The runtime acts, the page becomes whatever it becomes, and the event arrives.
ToolFinished(action, page, brings) ==
  /\ phase = "stream" /\ acted < MaxEvent
  /\ action = "snapshot" => page = live /\ brings
  /\ acted' = acted + 1 /\ live' = page
  /\ IF state \in Terminal THEN Ignored
     ELSE \E o \in Observed(action, page, brings) : ToolReported(action, o)
  /\ seen' = (seen \/ (brings /\ page = "sent"))
  /\ UNCHANGED <<phase, attempt, ending>>

\* run.browser.snapshot: the same observation without the tracker.  It names no action,
\* so its text counts only where there is none.
SnapshotSeen ==
  /\ phase = "stream" /\ state \notin Terminal /\ acted < MaxEvent
  /\ acted' = acted + 1
  /\ obs' \in Observed("none", live, TRUE) /\ latest' = Remembered(obs')
  /\ surface' = Interpreted(latest')
  /\ seen' = (seen \/ live = "sent")
  /\ UNCHANGED <<state, phase, attempt, live, tracker, incident, deaf, reported, ending>>

\* run.runtime_incident is passed on; the verdict reads the list of events.
IncidentReported(kind) ==
  /\ phase = "stream" /\ state \notin Terminal
  /\ reported' = kind
  /\ UNCHANGED <<state, phase, attempt, acted, live, obs, surface, latest, tracker,
                 incident, deaf, ending, seen>>

\* run.waiting_for_human sets the state; the stream goes on.
RuntimeWaits ==
  /\ phase = "stream" /\ state \notin Terminal
  /\ state' = "waiting_for_human"
  /\ UNCHANGED <<phase, attempt, acted, live, obs, surface, latest, tracker,
                 incident, deaf, reported, ending, seen>>


-----------------------------------------------------------------------------
(* The end of the stream and the verdict.                                  *)

Rest == <<attempt, acted, obs, surface, latest, tracker, deaf, reported>>

EndsAs(s) == state' = s /\ phase' = "idle"

\* _typed_blocker_incident_from_run
Blocked == surface = "blocker"

\* _looks_like_unsent_editor_surface
Unsent == live = "editor"

\* The error and the blocking page have not been explained away.
Unresolved(e) ==
  IF Blocked THEN EndsAs("waiting_for_human") /\ incident' = "blocker"
  ELSE /\ EndsAs(IF e.person THEN "waiting_for_human" ELSE "failed")
       /\ UNCHANGED incident

Complete == EndsAs("completed") /\ incident' = "none"

\* Mutant: what the runtime says of itself is believed.
VerifyByWord ==
  IF obs.text = "sent" \/ ending'.says = "success" THEN Complete
  ELSE phase' = "live" /\ UNCHANGED <<state, incident>>

\* The last snapshot of the runtime is believed first; else the browser is asked.  The
\* check that a completion left any evidence passes always: an observation is never empty.
Verify ==
  IF obs.text = "sent" THEN Complete
  ELSE phase' = "live" /\ UNCHANGED <<state, incident>>

Decide ==
  IF Blocked THEN EndsAs("waiting_for_human") /\ incident' = "blocker"
  ELSE IF reported # "none"
  THEN /\ EndsAs(IF reported = "person" THEN "waiting_for_human" ELSE "failed")
       /\ incident' = "reported"
  ELSE Verify

\* An error whose text admits defeat is not looked into.
StreamEnds(e) ==
  /\ phase = "stream"
  /\ ending' = e
  /\ IF deaf \/ state \in Terminal THEN phase' = "idle" /\ UNCHANGED <<state, incident>>
     ELSE IF ~e.failed THEN Decide
     ELSE IF e.says = "blocked" THEN Unresolved(e)
     ELSE phase' = "failure" /\ UNCHANGED <<state, incident>>
  /\ UNCHANGED <<Rest, live, seen>>

\* _runtime_failure_resolved_by_live_verification: an error is overridden when
\* success is claimed or visible and no unsent draft is in the foreground.
Overridden ==
  /\ ending.says = "success" \/ live = "sent" \/ obs.text = "sent"
  /\ ~Unsent

FailureChecked ==
  /\ phase = "failure"
  /\ IF Overridden THEN Verify ELSE Unresolved(ending)
  /\ seen' = (seen \/ live = "sent")
  /\ UNCHANGED <<Rest, live, ending>>

\* _fresh_terminal_snapshot_text: an empty page leaves the last snapshot, then
\* the runtime's own words.
ShownText ==
  IF live # "blank" THEN live
  ELSE IF obs.text # NoText THEN obs.text
  ELSE IF ending.says = "success" THEN "sent" ELSE "plain"

\* _has_explicit_terminal_success
ShowsSuccess == ShownText = "sent"

Unverified == EndsAs("failed") /\ incident' = "unverified"

\* An unsent draft gets one more second.
LiveChecked ==
  /\ phase = "live"
  /\ IF Unsent THEN phase' = "again" /\ UNCHANGED <<state, incident>>
     ELSE IF ShowsSuccess THEN Complete ELSE Unverified
  /\ seen' = (seen \/ live = "sent")
  /\ UNCHANGED <<Rest, live, ending>>

CheckedAgain ==
  /\ phase = "again"
  /\ IF ~Unsent /\ ShowsSuccess THEN Complete ELSE Unverified
  /\ seen' = (seen \/ live = "sent")
  /\ UNCHANGED <<Rest, live, ending>>

\* The browser goes on by itself while it is being asked: a message is sent, a
\* page is gone.
PageChanges ==
  /\ phase \in {"failure", "live", "again"}
  /\ \E page \in Page :
       /\ <<live, page>> \in {<<"editor", "sent">>, <<"editor", "plain">>, <<"plain", "blank">>}
       /\ live' = page
  /\ UNCHANGED <<state, phase, incident, Rest, ending, seen>>

\* The stream or the browser breaks: _execute_run_steps records a failure.
Breaks ==
  /\ phase # "idle"
  /\ EndsAs("failed")
  /\ UNCHANGED <<incident, Rest, live, ending, seen>>

Next ==
  \/ StartAttempt
  \/ \E action \in Action, page \in Page, brings \in BOOLEAN : ToolFinished(action, page, brings)
  \/ SnapshotSeen
  \/ \E kind \in {"person", "failed"} : IncidentReported(kind)
  \/ RuntimeWaits
  \/ \E e \in Ending : StreamEnds(e)
  \/ FailureChecked \/ LiveChecked \/ CheckedAgain
  \/ PageChanges
  \/ Breaks

Spec == Init /\ [][Next]_vars

-----------------------------------------------------------------------------
\* A run is completed only when this attempt saw the success in the browser, or
\* the browser had nothing to show and the runtime said so.
CompletedIsSeen ==
  state = "completed" => seen \/ (live = "blank" /\ ending.says = "success")

\* A completed run carries no incident, whatever its stream reported before.
CompletedClears == state = "completed" => incident = "none"

\* A run the backend gave up on is failed and stays so to the end of its stream.
DeafIsFailed == deaf /\ phase = "stream" => state = "failed" /\ incident = "persisted"

VerdictSound == CompletedIsSeen /\ CompletedClears /\ DeafIsFailed
=============================================================================
