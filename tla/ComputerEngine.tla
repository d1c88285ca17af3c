--------------------------- MODULE ComputerEngine ---------------------------
(***************************************************************************)
(* The loop of computer_use/engine.py (run_computer_use): every turn picks *)
(* one of the browser's tabs, looks at it, asks the model for one action,  *)
(* does it, and picks a tab again.                                         *)
(*                                                                         *)
(* A tab is told by what the code's heuristics make of its page, and after *)
(* a navigate by whether its address matches the one asked for.  The last  *)
(* tab of the browser has the highest number.                              *)
(***************************************************************************)
EXTENDS Naturals, Sequences, FiniteSetsExt

CONSTANTS
  LastTab,    \* tabs are 0..LastTab
  MaxStep,    \* computer_use_max_steps
  LastModel,  \* candidate models are asked in the order 1..LastModel
  LastSize    \* the screenshot is offered in the sizes 1..LastSize, the largest first

Tab   == 0..LastTab
Shown == {"listing", "detail", "plain", "error"}
Kind  == {"click", "type", "scroll", "press", "navigate", "wait", "done"}
\* What the task's wording asks for.
Wants == {"results", "filtered_results", "opening", "other"}

VARIABLES
  wants,    \* the task
  at,       \* the await the loop stands at
  tabs,     \* what each tab shows, or "closed"
  there,    \* tabs whose address matches the one of the navigate being done
  page,     \* the tab the loop has in hand
  asked,    \* the model and the size of screenshot being tried
  act,      \* the action being done
  trail,    \* the steps recorded: what they tell the heuristics
  result    \* "open", what ended the loop well, or how it failed

vars == <<wants, at, tabs, there, page, asked, act, trail, result>>
FirstAsked == [model |-> 1, size |-> 1]

TypeOK ==
  /\ wants \in Wants /\ at \in {"connect", "look", "model", "act", "settle", "over"}
  /\ tabs \in [Tab -> Shown \cup {"closed"}] /\ there \subseteq Tab /\ page \in Tab
  /\ asked \in [model : 1..LastModel, size : 1..LastSize]
  /\ act \in Kind \cup {"none"} /\ trail \in Seq({"there", "filter", "move", "other"})
  /\ Len(trail) <= MaxStep
  /\ result \in {"open", "results", "said_so", "opened", "step_limit_reached", "raised"}

Init ==
  /\ wants \in Wants /\ at = "connect" /\ page = 0
  /\ tabs \in [Tab -> {"plain", "error", "closed"}] /\ there = {}
  /\ asked = FirstAsked /\ act = "none" /\ trail = <<>> /\ result = "open"

-----------------------------------------------------------------------------
(* Choosing a tab.                                                         *)

Open(s)       == {i \in Tab : s[i] # "closed"}
Showing(s, k) == {i \in Tab : s[i] = k}
First(s)      == IF Open(s) = {} THEN 0 ELSE Min(Open(s))
WantsResults  == wants \in {"results", "filtered_results"}

\* Of the open tabs the last that is where the navigate went; else the one in
\* hand unless it is closed or shows an error; else the last that shows none.
SelectActive(s, p, preferred) ==
  LET healthy == Open(s) \ Showing(s, "error") IN
    IF Open(s) = {} THEN p
    ELSE IF preferred # {} THEN Max(preferred)
    ELSE IF p \in healthy THEN p
    ELSE IF healthy # {} THEN Max(healthy)
    ELSE IF p \in Open(s) THEN p ELSE Max(Open(s))

\* Who asked for results is shown them: the tab in hand, the last listing, or
\* from a product's page the last tab that shows no product.
SelectRelevant(s, p) ==
  LET q        == SelectActive(s, p, {})
      listings == Showing(s, "listing")
      others   == Showing(s, "plain") \cup Showing(s, "error") IN
    IF ~WantsResults \/ q \in listings THEN q
    ELSE IF listings # {} THEN Max(listings)
    ELSE IF s[q] = "detail" /\ others # {} THEN Max(others) ELSE q

-----------------------------------------------------------------------------
(* Ending.                                                                 *)

Last(t, n) == SubSeq(t, IF Len(t) > n THEN Len(t) - n + 1 ELSE 1, Len(t))
Times(t, set) == Cardinality({i \in DOMAIN t : t[i] \in set})

\* Three steps and one of them about filters, or four that moved something.
FilterWork(t) ==
  /\ Len(t) >= 3
  /\ Times(Last(t, 8), {"filter"}) >= 1 \/ Times(Last(t, 8), {"move"}) >= 4

ShowsResults(kind, t) ==
  /\ WantsResults /\ kind = "listing"
  /\ wants = "filtered_results" => FilterWork(t)

Finish(r) == at' = "over" /\ result' = r

\* An exception ends the loop, whatever it had in hand.
Raises ==
  /\ at \in {"connect", "look", "model", "act", "settle"}
  /\ Finish("raised")
  /\ asked' = FirstAsked /\ UNCHANGED <<wants, tabs, there, page, act, trail>>

-----------------------------------------------------------------------------
(* A turn.                                                                 *)

\* _connect_page takes the first tab, and opens one in a browser without tabs; it is
\* empty, which counts as an error page.
Connected(s) == IF Open(s) = {} THEN [s EXCEPT ![0] = "error"] ELSE s

Connect ==
  /\ at = "connect" /\ at' = "look"
  /\ tabs' = Connected(tabs) /\ page' = First(tabs)
  /\ UNCHANGED <<wants, there, asked, act, trail, result>>

\* Page state and screenshot: up to four tries each while a navigation destroys
\* what is read from; of a closed tab nothing can be read.
Readable(s, p) == s[p] # "closed"

Look ==
  LET p == SelectRelevant(tabs, page) IN
    /\ at = "look" /\ page' = p /\ Readable(tabs, p)
    /\ IF ShowsResults(tabs[p], trail) THEN Finish("results")
       ELSE at' = "model" /\ UNCHANGED result
    /\ UNCHANGED <<wants, tabs, there, asked, act, trail>>

\* Pages change on their own while the loop waits.
Drifts ==
  /\ at = "model"
  /\ \E i \in Open(tabs), k \in Shown \cup {"closed"} : tabs' = [tabs EXCEPT ![i] = k]
  /\ UNCHANGED <<wants, at, there, page, asked, act, trail, result>>

\* A prompt that is too long is tried with a smaller screenshot, anything else
\* and the smallest with the next model; after the last one the loop raises.
Refused(long) ==
  /\ at = "model"
  /\ IF long /\ asked.size < LastSize THEN asked' = [asked EXCEPT !.size = @ + 1]
     ELSE asked.model < LastModel /\ asked' = [model |-> asked.model + 1, size |-> 1]
  /\ UNCHANGED <<wants, at, tabs, there, page, act, trail, result>>

\* What the model may answer: the action, and whether it came with a point, with
\* text, with an absolute address or a key that is allowed, and with a reason to
\* press Enter while a search box is filled.
Answer == [kind : Kind \cup {"unknown"}, point : BOOLEAN, text : BOOLEAN, fit : BOOLEAN,
           enter : BOOLEAN]

Tabbed(a)   == a.kind = "type" /\ ~a.point /\ a.text     \* the focus is moved first
Unusable(a) ==
  \/ a.kind = "unknown"
  \/ a.kind \in {"click", "type"} /\ ~a.point /\ ~Tabbed(a)
  \/ a.kind = "type" /\ ~a.text
  \/ a.kind \in {"navigate", "press"} /\ ~a.fit
Sanitized(a) ==
  CASE a.kind = "wait" \/ Unusable(a) -> IF a.enter THEN "press" ELSE "wait"
    [] Tabbed(a)                      -> "press"
    [] OTHER                          -> a.kind

\* done is believed.
Decide ==
  /\ at = "model" /\ asked' = FirstAsked
  /\ \E a \in Answer :
       /\ act' = Sanitized(a)
       /\ IF Sanitized(a) = "done" THEN Finish("said_so")
          ELSE at' = "act" /\ UNCHANGED result
  /\ UNCHANGED <<wants, tabs, there, page, trail>>

\* What an action may do to the tabs: its own shows something else or is closed,
\* and another one may open, empty or not.
Effect ==
  /\ there' = {}
  /\ IF act = "wait" THEN UNCHANGED tabs
     ELSE \E k \in Shown \cup {"closed"}, new \in Shown :
            tabs' \in {[tabs EXCEPT ![page] = k]} \cup
                      {[tabs EXCEPT ![page] = k, ![i] = new] : i \in Tab \ Open(tabs)}

\* A navigate loads its page in the tab in hand, in one of three ways that are
\* tried in turn; or in a new tab when none worked; or it assigns the location.
\* It may be redirected to another address.
Navigates ==
  \E i \in {page} \cup (Tab \ Open(tabs)), k \in Shown :
    /\ tabs' = [tabs EXCEPT ![i] = k]
    /\ there' \in {{}, {i}}

\* Carried out; or interrupted by a navigation or by the end of its tab, and a
\* tab is looked for at once.
Apply ==
  /\ at = "act" /\ at' = "settle"
  /\ IF act = "navigate" THEN Navigates ELSE Effect
  /\ page' \in {page, SelectActive(tabs', page, there')}
  /\ UNCHANGED <<wants, asked, act, trail, result>>

\* Mutant: what the navigate asked for is not looked for after the reconnection.
SettledInHand(s) == SelectRelevant(s, IF act = "navigate" THEN First(s) ELSE page)

\* After a navigate the loop connects anew, which puts the first tab in its hand.
Settled(s) ==
  SelectRelevant(s, SelectActive(s, IF act = "navigate" THEN First(s) ELSE page, there))

\* The step as the heuristics see it, those for a task with filters too: its reason
\* may speak of them.
Step(p) ==
  IF act = "navigate" /\ p \in there THEN {"there"}
  ELSE IF wants # "filtered_results" THEN {"other"}
  ELSE {"filter", IF act \in {"click", "scroll", "press"} THEN "move" ELSE "other"}

\* The address is reached: at once for a task that only opens a page, and for any
\* other when it is reached for the second time in three steps (what was reached
\* before may have been another one).
MustOpen(p) == act = "navigate" /\ p \in there /\ wants = "opening"
Opens(p, t) ==
  MustOpen(p) \/ (act = "navigate" /\ p \in there /\ Times(Last(t, 3), {"there"}) >= 2)

Goes(t) ==
  IF Len(t) = MaxStep THEN Finish("step_limit_reached") ELSE at' = "look" /\ UNCHANGED result

Settle ==
  LET s == IF act = "navigate" THEN Connected(tabs) ELSE tabs
      p == Settled(s) IN
    /\ at = "settle" /\ page' = p /\ Readable(s, p)
    /\ \E step \in Step(p) : trail' = Append(trail, step)
    /\ tabs' = s /\ there' = {} /\ act' = "none"
    /\ IF ShowsResults(s[p], trail') THEN Finish("results")
       ELSE \/ Opens(p, trail') /\ Finish("opened")
            \/ ~MustOpen(p) /\ Goes(trail')
    /\ UNCHANGED <<wants, asked>>

Next ==
  \/ Connect \/ Look \/ Decide \/ Apply \/ Settle \/ Raises \/ Drifts
  \/ \E long \in BOOLEAN : Refused(long)

Spec == Init /\ [][Next]_vars

-----------------------------------------------------------------------------
\* A navigate that arrived is followed: the reconnection hands the loop the first
\* tab of the browser, and it goes on (or ends) on the one that was asked for,
\* unless that shows an error, or the task is to show results and a listing or a
\* way off a product is preferred.
NavigationIsFollowed ==
  [][at = "settle" /\ there # {} /\ ~WantsResults /\ at' \in {"look", "over"} /\ result' # "raised"
       => page' \in there \/ tabs[Max(there)] = "error"]_vars
=============================================================================
