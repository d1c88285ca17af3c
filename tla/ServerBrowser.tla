---------------------------- MODULE ServerBrowser ----------------------------
(***************************************************************************)
(* The browsers that the backend launches for one user                     *)
(* (ServerBrowserRunnerManager in api/browser/server_runner.py), their     *)
(* rows among the user's sessions, and a computer-use run that refreshes   *)
(* its session's row (computer_use/runtime.py).                            *)
(*                                                                         *)
(* One lock orders launches and stops.  Rows are in the local store, whose *)
(* calls do not yield.  A browser has a port, and so an address, that no   *)
(* other one gets.  What is launched unforced shares one row; a forced     *)
(* launch has a row, and a runner id, of its own.                          *)
(***************************************************************************)
EXTENDS Naturals

CONSTANTS MaxBrowser   \* bound: browsers launched

Browser == 1..MaxBrowser
None    == 0
Shared  == 0
Session == {Shared} \cup Browser
Nobody  == MaxBrowser + 1   \* no session

VARIABLES
  browser,   \* per browser: not launched yet, up, told to terminate, or gone
  rows,      \* per session: its status, the browser its address is of, its mode
  managed,   \* _managed: per session the process a stop would terminate
  holder,    \* who is inside _lock: a launch of a browser, or a stop
  mine,      \* browsers launched since the backend started
  handed,    \* the session last handed to a run
  snapshot   \* the session whose pages that run has just read

vars == <<browser, rows, managed, holder, mine, handed, snapshot>>

SessionRow ==
  [status : {"none", "ready", "stopped"}, browser : Browser \cup {None}, headless : BOOLEAN]

\* Who is inside the lock: nobody, a launch, its failure, or a stop.
Holder ==
  [at : {"free"}] \cup [at : {"stop"}, session : Session] \cup
  [at : {"boot", "reap"}, browser : Browser, headless : BOOLEAN, session : Session]

TypeOK ==
  /\ browser \in [Browser -> {"none", "up", "told", "gone"}]
  /\ rows \in [Session -> SessionRow] /\ managed \in [Session -> Browser \cup {None}]
  /\ holder \in Holder /\ mine \subseteq Browser
  /\ {handed, snapshot} \subseteq Session \cup {Nobody}

Free == [at |-> "free"]

Init ==
  /\ browser = [n \in Browser |-> "none"]
  /\ rows = [s \in Session |-> [status |-> "none", browser |-> None, headless |-> FALSE]]
  /\ managed = [s \in Session |-> None] /\ holder = Free
  /\ mine = {} /\ handed = Nobody /\ snapshot = Nobody

\* _find_existing_session: of the asked mode, and its address answers within a second.
Reuse(s, headless) ==
  /\ holder = Free /\ rows[s].status = "ready" /\ rows[s].headless = headless
  /\ browser[rows[s].browser] = "up"
  /\ handed' = s
  /\ UNCHANGED <<browser, rows, managed, holder, mine, snapshot>>

\* Otherwise, also when a browser was slow to answer, or when forced to: another process.
Launch(n, headless, forced) ==
  /\ holder = Free /\ browser[n] = "none" /\ \A m \in 1..(n - 1) : browser[m] # "none"
  /\ browser' = [browser EXCEPT ![n] = "up"] /\ mine' = mine \cup {n}
  /\ holder' = [at |-> "boot", browser |-> n, headless |-> headless,
                session |-> IF forced THEN n ELSE Shared]
  /\ UNCHANGED <<rows, managed, handed, snapshot>>

\* _wait_for_cdp, _bootstrap_page or _list_pages gave up: the process is told to end, and
\* waited for inside the lock, without a limit.
BootFails ==
  /\ holder.at = "boot" /\ holder' = [holder EXCEPT !.at = "reap"]
  /\ browser' = [browser EXCEPT ![holder.browser] = IF @ = "up" THEN "told" ELSE @]
  /\ UNCHANGED <<rows, managed, mine, handed, snapshot>>

Reap ==
  /\ holder.at = "reap" /\ browser[holder.browser] = "gone" /\ holder' = Free
  /\ UNCHANGED <<browser, rows, managed, mine, handed, snapshot>>

\* Mutant: the process of a session is recorded once.
BootsOnce ==
  /\ holder.at = "boot" /\ holder' = Free /\ handed' = holder.session
  /\ rows' = [rows EXCEPT ![holder.session] =
                [status |-> "ready", browser |-> holder.browser, headless |-> holder.headless]]
  /\ managed' = [managed EXCEPT ![holder.session] = IF @ = None THEN holder.browser ELSE @]
  /\ UNCHANGED <<browser, mine, snapshot>>

\* create_session finds the row by its runner id and gives it the new address; the process
\* that _managed had for it is forgotten, whether or not it still runs.
Boots ==
  /\ holder.at = "boot" /\ holder' = Free /\ handed' = holder.session
  /\ rows' = [rows EXCEPT ![holder.session] =
                [status |-> "ready", browser |-> holder.browser, headless |-> holder.headless]]
  /\ managed' = [managed EXCEPT ![holder.session] = holder.browser]
  /\ UNCHANGED <<browser, mine, snapshot>>

\* stop_session: terminate, wait at most five seconds,
Stop(s) ==
  /\ holder = Free /\ rows[s].status # "none"
  /\ holder' = [at |-> "stop", session |-> s]
  /\ managed' = [managed EXCEPT ![s] = None]
  /\ browser' = IF managed[s] # None /\ browser[managed[s]] = "up"
                THEN [browser EXCEPT ![managed[s]] = "told"] ELSE browser
  /\ UNCHANGED <<rows, mine, handed, snapshot>>

\* and mark the row, also when there was no process to terminate.
StopMarks ==
  /\ holder.at = "stop" /\ holder' = Free
  /\ rows' = [rows EXCEPT ![holder.session].status = "stopped"]
  /\ UNCHANGED <<browser, managed, mine, handed, snapshot>>

\* _sync_browser_session_snapshot reads the pages from the browser,
SnapshotReads ==
  /\ handed # Nobody /\ browser[rows[handed].browser] = "up"
  /\ snapshot' = handed
  /\ UNCHANGED <<browser, rows, managed, holder, mine, handed>>

\* and writes the row ready, whatever it has become.
SnapshotWrites ==
  /\ snapshot # Nobody /\ snapshot' = Nobody
  /\ rows' = [rows EXCEPT ![snapshot].status = "ready"]
  /\ UNCHANGED <<browser, managed, holder, mine, handed>>

\* A browser ends: told to, or by itself.
Ends(n) ==
  /\ browser[n] \in {"up", "told"} /\ browser' = [browser EXCEPT ![n] = "gone"]
  /\ UNCHANGED <<rows, managed, holder, mine, handed, snapshot>>

\* The backend ends; nothing calls shutdown, so its browsers live on, with their rows.
Restart ==
  /\ managed' = [s \in Session |-> None] /\ holder' = Free
  /\ mine' = {} /\ handed' = Nobody /\ snapshot' = Nobody
  /\ UNCHANGED <<browser, rows>>

Next ==
  \/ BootFails \/ Reap \/ Boots \/ StopMarks \/ SnapshotReads \/ SnapshotWrites \/ Restart
  \/ \E s \in Session : Stop(s) \/ \E h \in BOOLEAN : Reuse(s, h)
  \/ \E n \in Browser : Ends(n) \/ \E h, f \in BOOLEAN : Launch(n, h, f)

Spec == Init /\ [][Next]_vars

-----------------------------------------------------------------------------
\* The browser at the address of a session, if this process launched it and it is up, is the
\* one that stopping the session terminates.  (A browser whose row was given to another one
\* has no row, and nothing stops it.)
StopFindsTheBrowser ==
  \A s \in Session :
    LET n == rows[s].browser IN
    n \in mine /\ browser[n] = "up" => managed[s] = n
=============================================================================
