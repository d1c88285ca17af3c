------------------------------ MODULE MCStreams ------------------------------
(***************************************************************************)
(* The two event streams of a run on small instances, the backend's to its *)
(* clients (EventStream) and the automation runtime's to the backend       *)
(* (RuntimeRuns), and the store that runs are kept in (RunStore).  They    *)
(* share no state, so a behaviour is one of any of them: focus says which, *)
(* and the others stay as they begin.                                      *)
(***************************************************************************)
EXTENDS EventStream

CONSTANTS c1, k1, r1, Run, Reader, MaxExec, MaxLog, NoRun, NoRecord,
  Doc, Writer, NoDoc, MaxWrite

ASSUME MaxWriteAssumption == MaxWrite \in Nat

VARIABLES focus, record, log, current, aborted, exec, client,
  local, remote, kept, loaded, file, dirty, flush, broke, writer, born, writes

Runtime == INSTANCE RuntimeRuns WITH Client <- Reader, NoEvent <- NoRecord, MayRestart <- FALSE
Store == INSTANCE RunStore WITH memory <- kept

streamVars  == vars
runtimeVars == <<record, log, current, aborted, exec, client>>
storeVars   == <<local, remote, kept, loaded, file, dirty, flush, broke, writer, born, writes>>

MCInit ==
  /\ focus \in {"stream", "runtime", "store"} /\ Init /\ Runtime!Init /\ Store!Init
  /\ focus # "store" => local

MCNext ==
  /\ UNCHANGED focus
  /\ \/ focus = "stream" /\ Next /\ UNCHANGED <<runtimeVars, storeVars>>
     \/ focus = "runtime" /\ Runtime!Next /\ UNCHANGED <<streamVars, storeVars>>
     \/ focus = "store" /\ Store!Next /\ UNCHANGED <<streamVars, runtimeVars>>

MCFairSpec ==
  /\ MCInit /\ [][MCNext]_<<focus, streamVars, runtimeVars, storeVars>>
  /\ Fairness /\ Runtime!Fairness

-----------------------------------------------------------------------------
\* What the parts' modules state, and say there.
ImplementsEventFeed == Runtime!ImplementsEventFeed

\* What is stored is kept, as far as the store promises: on disk, and whole.
RowsAreKept == Store!TypeOK /\ Store!FileIsRecent /\ Store!RowsAreWhole

\* The end of a run is told in both streams: see LastEventArrives and ReaderIsReleased.
\* Readers are interchangeable, so one stands for all.
Owed ==
  IF focus = "stream" THEN MaxEvent \in stored /\ conn[c1].pc # "off"
  ELSE focus = "runtime" /\ Runtime!Unreleased(k1, r1)

Settled ==
  IF focus = "stream"
  THEN MaxEvent \in ToSet(conn[c1].got) \cup {conn[c1].start} \/ conn[c1].pc = "off"
  ELSE client[k1].phase # "reading"

EndIsTold == Owed ~> Settled
=============================================================================
