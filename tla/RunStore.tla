------------------------------ MODULE RunStore ------------------------------
(***************************************************************************)
(* The rows of runs in automation/store.py, with either of its stores.     *)
(*                                                                         *)
(* The local store of development keeps all documents in memory and writes *)
(* them to one file 250 ms after a change; its calls do not yield.  With   *)
(* Firestore a call may fail or time out after it took effect: a save then *)
(* goes to a table in memory, a read is answered from that table, and an   *)
(* update is a read and a merging write of the whole row.                  *)
(*                                                                         *)
(* A row is what its creation wrote (whole) and the last patch.            *)
(***************************************************************************)
EXTENDS Naturals

CONSTANTS
  Doc,       \* ids of runs
  Writer,    \* callers, each in one operation at a time
  NoDoc,     \* no row
  MaxWrite   \* bound: writes of a behaviour

VARIABLES
  local,    \* which store: _use_local_store(), fixed by the settings
  remote,   \* Firestore's rows
  memory,   \* _local_documents, or the table of failed saves (_runs)
  loaded,   \* _local_documents_loaded
  file,     \* the local store's file: the rows in it, or unreadable
  dirty,    \* _local_store_dirty
  flush,    \* _local_persist_task is under way
  broke,    \* history: the last write of the file failed, and nothing changed since
  writer,   \* per caller: the row it is about to write, or forget
  born,     \* ids given away; a new run has a new one
  writes

vars == <<local, remote, memory, loaded, file, dirty, flush, broke, writer, born, writes>>

Row   == [whole : BOOLEAN, patch : 0..MaxWrite]
Table == [Doc -> Row \cup {NoDoc}]
Empty == [d \in Doc |-> NoDoc]
Rest  == [at |-> "idle"]

TypeOK ==
  /\ local \in BOOLEAN /\ loaded \in BOOLEAN /\ dirty \in BOOLEAN
  /\ flush \in BOOLEAN /\ broke \in BOOLEAN
  /\ remote \in Table /\ memory \in Table
  /\ file.readable \in BOOLEAN /\ file.rows \in Table
  /\ \A w \in Writer : writer[w].at \in {"idle", "save", "forget"}
  /\ born \subseteq Doc /\ writes \in 0..MaxWrite

Init ==
  /\ local \in BOOLEAN /\ loaded = FALSE
  /\ remote = Empty /\ memory = Empty /\ file = [readable |-> TRUE, rows |-> Empty]
  /\ dirty = FALSE /\ flush = FALSE /\ broke = FALSE
  /\ writer = [w \in Writer |-> Rest] /\ born = {} /\ writes = 0

Written == writes < MaxWrite /\ writes' = writes + 1

New(d) == d \notin born /\ born' = born \cup {d} /\ Written

-----------------------------------------------------------------------------
(* The local store.                                                        *)

\* A file that does not parse is warned about, and taken for an empty one.
Readable == IF file.readable THEN file.rows ELSE Empty

\* _ensure_local_store_loaded, at the first call of a process.
Load ==
  /\ local /\ ~loaded /\ loaded' = TRUE /\ memory' = Readable
  /\ UNCHANGED <<local, remote, file, dirty, flush, broke, writer, born, writes>>

\* Mutant: a store that is dirty already has its write coming.
ScheduleOnce ==
  dirty' = TRUE /\ broke' = FALSE /\ flush' = (flush \/ ~dirty)

\* _schedule_local_store_persist_unlocked
Schedule == dirty' = TRUE /\ broke' = FALSE /\ flush' = TRUE

\* save_run, update_run and delete_run_records.
LocalWrite(d) ==
  /\ local /\ loaded
  /\ \/ /\ New(d)
        /\ memory' = [memory EXCEPT ![d] = [whole |-> TRUE, patch |-> writes']]
     \/ /\ memory[d] # NoDoc /\ Written /\ UNCHANGED born
        /\ memory' = [memory EXCEPT ![d].patch = writes']
     \/ /\ memory[d] # NoDoc /\ UNCHANGED <<born, writes>>
        /\ memory' = [memory EXCEPT ![d] = NoDoc]
  /\ Schedule
  /\ UNCHANGED <<local, remote, loaded, file, writer>>

\* _flush_local_store_after_delay; a write that fails may have truncated the file.
Flush ==
  /\ flush /\ flush' = FALSE
  /\ \/ /\ file' = [readable |-> TRUE, rows |-> memory]
        /\ dirty' = FALSE /\ UNCHANGED broke
     \/ /\ broke' = TRUE /\ UNCHANGED dirty
        /\ \/ UNCHANGED file
           \/ file' = [file EXCEPT !.readable = FALSE]
  /\ UNCHANGED <<local, remote, memory, loaded, writer, born, writes>>

-----------------------------------------------------------------------------
(* Firestore.                                                              *)

\* _get_document, and the table where it failed or found nothing.
Found(d) == {memory[d]} \cup (IF remote[d] = NoDoc THEN {} ELSE {remote[d]})

\* set(merge=True) keeps what the row had.
Merged(d, row) ==
  [row EXCEPT !.whole = @ \/ (remote[d] # NoDoc /\ remote[d].whole)]

\* _save_document, which may fail before or after it took effect; then the table.
Save(d, row) ==
  \/ remote' = [remote EXCEPT ![d] = Merged(d, row)] /\ UNCHANGED memory
  \/ /\ memory' = [memory EXCEPT ![d] = row]
     /\ \/ UNCHANGED remote
        \/ remote' = [remote EXCEPT ![d] = Merged(d, row)]

CloudUnchanged == UNCHANGED <<local, loaded, file, dirty, flush, broke>>

Create(w, d) ==
  /\ ~local /\ writer[w] = Rest
  /\ New(d) /\ Save(d, [whole |-> TRUE, patch |-> writes'])
  /\ CloudUnchanged /\ UNCHANGED writer

\* Mutant: update_run saves its patch and relies on the merge.
ReadPatch(w, d) ==
  /\ ~local /\ writer[w] = Rest /\ Written
  /\ \E row \in Found(d) \ {NoDoc} :
       writer' = [writer EXCEPT ![w] = [at |-> "save", doc |-> d,
                                        row |-> [whole |-> FALSE, patch |-> writes']]]
  /\ CloudUnchanged /\ UNCHANGED <<remote, memory, born>>

\* update_run reads the row and patches its copy,
Read(w, d) ==
  /\ ~local /\ writer[w] = Rest /\ Written
  /\ \E row \in Found(d) \ {NoDoc} :
       writer' = [writer EXCEPT ![w] = [at |-> "save", doc |-> d,
                                        row |-> [row EXCEPT !.patch = writes']]]
  /\ CloudUnchanged /\ UNCHANGED <<remote, memory, born>>

\* and writes it whole, whatever was written or deleted since.
Update(w) ==
  /\ writer[w].at = "save" /\ Save(writer[w].doc, writer[w].row)
  /\ writer' = [writer EXCEPT ![w] = Rest]
  /\ CloudUnchanged /\ UNCHANGED <<born, writes>>

\* delete_run_records: the document, whose deletion may fail unnoticed,
Delete(w, d) ==
  /\ ~local /\ writer[w] = Rest
  /\ \/ remote' = [remote EXCEPT ![d] = NoDoc]
     \/ UNCHANGED remote
  /\ writer' = [writer EXCEPT ![w] = [at |-> "forget", doc |-> d]]
  /\ CloudUnchanged /\ UNCHANGED <<memory, born, writes>>

\* and, after queries and deletions of what belongs to it, the table.
Forget(w) ==
  /\ writer[w].at = "forget" /\ memory' = [memory EXCEPT ![writer[w].doc] = NoDoc]
  /\ writer' = [writer EXCEPT ![w] = Rest]
  /\ CloudUnchanged /\ UNCHANGED <<remote, born, writes>>

-----------------------------------------------------------------------------
\* The process ends, in the middle of a write perhaps; nothing is flushed on its way out.
Restart ==
  /\ memory' = Empty /\ loaded' = FALSE /\ dirty' = FALSE /\ flush' = FALSE /\ broke' = FALSE
  /\ writer' = [w \in Writer |-> Rest]
  /\ \/ UNCHANGED file
     \/ flush /\ file' = [file EXCEPT !.readable = FALSE]
  /\ UNCHANGED <<local, remote, born, writes>>

Next ==
  \/ Load \/ Flush \/ Restart
  \/ \E d \in Doc : LocalWrite(d)
  \/ \E w \in Writer :
       \/ Update(w) \/ Forget(w)
       \/ \E d \in Doc : Create(w, d) \/ Read(w, d) \/ Delete(w, d)

Spec == Init /\ [][Next]_vars

-----------------------------------------------------------------------------
\* The local store's file holds what its documents are, or will within 250 ms, or its last
\* write failed; a crash loses no older change.
FileIsRecent == local /\ loaded => Readable = memory \/ flush \/ broke

\* A row that the store has is one that was created whole, however updates, deletions and
\* failures overlapped: a deleted run may come back, but never as a torso.
RowsAreWhole ==
  \A d \in Doc : \A table \in {remote, memory} : table[d] # NoDoc => table[d].whole
=============================================================================
