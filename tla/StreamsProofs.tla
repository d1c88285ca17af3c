--------------------------- MODULE StreamsProofs ---------------------------
(***************************************************************************)
(* Theorems about the store of runs (RunStore), as it is composed with the *)
(* event streams in MCStreams, for any runs, callers and writes.           *)
(***************************************************************************)
EXTENDS MCStreams, TLAPS

WholeRow   == [whole : {TRUE}, patch : 0..MaxWrite]
WholeTable == [Doc -> WholeRow \cup {NoDoc}]

\* What a caller holds between its read and its write.
Held ==
  {Store!Rest} \cup [at : {"save"}, doc : Doc, row : WholeRow] \cup [at : {"forget"}, doc : Doc]

\* Every copy of a row is whole: in the tables, in the file, and in the hands of callers,
\* who will write it whatever happened to the tables meanwhile.  With the local store nobody
\* holds one over a step.
StoreInv ==
  /\ local \in BOOLEAN /\ loaded \in BOOLEAN /\ dirty \in BOOLEAN
  /\ flush \in BOOLEAN /\ broke \in BOOLEAN
  /\ remote \in WholeTable /\ kept \in WholeTable
  /\ file \in [readable : BOOLEAN, rows : WholeTable]
  /\ writer \in [Writer -> Held]
  /\ local => \A w \in Writer : writer[w] = Store!Rest
  /\ born \subseteq Doc /\ writes \in 0..MaxWrite
  /\ Store!FileIsRecent

LEMMA EmptyIsWhole == Store!Empty \in WholeTable
BY DEF Store!Empty, WholeTable

LEMMA InitStore == Store!Init => StoreInv
<1> SUFFICES ASSUME Store!Init  PROVE StoreInv
  OBVIOUS
<1>1. file \in [readable : BOOLEAN, rows : WholeTable]
  BY EmptyIsWhole DEF Store!Init
<1>2. writer \in [Writer -> Held] /\ writes \in 0..MaxWrite
  BY MaxWriteAssumption DEF Store!Init, Held
<1>3. \A w \in Writer : writer[w] = Store!Rest
  BY DEF Store!Init
<1>4. Store!FileIsRecent
  BY DEF Store!Init, Store!FileIsRecent
<1>5. QED  BY <1>1, <1>2, <1>3, <1>4, EmptyIsWhole DEF Store!Init, StoreInv

LEMMA StoreInvIsEnough == StoreInv => RowsAreKept
<1> SUFFICES ASSUME StoreInv  PROVE RowsAreKept
  OBVIOUS
<1>1. WholeTable \subseteq Store!Table
  <2>1. WholeRow \cup {NoDoc} \subseteq Store!Row \cup {NoDoc}
    BY DEF WholeRow, Store!Row
  <2>2. QED  BY <2>1 DEF WholeTable, Store!Table
<1>2. file.readable \in BOOLEAN /\ file.rows \in WholeTable
  BY DEF StoreInv
<1>3. \A w \in Writer : writer[w].at \in {"idle", "save", "forget"}
  BY DEF StoreInv, Held, Store!Rest
<1>4. Store!TypeOK
  BY <1>1, <1>2, <1>3 DEF StoreInv, Store!TypeOK
<1>5. \A d \in Doc : \A table \in {remote, kept} : table[d] # NoDoc => table[d].whole
  BY DEF StoreInv, WholeTable, WholeRow
<1>6. QED  BY <1>4, <1>5 DEF StoreInv, RowsAreKept, Store!RowsAreWhole

-----------------------------------------------------------------------------
(* The steps                                                               *)

LEMMA LoadKeeps == StoreInv /\ Store!Load => StoreInv'
<1> SUFFICES ASSUME StoreInv, Store!Load  PROVE StoreInv'
  OBVIOUS
<1>1. kept' = Store!Readable /\ Store!Readable \in WholeTable
  BY EmptyIsWhole DEF Store!Load, Store!Readable, StoreInv
<1>2. Store!FileIsRecent'
  BY <1>1 DEF Store!Load, Store!FileIsRecent, Store!Readable
<1>3. QED  BY <1>1, <1>2 DEF Store!Load, StoreInv

LEMMA FlushKeeps == StoreInv /\ Store!Flush => StoreInv'
<1> SUFFICES ASSUME StoreInv, Store!Flush  PROVE StoreInv'
  OBVIOUS
<1>1. /\ file' \in [readable : BOOLEAN, rows : WholeTable]
      /\ dirty' \in BOOLEAN /\ broke' \in BOOLEAN
  <2>1. file' \in {file, [readable |-> TRUE, rows |-> kept], [file EXCEPT !.readable = FALSE]}
    BY DEF Store!Flush
  <2>2. [file EXCEPT !.readable = FALSE] \in [readable : BOOLEAN, rows : WholeTable]
    BY DEF StoreInv
  <2>3. [readable |-> TRUE, rows |-> kept] \in [readable : BOOLEAN, rows : WholeTable]
    BY DEF StoreInv
  <2>4. file' \in [readable : BOOLEAN, rows : WholeTable]
    BY <2>1, <2>2, <2>3 DEF StoreInv
  <2>5. dirty' \in BOOLEAN /\ broke' \in BOOLEAN
    BY DEF Store!Flush, StoreInv
  <2>6. QED  BY <2>4, <2>5
<1>2. Store!FileIsRecent'
  BY DEF Store!Flush, Store!FileIsRecent, Store!Readable, StoreInv
<1>3. QED  BY <1>1, <1>2 DEF Store!Flush, StoreInv

LEMMA RestartKeeps == StoreInv /\ Store!Restart => StoreInv'
<1> SUFFICES ASSUME StoreInv, Store!Restart  PROVE StoreInv'
  OBVIOUS
<1>1. file' \in [readable : BOOLEAN, rows : WholeTable]
  BY DEF Store!Restart, StoreInv
<1>2. writer' \in [Writer -> Held]
  BY DEF Store!Restart, Held
<1>3. \A w \in Writer : writer'[w] = Store!Rest
  BY DEF Store!Restart
<1>4. Store!FileIsRecent'
  BY DEF Store!Restart, Store!FileIsRecent
<1>5. QED  BY <1>1, <1>2, <1>3, <1>4, EmptyIsWhole DEF Store!Restart, StoreInv

LEMMA WrittenIsBounded ==
  ASSUME StoreInv, Store!Written
  PROVE  writes' \in 0..MaxWrite
BY MaxWriteAssumption DEF StoreInv, Store!Written

LEMMA LocalWriteKeeps ==
  ASSUME StoreInv, NEW d \in Doc, Store!LocalWrite(d)
  PROVE  StoreInv'
<1>1. kept' \in WholeTable /\ born' \subseteq Doc /\ writes' \in 0..MaxWrite
  <2>1. CASE /\ Store!New(d)
             /\ kept' = [kept EXCEPT ![d] = [whole |-> TRUE, patch |-> writes']]
    <3>1. writes' \in 0..MaxWrite /\ born' \subseteq Doc
      BY <2>1, WrittenIsBounded DEF Store!New, StoreInv
    <3>2. [whole |-> TRUE, patch |-> writes'] \in WholeRow
      BY <3>1 DEF WholeRow
    <3>3. QED  BY <2>1, <3>1, <3>2 DEF StoreInv, WholeTable
  <2>2. CASE /\ kept[d] # NoDoc /\ Store!Written /\ UNCHANGED born
             /\ kept' = [kept EXCEPT ![d].patch = writes']
    <3>1. writes' \in 0..MaxWrite
      BY <2>2, WrittenIsBounded
    <3>2. kept[d] \in WholeRow
      BY <2>2 DEF StoreInv, WholeTable
    <3>3. PICK row \in WholeRow : row = [kept[d] EXCEPT !.patch = writes']
      BY <3>1, <3>2 DEF WholeRow
    <3>4. kept' = [kept EXCEPT ![d] = row]
      BY <2>2, <3>3
    <3>5. QED  BY <2>2, <3>1, <3>4 DEF StoreInv, WholeTable
  <2>3. CASE /\ UNCHANGED <<born, writes>>
             /\ kept' = [kept EXCEPT ![d] = NoDoc]
    BY <2>3 DEF StoreInv, WholeTable
  <2>4. QED  BY <2>1, <2>2, <2>3 DEF Store!LocalWrite
<1>2. flush' = TRUE /\ dirty' = TRUE /\ broke' = FALSE
  BY DEF Store!LocalWrite, Store!Schedule
<1>3. QED  BY <1>1, <1>2 DEF Store!LocalWrite, Store!FileIsRecent, StoreInv

\* A call to Firestore leaves what the local store consists of.
LEMMA CloudStep ==
  ASSUME StoreInv, ~local, Store!CloudUnchanged, remote' \in WholeTable, kept' \in WholeTable,
         writer' \in [Writer -> Held], born' \subseteq Doc, writes' \in 0..MaxWrite
  PROVE  StoreInv'
BY DEF StoreInv, Store!CloudUnchanged, Store!FileIsRecent

\* A save in either order of effect and failure writes a whole row, merged or not.
LEMMA SaveKeeps ==
  ASSUME StoreInv, NEW d \in Doc, NEW row \in WholeRow, Store!Save(d, row)
  PROVE  remote' \in WholeTable /\ kept' \in WholeTable
<1>1. Store!Merged(d, row) \in WholeRow
  BY DEF Store!Merged, WholeRow
<1>2. QED  BY <1>1 DEF Store!Save, StoreInv, WholeTable

LEMMA CreateKeeps ==
  ASSUME StoreInv, NEW w \in Writer, NEW d \in Doc, Store!Create(w, d)
  PROVE  StoreInv'
<1>1. writes' \in 0..MaxWrite /\ born' \subseteq Doc
  BY WrittenIsBounded DEF Store!Create, Store!New, StoreInv
<1>2. PICK row \in WholeRow : row = [whole |-> TRUE, patch |-> writes']
  BY <1>1 DEF WholeRow
<1>3. remote' \in WholeTable /\ kept' \in WholeTable
  BY <1>2, SaveKeeps DEF Store!Create
<1>4. QED  BY <1>1, <1>3, CloudStep DEF Store!Create, StoreInv

LEMMA ReadKeeps ==
  ASSUME StoreInv, NEW w \in Writer, NEW d \in Doc, Store!Read(w, d)
  PROVE  StoreInv'
<1>1. writes' \in 0..MaxWrite
  BY WrittenIsBounded DEF Store!Read
<1>2. PICK row \in Store!Found(d) \ {NoDoc} :
        writer' = [writer EXCEPT ![w] = [at |-> "save", doc |-> d,
                                         row |-> [row EXCEPT !.patch = writes']]]
  BY DEF Store!Read
<1>3. row \in WholeRow
  BY <1>2 DEF Store!Found, StoreInv, WholeTable
<1>4. PICK new \in WholeRow : new = [row EXCEPT !.patch = writes']
  BY <1>1, <1>3 DEF WholeRow
<1>5. [at |-> "save", doc |-> d, row |-> new] \in Held
  BY <1>4 DEF Held
<1>6. writer' \in [Writer -> Held]
  BY <1>2, <1>4, <1>5 DEF StoreInv
<1>7. QED  BY <1>1, <1>6, CloudStep DEF Store!Read, StoreInv

LEMMA UpdateKeeps ==
  ASSUME StoreInv, NEW w \in Writer, Store!Update(w)
  PROVE  StoreInv'
<1>1. ~local /\ writer[w] \in [at : {"save"}, doc : Doc, row : WholeRow]
  BY DEF Store!Update, StoreInv, Held, Store!Rest
<1>2. remote' \in WholeTable /\ kept' \in WholeTable
  BY <1>1, SaveKeeps DEF Store!Update
<1>3. writer' \in [Writer -> Held]
  BY DEF Store!Update, StoreInv, Held
<1>4. QED  BY <1>1, <1>2, <1>3, CloudStep DEF Store!Update, StoreInv

LEMMA DeleteKeeps ==
  ASSUME StoreInv, NEW w \in Writer, NEW d \in Doc, Store!Delete(w, d)
  PROVE  StoreInv'
<1>1. remote' \in WholeTable
  BY DEF Store!Delete, StoreInv, WholeTable
<1>2. writer' \in [Writer -> Held]
  BY DEF Store!Delete, StoreInv, Held
<1>3. QED  BY <1>1, <1>2, CloudStep DEF Store!Delete, StoreInv

LEMMA ForgetKeeps ==
  ASSUME StoreInv, NEW w \in Writer, Store!Forget(w)
  PROVE  StoreInv'
<1>1. ~local
  BY DEF Store!Forget, StoreInv, Store!Rest
<1>2. kept' \in WholeTable
  BY DEF Store!Forget, StoreInv, WholeTable
<1>3. writer' \in [Writer -> Held]
  BY DEF Store!Forget, StoreInv, Held
<1>4. QED  BY <1>1, <1>2, <1>3, CloudStep DEF Store!Forget, StoreInv

LEMMA StoreStep == StoreInv /\ Store!Next => StoreInv'
<1> SUFFICES ASSUME StoreInv, Store!Next  PROVE StoreInv'
  OBVIOUS
<1>1. CASE Store!Load \/ Store!Flush \/ Store!Restart
  BY <1>1, LoadKeeps, FlushKeeps, RestartKeeps
<1>2. CASE \E d \in Doc : Store!LocalWrite(d)
  BY <1>2, LocalWriteKeeps
<1>3. CASE \E w \in Writer :
             \/ Store!Update(w) \/ Store!Forget(w)
             \/ \E d \in Doc : Store!Create(w, d) \/ Store!Read(w, d) \/ Store!Delete(w, d)
  BY <1>3, UpdateKeeps, ForgetKeeps, CreateKeeps, ReadKeeps, DeleteKeeps
<1>4. QED  BY <1>1, <1>2, <1>3 DEF Store!Next

LEMMA StoreStill == StoreInv /\ UNCHANGED storeVars => StoreInv'
BY DEF StoreInv, storeVars, Store!FileIsRecent, Store!Readable

-----------------------------------------------------------------------------
\* What the store of runs acknowledged is in its file or will be within 250 ms unless a write
\* of the file failed, and a row that it has was created whole, however reads, updates,
\* deletions, failures and restarts overlap, for any number of runs, callers and writes.
THEOREM RowsAreAlwaysKept == MCFairSpec => []RowsAreKept
<1>1. MCInit => StoreInv
  BY InitStore DEF MCInit
<1>2. StoreInv /\ [MCNext]_<<focus, streamVars, runtimeVars, storeVars>> => StoreInv'
  BY StoreStep, StoreStill DEF MCNext
<1>3. QED  BY <1>1, <1>2, StoreInvIsEnough, PTL DEF MCFairSpec

=============================================================================
