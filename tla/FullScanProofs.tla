--------------------------- MODULE FullScanProofs ---------------------------
(***************************************************************************)
(* Proofs about the full-disk scan, for any drives, walks, library and     *)
(* number of openings: the type invariant, that a text never misses its    *)
(* row in the first opening, that no file is examined by two workers, that *)
(* a first scan has one row per match, and that it implements ScanReport   *)
(* where only one drive has infected files.                                *)
(***************************************************************************)
EXTENDS FullScan, ListControlProofs, FiniteSetTheorems, TLAPS

\* The actions leave alone what they do not name.
LEMMA WorkerType ==
  ASSUME NEW t \in Workers
  PROVE  Drive(t) \in Drives /\ Opening(t) \in 1 .. MaxOpens
BY DEF Workers, Drive, Opening

\* The entry a worker has reached is a file or a directory that cannot be listed.
LEMMA EntryType ==
  ASSUME NEW t \in Workers, TypeOK, ~AtEnd(t)
  PROVE  Entry(t) \in Files \cup {Denied}
<1>1. Walk[Drive(t)] \in Seq(Files \cup {Denied})
  BY WorkerType, ConstantsAssumption
<1>2. pos[t] \in 1 .. Len(Walk[Drive(t)])
  BY <1>1 DEF TypeOK, AtEnd
<1>. QED
  BY <1>1, <1>2 DEF Entry

LEMMA DigestType == \A f \in Files : Digest[f] \in Digests
BY DEF Digests

LEMMA LoadedType == Loaded \in Seq(Digests)
<1>1. Library \in Seq(Digests)
  BY ConstantsAssumption DEF Digests
<1>2. <<NoText>> \in Seq(Digests)
  BY DEF Digests
<1>. QED
  BY <1>1, <1>2 DEF Loaded

\* Both columns of a row can be replaced.
LEMMA RowColumns ==
  ASSUME NEW row \in Row, NEW f \in Files
  PROVE  /\ [row EXCEPT !["path"] = f] \in Row
         /\ [row EXCEPT !["md5"] = Digest[f]] \in Row
BY DigestType DEF Row

-----------------------------------------------------------------------------
(* The type invariant.                                                      *)

LEMMA InitType == Init => TypeOK
<1> SUFFICES ASSUME Init PROVE TypeOK
  OBVIOUS
<1>1. list \in Seq(Row) /\ sigs \in Seq(Digests)
  BY DEF Init
<1>2. opens \in 0 .. MaxOpens
  BY ConstantsAssumption DEF Init
<1>3. \A t \in Workers : pc[t] \notin Comparing \cup {"box"}
  BY DEF Init, Comparing
<1>4. /\ pc \in [Workers -> Steps] /\ pos \in [Workers -> Nat \ {0}]
      /\ k \in [Workers -> Nat \ {0}] /\ reg \in [Workers -> Nat]
  BY DEF Init, Steps
<1>5. locked \in SUBSET Files /\ nIndex \in Nat /\ disabledBy \in Workers \cup {Nobody}
  BY DEF Init
<1>. QED
  BY <1>1, <1>2, <1>3, <1>4, <1>5 DEF Init, TypeOK

\* What the window answers is a list of rows, and a call that is answered moves
\* its worker on within the report.
LEMMA AnswerType ==
  ASSUME TypeOK, NEW t \in Workers, NEW effect \in Seq(Row),
         pc[t] \in DOMAIN Answered, Answer(t, effect)
  PROVE  TypeOK'
BY DEF Answer, TypeOK, Answered, Steps, Comparing, Entry, AtEnd

LEMMA ReadIndexType ==
  ASSUME TypeOK, NEW t \in Workers, pc[t] \in DOMAIN Reading, ReadIndex(t)
  PROVE  TypeOK'
BY DEF ReadIndex, TypeOK, Reading, Steps, Comparing, Entry, AtEnd, dialogVars

LEMMA GoOnType ==
  ASSUME TypeOK, NEW t \in Workers, GoOn(t),
         UNCHANGED <<alive, libFile, nIndex, sigs, open, opens, list, k, reg>>,
         disabledBy' \in Workers \cup {Nobody}, locked' \in SUBSET Files
  PROVE  TypeOK'
BY DEF GoOn, TypeOK, Steps, Comparing, Entry, AtEnd

\* Destroying the window touches no worker but those it stops.
LEMMA DestroyWindowType ==
  ASSUME TypeOK, DestroyWindow, pc' \in [Workers -> Steps],
         \A t \in Workers : pc'[t] \in Comparing \cup {"box"} => pc'[t] = pc[t]
  PROVE  TypeOK'
<1>1. list' \in Seq(Row) /\ open' \in BOOLEAN
  <2>1. <<>> \in Seq(Row)
    OBVIOUS
  <2>. QED
    BY <2>1 DEF DestroyWindow
<1>2. \A t \in Workers : AtEnd(t)' = AtEnd(t) /\ Entry(t)' = Entry(t)
  BY DEF DestroyWindow, AtEnd, Entry
<1>3. /\ alive' \in BOOLEAN /\ libFile' \in BOOLEAN /\ opens' \in 0 .. MaxOpens
      /\ disabledBy' \in Workers \cup {Nobody} /\ nIndex' \in Nat
      /\ sigs' \in Seq(Digests) /\ locked' \in SUBSET Files
      /\ pos' \in [Workers -> Nat \ {0}] /\ k' \in [Workers -> Nat \ {0}]
      /\ reg' \in [Workers -> Nat]
  BY DEF DestroyWindow, TypeOK
<1>4. \A t \in Workers : pc'[t] \in Comparing \cup {"box"} => ~AtEnd(t)'
  BY <1>2 DEF TypeOK
<1>5. \A t \in Workers : pc'[t] \in Comparing => Entry(t)' \in Files
  BY <1>2 DEF TypeOK
<1>. QED
  BY <1>1, <1>3, <1>4, <1>5 DEF TypeOK

LEMMA NextType == TypeOK /\ [Next]_vars => TypeOK'
<1> SUFFICES ASSUME TypeOK, [Next]_vars
             PROVE  TypeOK'
  OBVIOUS
<1>1. CASE OpenWithoutLibrary
  BY <1>1 DEF OpenWithoutLibrary, TypeOK, dialogVars, workerVars, Entry, AtEnd
<1>2. CASE OpenDialog
  <2>1. sigs' \in Seq(Digests) /\ list' \in Seq(Row)
    BY <1>2, LoadedType DEF OpenDialog, TypeOK
  <2>2. pc' \in [Workers -> Steps]
    BY <1>2 DEF OpenDialog, TypeOK, Steps
  <2>3. \A t \in Workers : pc'[t] \in Comparing \cup {"box"} => pc'[t] = pc[t]
    BY <1>2 DEF OpenDialog, TypeOK, Comparing
  <2>4. opens' \in 0 .. MaxOpens
    BY <1>2, ConstantsAssumption DEF OpenDialog, TypeOK
  <2>. QED
    BY <1>2, <2>1, <2>2, <2>3, <2>4 DEF OpenDialog, TypeOK, Entry, AtEnd
<1>3. ASSUME NEW t \in Workers, Window(t)
      PROVE  TypeOK'
  <2>1. pc[t] \in Comparing => Entry(t) \in Files
    BY DEF TypeOK
  <2>2. CASE AnswerInsert(t)
    <3>1. BlankRow \in Row
      BY DEF BlankRow, Row, Digests
    <3>2. InsertItem(list, reg[t], BlankRow) \in Seq(Row)
      BY <3>1, InsertItemGrows DEF TypeOK
    <3>. QED
      BY <2>2, <3>2, AnswerType DEF AnswerInsert, Answered
  <2>3. CASE AnswerPath(t)
    <3>1. SetItemText(list, reg[t], "path", Entry(t)) \in Seq(Row)
      BY <2>1, <2>3, RowColumns, SetItemTextKeepsType DEF TypeOK, AnswerPath, Comparing
    <3>. QED
      BY <2>3, <3>1, AnswerType DEF AnswerPath, Answered
  <2>4. CASE AnswerMD5(t)
    <3>1. SetItemText(list, reg[t], "md5", Digest[Entry(t)]) \in Seq(Row)
      BY <2>1, <2>4, RowColumns, SetItemTextKeepsType DEF TypeOK, AnswerMD5, Comparing
    <3>. QED
      BY <2>4, <3>1, AnswerType DEF AnswerMD5, Answered
  <2>. QED
    BY <1>3, <2>2, <2>3, <2>4 DEF Window
<1>4. CASE CloseX
  <2>1. pc' \in [Workers -> Steps]
    BY <1>4 DEF CloseX, TypeOK, Steps
  <2>2. \A t \in Workers : pc'[t] \in Comparing \cup {"box"} => pc'[t] = pc[t]
    BY <1>4 DEF CloseX, TypeOK, Comparing
  <2>. QED
    BY <1>4, <2>1, <2>2, DestroyWindowType DEF CloseX
<1>5. CASE CloseEsc
  BY <1>5, DestroyWindowType DEF CloseEsc, TypeOK
<1>6. ASSUME NEW t \in Workers, DismissBox(t)
      PROVE  TypeOK'
  BY <1>6, GoOnType DEF DismissBox, TypeOK
<1>7. ASSUME NEW t \in Workers, Worker(t)
      PROVE  TypeOK'
  <2>1. CASE EndOfWalk(t)
    BY <2>1 DEF EndOfWalk, TypeOK, Steps, Comparing, Entry, AtEnd, dialogVars
  <2>2. CASE ListingFails(t)
    BY <2>2 DEF ListingFails, At, TypeOK, Steps, Comparing, Entry, AtEnd
  <2>3. CASE SkipFile(t)
    BY <2>3, GoOnType, EntryType DEF SkipFile, At, TypeOK, dialogVars
  <2>4. CASE HashFile(t)
    <3>1. Entry(t) \in Files /\ ~AtEnd(t)
      BY <2>4, EntryType DEF HashFile
    <3>2. \A u \in Workers : AtEnd(u)' = AtEnd(u) /\ Entry(u)' = Entry(u)
      BY <2>4 DEF HashFile, AtEnd, Entry
    <3>3. /\ pc' \in [Workers -> Steps] /\ k' \in [Workers -> Nat \ {0}]
          /\ locked' \in SUBSET Files
          /\ \A u \in Workers : u # t => pc'[u] = pc[u]
      BY <2>4, <3>1 DEF HashFile, TypeOK, Steps
    <3>. QED
      BY <2>4, <3>1, <3>2, <3>3 DEF HashFile, TypeOK, dialogVars
  <2>5. CASE NextSignature(t)
    <3>1. \A u \in Workers : AtEnd(u)' = AtEnd(u) /\ Entry(u)' = Entry(u)
      BY <2>5 DEF NextSignature, AtEnd, Entry
    <3>2. k' \in [Workers -> Nat \ {0}]
      BY <2>5 DEF NextSignature, TypeOK
    <3>. QED
      BY <2>5, <3>1, <3>2 DEF NextSignature, TypeOK, dialogVars
  <2>6. CASE NoMoreSignatures(t)
    BY <2>6, GoOnType DEF NoMoreSignatures, TypeOK, dialogVars
  <2>7. CASE SendInsert(t) \/ SendPath(t) \/ SendMD5(t) \/ ReadForIncrement(t)
    BY <2>7, ReadIndexType
       DEF SendInsert, SendPath, SendMD5, ReadForIncrement, At, Reading
  <2>8. CASE WriteIncrement(t)
    BY <2>8 DEF WriteIncrement, At, TypeOK, Steps, Comparing, Entry, AtEnd, dialogVars
  <2>. QED
    BY <1>7, <2>1, <2>2, <2>3, <2>4, <2>5, <2>6, <2>7, <2>8 DEF Worker
<1>8. CASE UNCHANGED vars
  BY <1>8 DEF vars, dialogVars, workerVars, TypeOK, Entry, AtEnd
<1>. QED
  BY <1>1, <1>2, <1>3, <1>4, <1>5, <1>6, <1>7, <1>8 DEF Next, User

\* Every variable keeps its type, and a worker that examines a file stands on one
\* of its drive's files.
THEOREM TypeCorrect == Spec => []TypeOK
BY InitType, NextType, PTL DEF Spec

-----------------------------------------------------------------------------
(* No file is examined by two workers.  ExaminedIsLocked makes it inductive: *)
(* a file that is examined is locked, and only an unlocked file is opened.   *)

\* A step that starts no examination keeps both.
LEMMA NoNewExamination ==
  ASSUME ExaminedIsLocked, ExclusiveFile, locked \subseteq locked',
         \A t \in Workers :
           pc'[t] \in Comparing => pc[t] \in Comparing /\ Entry(t)' = Entry(t)
  PROVE  ExaminedIsLocked' /\ ExclusiveFile'
BY DEF ExaminedIsLocked, ExclusiveFile

LEMMA NextExclusive ==
  TypeOK /\ ExaminedIsLocked /\ ExclusiveFile /\ [Next]_vars
    => ExaminedIsLocked' /\ ExclusiveFile'
<1> SUFFICES ASSUME TypeOK, ExaminedIsLocked, ExclusiveFile, [Next]_vars
             PROVE  ExaminedIsLocked' /\ ExclusiveFile'
  OBVIOUS
<1> USE DEF Entry
<1>1. CASE User
  BY <1>1, NoNewExamination
     DEF User, OpenWithoutLibrary, OpenDialog, CloseX, CloseEsc, DestroyWindow, TypeOK,
         Comparing, workerVars
<1>2. ASSUME NEW t \in Workers, Window(t)
      PROVE  ExaminedIsLocked' /\ ExclusiveFile'
  BY <1>2, NoNewExamination
     DEF Window, AnswerInsert, AnswerPath, AnswerMD5, Answer, TypeOK, Comparing
<1>3. ASSUME NEW t \in Workers, DismissBox(t)
      PROVE  ExaminedIsLocked' /\ ExclusiveFile'
  BY <1>3, NoNewExamination DEF DismissBox, GoOn, TypeOK, Comparing
<1>4. ASSUME NEW t \in Workers, Worker(t)
      PROVE  ExaminedIsLocked' /\ ExclusiveFile'
  <2>1. CASE HashFile(t)
    <3>1. Entry(t) \notin locked /\ Entry(t) \in locked' /\ locked \subseteq locked'
      BY <2>1 DEF HashFile, CanOpen
    <3>2. \A u \in Workers : Entry(u)' = Entry(u) /\ (u # t => pc'[u] = pc[u])
      BY <2>1 DEF HashFile, TypeOK
    <3>3. \A u \in Workers : u # t /\ pc'[u] \in Comparing => Entry(u)' \in locked
      BY <3>2 DEF ExaminedIsLocked
    <3>. QED
      BY <3>1, <3>2, <3>3 DEF ExaminedIsLocked, ExclusiveFile
  <2>2. CASE EndOfWalk(t) \/ ListingFails(t) \/ SkipFile(t) \/ NoMoreSignatures(t)
    BY <2>2, NoNewExamination
       DEF EndOfWalk, ListingFails, SkipFile, NoMoreSignatures, GoOn, TypeOK, Comparing
  <2>3. CASE NextSignature(t) \/ WriteIncrement(t)
    BY <2>3, NoNewExamination DEF NextSignature, WriteIncrement, At, TypeOK, Comparing
  <2>4. CASE SendInsert(t) \/ SendPath(t) \/ SendMD5(t) \/ ReadForIncrement(t)
    BY <2>4, NoNewExamination
       DEF SendInsert, SendPath, SendMD5, ReadForIncrement, ReadIndex, At, TypeOK, Comparing
  <2>. QED
    BY <1>4, <2>1, <2>2, <2>3, <2>4 DEF Worker
<1>5. CASE UNCHANGED vars
  BY <1>5, NoNewExamination DEF vars, workerVars
<1>. QED
  BY <1>1, <1>2, <1>3, <1>4, <1>5 DEF Next

\* Whatever the openings and the drives, two workers never examine the same file
\* at the same time.
THEOREM FilesAreExclusive == Spec => []ExclusiveFile
<1>1. Init => ExaminedIsLocked /\ ExclusiveFile
  BY DEF Init, ExaminedIsLocked, ExclusiveFile, Comparing
<1>. QED
  BY <1>1, TypeCorrect, NextExclusive, PTL DEF Spec

-----------------------------------------------------------------------------
(* In the first opening no text misses its row.  nIndex may lag behind, since *)
(* increments are lost, but it never catches up with the end of the list:    *)
(* each report in progress has its own row there.                            *)

LEMMA NextStarted == TypeOK /\ Started /\ [Next]_vars => Started'
<1> SUFFICES ASSUME TypeOK, Started, [Next]_vars
             PROVE  Started'
  OBVIOUS
<1>1. CASE OpenDialog
  <2>1. opens \in Nat /\ opens' = opens + 1
    BY <1>1 DEF OpenDialog, TypeOK
  <2>2. ASSUME NEW t \in Workers, pc'[t] # "none"
        PROVE  Opening(t) <= opens + 1
    BY <1>1, <2>1, <2>2, WorkerType DEF OpenDialog, Started, TypeOK
  <2>. QED
    BY <2>1, <2>2 DEF Started
<1>2. CASE OpenWithoutLibrary
  BY <1>2 DEF OpenWithoutLibrary, Started, dialogVars, workerVars
<1>3. CASE CloseX \/ CloseEsc
  BY <1>3 DEF CloseX, CloseEsc, MayClose, DestroyWindow, Started, TypeOK, Stopped
<1>4. ASSUME NEW t \in Workers, pc[t] # "none", opens' = opens, open' = open,
             opens = 0 => nIndex' = nIndex,
             \A u \in Workers : u # t => pc'[u] = pc[u]
      PROVE  Started'
  BY <1>4 DEF Started
<1>5. ASSUME NEW t \in Workers, Worker(t) \/ Window(t) \/ DismissBox(t)
      PROVE  Started'
  <2>1. opens # 0
    <3>1. pc[t] # "none"
      BY <1>5 DEF Worker, Window, DismissBox, EndOfWalk, ListingFails, SkipFile, HashFile,
         NextSignature, NoMoreSignatures, SendInsert, SendPath, SendMD5, ReadForIncrement,
         WriteIncrement, AnswerInsert, AnswerPath, AnswerMD5, At
    <3>. QED
      BY <3>1, WorkerType DEF Started, TypeOK
  <2>2. pc[t] # "none"
    BY <1>5 DEF Worker, Window, DismissBox, EndOfWalk, ListingFails, SkipFile, HashFile,
       NextSignature, NoMoreSignatures, SendInsert, SendPath, SendMD5, ReadForIncrement,
       WriteIncrement, AnswerInsert, AnswerPath, AnswerMD5, At
  <2>3. opens' = opens /\ open' = open
    BY <1>5 DEF Worker, Window, DismissBox, EndOfWalk, ListingFails, SkipFile, HashFile,
       NextSignature, NoMoreSignatures, SendInsert, SendPath, SendMD5, ReadForIncrement,
       WriteIncrement, AnswerInsert, AnswerPath, AnswerMD5, Answer, ReadIndex, dialogVars
  <2>4. \A u \in Workers : u # t => pc'[u] = pc[u]
    BY <1>5 DEF Worker, Window, DismissBox, EndOfWalk, ListingFails, SkipFile, HashFile,
       NextSignature, NoMoreSignatures, SendInsert, SendPath, SendMD5, ReadForIncrement,
       WriteIncrement, AnswerInsert, AnswerPath, AnswerMD5, Answer, ReadIndex, GoOn, TypeOK
  <2>. QED
    BY <1>4, <2>1, <2>2, <2>3, <2>4
<1>6. CASE UNCHANGED vars
  BY <1>6 DEF vars, dialogVars, workerVars, Started
<1>. QED
  BY <1>1, <1>2, <1>3, <1>5, <1>6 DEF Next, User

LEMMA InFlightFinite ==
  ASSUME NEW T \in SUBSET Workers
  PROVE  IsFiniteSet(T) /\ Cardinality(T) \in Nat
<1>1. IsFiniteSet(1 .. MaxOpens)
  BY FS_Interval, ConstantsAssumption
<1>2. IsFiniteSet(Workers)
  BY <1>1, FS_Product, ConstantsAssumption DEF Workers
<1>. QED
  BY <1>2, FS_Subset, FS_CardinalityType

\* A step that neither begins nor ends a report nor touches the list keeps the
\* rows ahead.
LEMMA NoReportStep ==
  ASSUME RowsAhead, NEW t \in Workers,
         UNCHANGED <<nIndex, list>>, open' /\ opens' = 1 => open /\ opens = 1,
         InFlight' = InFlight,
         \A u \in Workers : u # t => pc'[u] = pc[u] /\ reg'[u] = reg[u],
         pc'[t] \in {"path", "md5"} => reg'[t] < Len(list),
         pc'[t] = "store" => reg'[t] + Cardinality(InFlight) <= Len(list)
  PROVE  RowsAhead'
<1> SUFFICES ASSUME open', opens' = 1
             PROVE  /\ nIndex + Cardinality(InFlight) <= Len(list)
                    /\ \A u \in Workers : pc'[u] \in {"path", "md5"} => reg'[u] < Len(list)
                    /\ \A u \in Workers :
                         pc'[u] = "store" => reg'[u] + Cardinality(InFlight) <= Len(list)
  BY DEF RowsAhead
<1>. QED
  BY DEF RowsAhead

\* The window's answers: the row of a report appears at the end of the others.
LEMMA AnswersKeepRowsAhead ==
  ASSUME TypeOK, Started, RowsAhead, NEW t \in Workers, Window(t)
  PROVE  RowsAhead'
<1> SUFFICES ASSUME open', opens' = 1
             PROVE  /\ nIndex' + Cardinality(InFlight') <= Len(list')
                    /\ \A u \in Workers : pc'[u] \in {"path", "md5"} => reg'[u] < Len(list')
                    /\ \A u \in Workers :
                         pc'[u] = "store" => reg'[u] + Cardinality(InFlight') <= Len(list')
  BY DEF RowsAhead
<1>1. /\ open /\ opens = 1 /\ nIndex' = nIndex /\ reg' = reg
      /\ Len(list) \in Nat /\ nIndex \in Nat
  <2>1. open' = open /\ opens' = opens /\ nIndex' = nIndex /\ reg' = reg
    BY DEF Window, AnswerInsert, AnswerPath, AnswerMD5, Answer
  <2>2. Len(list) \in Nat /\ nIndex \in Nat
    BY DEF TypeOK
  <2>. QED
    BY <2>1, <2>2
<1>2. Opening(t) = opens
  <2>1. pc[t] # "none"
    BY DEF Window, AnswerInsert, AnswerPath, AnswerMD5
  <2>. QED
    BY <1>1, <2>1, WorkerType DEF Started
<1>3. \A u \in Workers : u # t => pc'[u] = pc[u]
  BY DEF Window, AnswerInsert, AnswerPath, AnswerMD5, Answer, TypeOK
<1>4. /\ nIndex + Cardinality(InFlight) <= Len(list)
      /\ \A u \in Workers : pc[u] \in {"path", "md5"} => reg[u] < Len(list)
      /\ \A u \in Workers : pc[u] = "store" => reg[u] + Cardinality(InFlight) <= Len(list)
  BY <1>1 DEF RowsAhead
<1>5. \A u \in Workers : reg[u] \in Nat
  BY DEF TypeOK
<1>6. IsFiniteSet(InFlight) /\ Cardinality(InFlight) \in Nat
  BY InFlightFinite DEF InFlight
<1>7. CASE AnswerInsert(t)
  <2>1. t \notin InFlight /\ pc'[t] = "row"
    BY <1>7 DEF AnswerInsert, Answer, Answered, InFlight, TypeOK
  <2>2. InFlight' = InFlight \cup {t}
    BY <1>3, <2>1 DEF InFlight
  <2>3. Cardinality(InFlight') = Cardinality(InFlight) + 1
    BY <1>6, <2>1, <2>2, FS_AddElement
  <2>4. BlankRow \in Row
    BY DEF BlankRow, Row, Digests
  <2>5. Len(list') = Len(list) + 1
    BY <1>1, <1>2, <1>7, <2>4, InsertItemGrows DEF AnswerInsert, Answer, TypeOK
  <2>. QED
    BY <1>1, <1>3, <1>4, <1>5, <1>6, <2>1, <2>3, <2>5
<1>8. CASE AnswerPath(t) \/ AnswerMD5(t)
  <2>1. /\ pc[t] \in {"path", "md5"} /\ pc'[t] \in {"text", "inc"}
    <3>1. pc[t] \in {"path", "md5"}
      BY <1>8 DEF AnswerPath, AnswerMD5
    <3>2. pc' = [pc EXCEPT ![t] = Answered[pc[t]]]
      BY <1>8 DEF AnswerPath, AnswerMD5, Answer
    <3>. QED
      BY <3>1, <3>2 DEF Answered, TypeOK
  <2>2. InFlight' = InFlight
    BY <1>3, <2>1 DEF InFlight
  <2>3. Len(list') = Len(list)
    <3>1. ASSUME AnswerPath(t)
          PROVE  Len(list') = Len(list)
      <4>1. Len(SetItemText(list, reg[t], "path", Entry(t))) = Len(list)
        BY SetItemTextKeepsLength DEF TypeOK
      <4>. QED
        BY <3>1, <4>1 DEF AnswerPath, Answer
    <3>2. ASSUME AnswerMD5(t)
          PROVE  Len(list') = Len(list)
      <4>1. Len(SetItemText(list, reg[t], "md5", Digest[Entry(t)])) = Len(list)
        BY SetItemTextKeepsLength DEF TypeOK
      <4>. QED
        BY <3>2, <4>1 DEF AnswerMD5, Answer
    <3>. QED
      BY <1>8, <3>1, <3>2
  <2>. QED
    BY <1>1, <1>3, <1>4, <2>1, <2>2, <2>3
<1>. QED
  BY <1>7, <1>8 DEF Window

LEMMA WorkersKeepRowsAhead ==
  ASSUME TypeOK, Started, RowsAhead, NEW t \in Workers, Worker(t)
  PROVE  RowsAhead'
<1>1. opens' = opens /\ open' = open /\ list' = list
  BY DEF Worker, EndOfWalk, ListingFails, SkipFile, HashFile, NextSignature,
     NoMoreSignatures, SendInsert, SendPath, SendMD5, ReadForIncrement, WriteIncrement,
     ReadIndex, dialogVars
<1>2. \A u \in Workers : u # t => pc'[u] = pc[u] /\ reg'[u] = reg[u]
  BY DEF Worker, EndOfWalk, ListingFails, SkipFile, HashFile, NextSignature,
     NoMoreSignatures, SendInsert, SendPath, SendMD5, ReadForIncrement, WriteIncrement,
     ReadIndex, GoOn, TypeOK
<1>3. IsFiniteSet(InFlight) /\ Cardinality(InFlight) \in Nat
  BY InFlightFinite DEF InFlight
<1>4. Len(list) \in Nat /\ nIndex \in Nat /\ \A u \in Workers : reg[u] \in Nat
  BY DEF TypeOK
<1>5. CASE \/ EndOfWalk(t) \/ ListingFails(t) \/ SkipFile(t) \/ HashFile(t)
           \/ NextSignature(t) \/ NoMoreSignatures(t) \/ SendInsert(t)
  <2>1. /\ pc[t] \in {"walk", "match"} /\ nIndex' = nIndex
        /\ pc'[t] \in {"done", "box", "walk", "match", "insert"}
    BY <1>5 DEF EndOfWalk, ListingFails, SkipFile, HashFile, NextSignature,
       NoMoreSignatures, SendInsert, ReadIndex, Reading, GoOn, At, TypeOK
  <2>2. InFlight' = InFlight
    BY <1>2, <2>1 DEF InFlight
  <2>. QED
    BY <1>1, <1>2, <2>1, <2>2, NoReportStep
<1>6. CASE SendPath(t) \/ SendMD5(t) \/ ReadForIncrement(t)
  <2>1. /\ pc[t] \in {"row", "text", "inc"} /\ pc'[t] \in {"path", "md5", "store"}
        /\ nIndex' = nIndex /\ reg'[t] = nIndex
    BY <1>6 DEF SendPath, SendMD5, ReadForIncrement, ReadIndex, Reading, At, TypeOK
  <2>2. t \in InFlight /\ InFlight' = InFlight
    BY <1>2, <2>1 DEF InFlight
  <2>3. Cardinality(InFlight) >= 1
    BY <1>3, <2>2, FS_EmptySet
  <2>. QED
    BY <1>1, <1>2, <1>3, <1>4, <2>1, <2>2, <2>3 DEF RowsAhead
<1>7. CASE WriteIncrement(t)
  <2>1. pc[t] = "store" /\ pc'[t] = "match" /\ nIndex' = reg[t] + 1 /\ reg' = reg
    BY <1>7 DEF WriteIncrement, At, TypeOK
  <2>2. t \in InFlight /\ InFlight' = InFlight \ {t}
    BY <1>2, <2>1 DEF InFlight
  <2>3. Cardinality(InFlight') = Cardinality(InFlight) - 1
    BY <1>3, <2>2, FS_RemoveElement
  <2>. QED
    <3> SUFFICES ASSUME open, opens = 1
                 PROVE  /\ nIndex' + Cardinality(InFlight') <= Len(list)
                        /\ \A u \in Workers : pc'[u] \in {"path", "md5"} => reg'[u] < Len(list)
                        /\ \A u \in Workers :
                             pc'[u] = "store" => reg'[u] + Cardinality(InFlight') <= Len(list)
      BY <1>1 DEF RowsAhead
    <3>1. nIndex' + Cardinality(InFlight') <= Len(list)
      BY <1>3, <1>4, <2>1, <2>3 DEF RowsAhead
    <3>2. \A u \in Workers : pc'[u] \in {"path", "md5"} => reg'[u] < Len(list)
      BY <1>2, <2>1 DEF RowsAhead
    <3>3. \A u \in Workers :
            pc'[u] = "store" => reg'[u] + Cardinality(InFlight') <= Len(list)
      BY <1>2, <1>3, <1>4, <2>1, <2>3 DEF RowsAhead
    <3>. QED
      BY <3>1, <3>2, <3>3
<1>. QED
  BY <1>5, <1>6, <1>7 DEF Worker

LEMMA NextRowsAhead == TypeOK /\ Started /\ RowsAhead /\ [Next]_vars => RowsAhead'
<1> SUFFICES ASSUME TypeOK, Started, RowsAhead, [Next]_vars
             PROVE  RowsAhead'
  OBVIOUS
<1>1. CASE OpenDialog
  <2>1. CASE opens = 0
    <3>1. \A t \in Workers : pc'[t] \in {"none", "walk"}
      BY <1>1, <2>1, WorkerType DEF OpenDialog, Started, TypeOK
    <3>2. InFlight' = {}
      BY <3>1 DEF InFlight
    <3>3. nIndex' = 0 /\ Len(list') = 0
      BY <1>1, <2>1 DEF OpenDialog, Started
    <3>. QED
      BY <3>1, <3>2, <3>3, FS_EmptySet DEF RowsAhead
  <2>2. CASE opens # 0
    BY <1>1, <2>2 DEF OpenDialog, RowsAhead, TypeOK
  <2>. QED
    BY <2>1, <2>2
<1>2. CASE OpenWithoutLibrary
  <2>1. InFlight' = InFlight
    BY <1>2 DEF OpenWithoutLibrary, workerVars, InFlight
  <2>. QED
    BY <1>2, <2>1 DEF OpenWithoutLibrary, dialogVars, workerVars, RowsAhead
<1>3. CASE CloseX \/ CloseEsc
  BY <1>3 DEF CloseX, CloseEsc, DestroyWindow, RowsAhead
<1>4. ASSUME NEW t \in Workers, DismissBox(t)
      PROVE  RowsAhead'
  <2>1. /\ pc[t] = "box" /\ pc'[t] = "walk"
        /\ \A u \in Workers : u # t => pc'[u] = pc[u]
    BY <1>4 DEF DismissBox, At, GoOn, TypeOK
  <2>2. InFlight' = InFlight
    BY <2>1 DEF InFlight
  <2>. QED
    BY <1>4, <2>1, <2>2, NoReportStep DEF DismissBox
<1>5. CASE UNCHANGED vars
  <2>1. InFlight' = InFlight
    BY <1>5 DEF vars, workerVars, InFlight
  <2>. QED
    BY <1>5, <2>1 DEF vars, dialogVars, workerVars, RowsAhead
<1>. QED
  BY <1>1, <1>2, <1>3, <1>4, <1>5, WorkersKeepRowsAhead, AnswersKeepRowsAhead
     DEF Next, User

\* Rows stay ahead of nIndex throughout the first opening.
THEOREM RowsStayAhead == Spec => [](Started /\ RowsAhead)
<1>1. Init => Started /\ RowsAhead
  BY DEF Init, Started, RowsAhead
<1>. QED
  BY <1>1, TypeCorrect, NextStarted, NextRowsAhead, PTL DEF Spec

\* However the workers interleave and whatever increments are lost, a text of the
\* first opening is always written to a row that exists.
THEOREM TextsHitRows == Spec => []RowExists
<1>1. TypeOK /\ RowsAhead => RowExists
  BY DEF TypeOK, RowsAhead, RowExists, HasRow
<1>. QED
  BY <1>1, TypeCorrect, RowsStayAhead, PTL

-----------------------------------------------------------------------------
(* What the workers have done so far, in every opening.                     *)

\* The steps of a report.
Matched == {"insert", "row", "path", "text", "md5", "inc", "store"}

\* Worker t has passed file f of its drive.
Walked(t, f) == \E i \in DOMAIN Walk[Drive(t)] : i < pos[t] /\ Walk[Drive(t)][i] = f

\* What is open was met on a drive and can be read.
OpenedFromWalk ==
  \A f \in locked :
    f \notin Unreadable /\ \E d \in Drives : \E i \in DOMAIN Walk[d] : Walk[d][i] = f

\* What a worker has passed it has opened, or another worker has.
PassedIsLocked ==
  \A t \in Workers : \A f \in Files \ Unreadable : Walked(t, f) => f \in locked

\* Where a worker is, and why it is there.
StepJustified ==
  \A t \in Workers :
    /\ pc[t] = "done" => AtEnd(t)
    /\ pc[t] = "box" => Entry(t) = Denied
    /\ pc[t] \in Comparing => Entry(t) \notin TooLarge
    /\ pc[t] \in Matched => k[t] \in DOMAIN sigs /\ sigs[k[t]] = Digest[Entry(t)]

\* The library is loaded once by the first opening, which finds nothing open.
LoadedOnce ==
  /\ opens = 0 => sigs = <<>> /\ locked = {}
  /\ opens = 1 => sigs = Loaded

Bookkeeping == OpenedFromWalk /\ PassedIsLocked /\ StepJustified /\ LoadedOnce

\* A step of worker t keeps the books if it does so for t.
LEMMA StepKeepsBooks ==
  ASSUME Bookkeeping, NEW t \in Workers, UNCHANGED <<sigs, opens>>,
         opens = 0 => locked' = locked,
         locked \subseteq locked', OpenedFromWalk',
         \A u \in Workers : u # t => pc'[u] = pc[u] /\ pos'[u] = pos[u] /\ k'[u] = k[u],
         \A f \in Files \ Unreadable : Walked(t, f)' => Walked(t, f) \/ f \in locked',
         pc'[t] = "done" => AtEnd(t)',
         pc'[t] = "box" => Entry(t)' = Denied,
         pc'[t] \in Comparing => Entry(t)' \notin TooLarge,
         pc'[t] \in Matched => k'[t] \in DOMAIN sigs /\ sigs[k'[t]] = Digest[Entry(t)']
  PROVE  Bookkeeping'
<1>1. \A u \in Workers : pos'[u] = pos[u] =>
        /\ Entry(u)' = Entry(u) /\ AtEnd(u)' = AtEnd(u)
        /\ \A f \in Files : Walked(u, f)' = Walked(u, f)
  BY DEF Entry, AtEnd, Walked
<1>2. PassedIsLocked'
  <2> SUFFICES ASSUME NEW u \in Workers, NEW f \in Files \ Unreadable, Walked(u, f)'
               PROVE  f \in locked'
    BY DEF PassedIsLocked
  <2>1. Walked(u, f) \/ f \in locked'
    BY <1>1
  <2>. QED
    BY <2>1 DEF Bookkeeping, PassedIsLocked
<1>3. StepJustified'
  <2> SUFFICES ASSUME NEW u \in Workers
               PROVE  /\ pc'[u] = "done" => AtEnd(u)'
                      /\ pc'[u] = "box" => Entry(u)' = Denied
                      /\ pc'[u] \in Comparing => Entry(u)' \notin TooLarge
                      /\ pc'[u] \in Matched => /\ k'[u] \in DOMAIN sigs'
                                               /\ sigs'[k'[u]] = Digest[Entry(u)']
    BY DEF StepJustified
  <2>1. CASE u = t
    BY <2>1
  <2>2. CASE u # t
    BY <2>2, <1>1 DEF Bookkeeping, StepJustified
  <2>. QED
    BY <2>1, <2>2
<1>4. LoadedOnce'
  BY DEF Bookkeeping, LoadedOnce, Loaded
<1>. QED
  BY <1>2, <1>3, <1>4 DEF Bookkeeping

\* The library grows at its end only.
LEMMA LibraryGrows ==
  ASSUME NEW s, s \in DOMAIN sigs, TypeOK
  PROVE  s \in DOMAIN (sigs \o Loaded) /\ (sigs \o Loaded)[s] = sigs[s]
BY LoadedType DEF TypeOK

\* A user step starts workers or ends them, and may load the library again.
LEMMA UserKeepsBooks ==
  ASSUME TypeOK, Started, Bookkeeping, User
  PROVE  Bookkeeping'
<1>1. UNCHANGED <<locked, pos, k>>
  BY DEF User, OpenWithoutLibrary, OpenDialog, CloseX, CloseEsc, DestroyWindow, workerVars
<1>2. \A t \in Workers : /\ pc'[t] \in Comparing \cup Matched \cup {"done", "box"}
                              => pc'[t] = pc[t]
  BY DEF User, OpenWithoutLibrary, OpenDialog, CloseX, CloseEsc, DestroyWindow, workerVars,
         TypeOK, Comparing, Matched
<1>3. /\ \A s \in DOMAIN sigs : s \in DOMAIN sigs' /\ sigs'[s] = sigs[s]
      /\ LoadedOnce'
  <2>1. CASE OpenDialog
    <3>1. sigs' = sigs \o Loaded /\ opens' = opens + 1 /\ opens \in Nat
      BY <2>1 DEF OpenDialog, TypeOK
    <3>2. opens = 0 => sigs' = Loaded
      BY <3>1, LoadedType DEF Bookkeeping, LoadedOnce
    <3>3. LoadedOnce'
      BY <3>1, <3>2 DEF LoadedOnce, Loaded
    <3>. QED
      BY <3>1, <3>3, LibraryGrows
  <2>2. CASE OpenWithoutLibrary \/ CloseX \/ CloseEsc
    <3>1. UNCHANGED <<sigs, opens>>
      BY <2>2 DEF OpenWithoutLibrary, CloseX, CloseEsc, DestroyWindow, dialogVars
    <3>. QED
      BY <1>1, <3>1 DEF Bookkeeping, LoadedOnce, Loaded
  <2>. QED
    BY <2>1, <2>2 DEF User
<1>4. OpenedFromWalk' /\ PassedIsLocked'
  BY <1>1 DEF Bookkeeping, OpenedFromWalk, PassedIsLocked, Walked
<1>5. StepJustified'
  <2>1. \A t \in Workers : Entry(t)' = Entry(t) /\ AtEnd(t)' = AtEnd(t)
    BY <1>1 DEF Entry, AtEnd
  <2> SUFFICES ASSUME NEW u \in Workers
               PROVE  /\ pc'[u] = "done" => AtEnd(u)
                      /\ pc'[u] = "box" => Entry(u) = Denied
                      /\ pc'[u] \in Comparing => Entry(u) \notin TooLarge
                      /\ pc'[u] \in Matched => /\ k[u] \in DOMAIN sigs'
                                               /\ sigs'[k[u]] = Digest[Entry(u)]
    BY <1>1, <2>1 DEF StepJustified
  <2>. QED
    BY <1>2, <1>3 DEF Bookkeeping, StepJustified
<1>. QED
  BY <1>3, <1>4, <1>5 DEF Bookkeeping

\* A step to the next entry: the entry that is left behind is open, if it can be read.
LEMMA GoOnKeepsBooks ==
  ASSUME TypeOK, Bookkeeping, NEW t \in Workers, GoOn(t), UNCHANGED <<sigs, opens, k>>,
         opens # 0, ~AtEnd(t), locked \subseteq locked', OpenedFromWalk',
         Entry(t) \in Files \ Unreadable => Entry(t) \in locked'
  PROVE  Bookkeeping'
<1>1. pc'[t] = "walk" /\ pos'[t] = pos[t] + 1 /\ pos[t] \in Nat
  BY DEF GoOn, TypeOK
<1>2. \A u \in Workers : u # t => pc'[u] = pc[u] /\ pos'[u] = pos[u] /\ k'[u] = k[u]
  BY DEF GoOn, TypeOK
<1>3. ASSUME NEW f \in Files \ Unreadable, Walked(t, f)'
      PROVE  Walked(t, f) \/ f \in locked'
  <2>1. PICK i \in DOMAIN Walk[Drive(t)] : i < pos[t] + 1 /\ Walk[Drive(t)][i] = f
    BY <1>1, <1>3 DEF Walked
  <2>2. Walk[Drive(t)] \in Seq(Files \cup {Denied})
    BY WorkerType, ConstantsAssumption
  <2>3. i < pos[t] \/ i = pos[t]
    BY <1>1, <2>1, <2>2
  <2>. QED
    BY <2>1, <2>3 DEF Walked, Entry
<1>4. pc'[t] \notin Comparing \cup Matched \cup {"done", "box"}
  BY <1>1 DEF Comparing, Matched
<1>. QED
  BY <1>2, <1>3, <1>4, StepKeepsBooks

\* A worker acts only once the dialog was opened.
LEMMA WorkerStarted ==
  ASSUME TypeOK, Started, NEW t \in Workers, pc[t] # "none"
  PROVE  opens # 0 /\ (opens = 1 => Opening(t) = 1)
BY WorkerType DEF Started, TypeOK

LEMMA NextBookkeeping ==
  TypeOK /\ Started /\ ExaminedIsLocked /\ Bookkeeping /\ [Next]_vars => Bookkeeping'
<1> SUFFICES ASSUME TypeOK, Started, ExaminedIsLocked, Bookkeeping, [Next]_vars
             PROVE  Bookkeeping'
  OBVIOUS
<1>a. locked' = locked => OpenedFromWalk'
  BY DEF Bookkeeping, OpenedFromWalk
<1>b. \A t \in Workers : /\ pc'[t] \in Matched => pc'[t] \in Comparing
                         /\ pc[t] \in Matched => pc[t] \in Comparing
  BY DEF Matched, Comparing
<1>c. \A t \in Workers : pos' = pos => /\ Entry(t)' = Entry(t) /\ AtEnd(t)' = AtEnd(t)
                                       /\ \A f \in Files : Walked(t, f)' = Walked(t, f)
  BY DEF Entry, AtEnd, Walked
<1>1. CASE User
  BY <1>1, UserKeepsBooks
<1>2. ASSUME NEW t \in Workers, ~AtEnd(t), Entry(t) # Denied, locked' = locked \cup {Entry(t)},
             CanOpen(Entry(t))
      PROVE  OpenedFromWalk'
  <2>1. pos[t] \in DOMAIN Walk[Drive(t)] /\ Drive(t) \in Drives
    BY <1>2, WorkerType, ConstantsAssumption DEF AtEnd, TypeOK
  <2>. QED
    BY <1>2, <2>1 DEF Bookkeeping, OpenedFromWalk, CanOpen, Entry
<1>3. ASSUME NEW t \in Workers, SkipFile(t)
      PROVE  Bookkeeping'
  <2>1. /\ ~AtEnd(t) /\ Entry(t) # Denied /\ opens # 0 /\ GoOn(t)
        /\ UNCHANGED <<sigs, opens, k>>
    BY <1>3, WorkerStarted DEF SkipFile, At, dialogVars
  <2>2. OpenedFromWalk' /\ locked \subseteq locked'
    BY <1>3, <1>a, <1>2 DEF SkipFile
  <2>3. Entry(t) \notin Unreadable => Entry(t) \in locked'
    BY <1>3 DEF SkipFile, CanOpen
  <2>. QED
    BY <2>1, <2>2, <2>3, GoOnKeepsBooks
<1>4. ASSUME NEW t \in Workers, HashFile(t)
      PROVE  Bookkeeping'
  <2>1. /\ ~AtEnd(t) /\ Entry(t) # Denied /\ opens # 0 /\ Entry(t) \notin TooLarge
        /\ UNCHANGED <<sigs, opens, pos>> /\ locked \subseteq locked' /\ pc'[t] = "match"
    BY <1>4, WorkerStarted DEF HashFile, At, dialogVars, TypeOK
  <2>2. OpenedFromWalk'
    BY <1>4, <1>2 DEF HashFile
  <2>3. \A u \in Workers : u # t => pc'[u] = pc[u] /\ pos'[u] = pos[u] /\ k'[u] = k[u]
    BY <1>4 DEF HashFile, TypeOK
  <2>4. pc'[t] \notin Matched
    BY <2>1 DEF Matched
  <2>. QED
    BY <1>c, <2>1, <2>2, <2>3, <2>4, StepKeepsBooks
<1>5. ASSUME NEW t \in Workers, NoMoreSignatures(t)
      PROVE  Bookkeeping'
  <2>1. /\ pc[t] = "match" /\ GoOn(t) /\ UNCHANGED <<sigs, opens, k, locked>>
    BY <1>5 DEF NoMoreSignatures, At, dialogVars
  <2>2. ~AtEnd(t) /\ Entry(t) \in locked /\ opens # 0
    BY <2>1, WorkerStarted DEF TypeOK, ExaminedIsLocked, Comparing
  <2>. QED
    BY <1>a, <2>1, <2>2, GoOnKeepsBooks
<1>6. ASSUME NEW t \in Workers, DismissBox(t)
      PROVE  Bookkeeping'
  <2>1. /\ pc[t] = "box" /\ GoOn(t) /\ UNCHANGED <<sigs, opens, k, locked>>
    BY <1>6 DEF DismissBox, At
  <2>2. ~AtEnd(t) /\ opens # 0 /\ Entry(t) = Denied
    BY <2>1, WorkerStarted DEF TypeOK, Bookkeeping, StepJustified
  <2>. QED
    BY <1>a, <2>1, <2>2, ConstantsAssumption, GoOnKeepsBooks
<1>7. ASSUME NEW t \in Workers, EndOfWalk(t) \/ ListingFails(t)
      PROVE  Bookkeeping'
  <2>1. /\ UNCHANGED <<sigs, opens, locked, pos, k>>
        /\ (pc'[t] = "done" /\ AtEnd(t)) \/ (pc'[t] = "box" /\ Entry(t) = Denied)
    <3>1. ASSUME EndOfWalk(t)
          PROVE  UNCHANGED <<sigs, opens, locked, pos, k>> /\ pc'[t] = "done" /\ AtEnd(t)
      BY <3>1 DEF EndOfWalk, dialogVars, TypeOK
    <3>2. ASSUME ListingFails(t)
          PROVE  /\ UNCHANGED <<sigs, opens, locked, pos, k>>
                 /\ pc'[t] = "box" /\ Entry(t) = Denied
      BY <3>2 DEF ListingFails, TypeOK
    <3>. QED
      BY <1>7, <3>1, <3>2
  <2>2. \A u \in Workers : u # t => pc'[u] = pc[u] /\ pos'[u] = pos[u] /\ k'[u] = k[u]
    BY <1>7 DEF EndOfWalk, ListingFails, TypeOK
  <2>3. pc'[t] \notin Comparing
    BY <2>1 DEF Comparing
  <2>. QED
    BY <1>a, <1>b, <1>c, <2>1, <2>2, <2>3, StepKeepsBooks
<1>8. ASSUME NEW t \in Workers, NextSignature(t) \/ WriteIncrement(t)
      PROVE  Bookkeeping'
  <2>1. /\ UNCHANGED <<sigs, opens, locked, pos>>
        /\ pc[t] \in Comparing /\ pc'[t] = "match"
    BY <1>8 DEF NextSignature, WriteIncrement, At, dialogVars, TypeOK, Comparing
  <2>2. \A u \in Workers : u # t => pc'[u] = pc[u] /\ pos'[u] = pos[u] /\ k'[u] = k[u]
    BY <1>8 DEF NextSignature, WriteIncrement, TypeOK
  <2>3. Entry(t) \notin TooLarge /\ pc'[t] \notin Matched
    BY <2>1 DEF Bookkeeping, StepJustified, Matched
  <2>. QED
    BY <1>a, <1>c, <2>1, <2>2, <2>3, StepKeepsBooks
<1>9. ASSUME NEW t \in Workers, SendInsert(t)
      PROVE  Bookkeeping'
  <2>1. /\ UNCHANGED <<sigs, opens, locked, pos, k>>
        /\ pc[t] \in Comparing /\ pc'[t] = "insert"
        /\ k[t] \in DOMAIN sigs /\ sigs[k[t]] = Digest[Entry(t)]
    BY <1>9 DEF SendInsert, ReadIndex, Reading, At, dialogVars, TypeOK, Comparing
  <2>2. \A u \in Workers : u # t => pc'[u] = pc[u] /\ pos'[u] = pos[u] /\ k'[u] = k[u]
    BY <1>9 DEF SendInsert, ReadIndex, TypeOK
  <2>3. Entry(t) \notin TooLarge
    BY <2>1 DEF Bookkeeping, StepJustified
  <2>. QED
    BY <1>a, <1>c, <2>1, <2>2, <2>3, StepKeepsBooks
<1>10. ASSUME NEW t \in Workers,
              SendPath(t) \/ SendMD5(t) \/ ReadForIncrement(t) \/ Window(t)
       PROVE  Bookkeeping'
  <2>1. /\ UNCHANGED <<sigs, opens, locked, pos, k>>
    BY <1>10 DEF SendPath, SendMD5, ReadForIncrement, ReadIndex, Window, AnswerInsert,
                 AnswerPath, AnswerMD5, Answer, dialogVars
  <2>2. pc[t] \in Matched /\ pc'[t] \in Matched
    <3>1. CASE Window(t)
      <4>1. pc[t] \in {"insert", "path", "md5"} /\ pc' = [pc EXCEPT ![t] = Answered[pc[t]]]
        BY <3>1 DEF Window, AnswerInsert, AnswerPath, AnswerMD5, Answer
      <4>. QED
        BY <4>1 DEF Answered, TypeOK, Matched
    <3>2. CASE SendPath(t) \/ SendMD5(t) \/ ReadForIncrement(t)
      BY <3>2 DEF SendPath, SendMD5, ReadForIncrement, ReadIndex, At, Reading, TypeOK, Matched
    <3>. QED
      BY <1>10, <3>1, <3>2
  <2>3. \A u \in Workers : u # t => pc'[u] = pc[u] /\ pos'[u] = pos[u] /\ k'[u] = k[u]
    BY <1>10 DEF SendPath, SendMD5, ReadForIncrement, ReadIndex, Window, AnswerInsert,
                 AnswerPath, AnswerMD5, Answer, TypeOK
  <2>4. /\ Entry(t) \notin TooLarge /\ k[t] \in DOMAIN sigs /\ sigs[k[t]] = Digest[Entry(t)]
        /\ pc'[t] \notin {"done", "box"}
    BY <1>b, <2>2 DEF Bookkeeping, StepJustified, Matched
  <2>. QED
    BY <1>a, <1>c, <2>1, <2>3, <2>4, StepKeepsBooks
<1>11. CASE UNCHANGED vars
  BY <1>11, <1>a, <1>c
     DEF vars, dialogVars, workerVars, Bookkeeping, PassedIsLocked, StepJustified, LoadedOnce,
         Loaded
<1>. QED
  BY <1>1, <1>3, <1>4, <1>5, <1>6, <1>7, <1>8, <1>9, <1>10, <1>11 DEF Next, Worker

LEMMA InitBookkeeping == Init => Bookkeeping
<1> SUFFICES ASSUME Init PROVE Bookkeeping
  OBVIOUS
<1>1. \A t \in Workers : pos[t] = 1 /\ pc[t] = "none"
  BY DEF Init
<1>2. \A t \in Workers : \A f \in Files : ~Walked(t, f)
  <2> SUFFICES ASSUME NEW t \in Workers, NEW i \in DOMAIN Walk[Drive(t)], i < pos[t]
               PROVE  FALSE
    BY DEF Walked
  <2>1. Walk[Drive(t)] \in Seq(Files \cup {Denied})
    BY WorkerType, ConstantsAssumption
  <2>. QED
    BY <1>1, <2>1
<1>3. StepJustified
  BY <1>1 DEF StepJustified, Comparing, Matched
<1>. QED
  BY <1>2, <1>3 DEF Init, Bookkeeping, OpenedFromWalk, PassedIsLocked, LoadedOnce

-----------------------------------------------------------------------------
(* However the reports interleave, a match has one row in the first opening. *)

\* The matches, a file with the number of a signature, that have been given a row.
Reported ==
  {m \in Files \X DOMAIN sigs :
     /\ sigs[m[2]] = Digest[m[1]]
     /\ m[1] \in locked \ TooLarge
     /\ \A t \in Workers : pc[t] \in Comparing /\ Entry(t) = m[1] =>
          m[2] < k[t] \/ (m[2] = k[t] /\ t \in InFlight)}

\* What makes OneRowPerMatch inductive: nothing is said of which rows the matches have.
RowsCounted ==
  open /\ opens = 1 => IsFiniteSet(Reported) /\ Len(list) = Cardinality(Reported)

\* Worker t takes its part of Reported with it, and the others keep theirs.
LEMMA ReportedStep ==
  ASSUME NEW t \in Workers, UNCHANGED <<sigs, pos>>,
         \A u \in Workers : u # t => pc'[u] = pc[u] /\ k'[u] = k[u],
         NEW m \in Files \X DOMAIN sigs,
         m[1] \in locked' \ TooLarge <=> m[1] \in locked \ TooLarge,
         Entry(t) = m[1] =>
           ((pc'[t] \in Comparing => m[2] < k'[t] \/ (m[2] = k'[t] /\ t \in InFlight'))
             <=> (pc[t] \in Comparing => m[2] < k[t] \/ (m[2] = k[t] /\ t \in InFlight)))
  PROVE  m \in Reported' <=> m \in Reported
<1>1. \A u \in Workers : Entry(u)' = Entry(u)
  BY DEF Entry
<1>2. \A u \in Workers : u # t => (u \in InFlight' <=> u \in InFlight)
  BY DEF InFlight
<1> DEFINE Passed(u) == pc[u] \in Comparing /\ Entry(u) = m[1] =>
                          m[2] < k[u] \/ (m[2] = k[u] /\ u \in InFlight)
           PassedNow(u) == pc'[u] \in Comparing /\ Entry(u) = m[1] =>
                             m[2] < k'[u] \/ (m[2] = k'[u] /\ u \in InFlight')
<1>3. \A u \in Workers : PassedNow(u) <=> Passed(u)
  BY <1>2
<1>4. m \in Reported <=> /\ sigs[m[2]] = Digest[m[1]] /\ m[1] \in locked \ TooLarge
                         /\ \A u \in Workers : Passed(u)
  BY DEF Reported
<1>5. m \in Reported' <=> /\ sigs[m[2]] = Digest[m[1]] /\ m[1] \in locked' \ TooLarge
                          /\ \A u \in Workers : PassedNow(u)
  BY <1>1 DEF Reported
<1> HIDE DEF Passed, PassedNow
<1>. QED
  BY <1>3, <1>4, <1>5

\* A step that gives no row.
LEMMA NoRowStep ==
  ASSUME RowsCounted, Reported' = Reported, Len(list') = Len(list),
         open' /\ opens' = 1 => open /\ opens = 1
  PROVE  RowsCounted'
BY DEF RowsCounted

\* A step of worker t to the entry behind the one it has compared, or over one it
\* cannot examine.
LEMMA GoOnReported ==
  ASSUME TypeOK, Bookkeeping, NEW t \in Workers, GoOn(t), UNCHANGED <<sigs, k>>,
         locked \subseteq locked', \A f \in locked' : f \in locked \/ f \in TooLarge,
         pc[t] \in Comparing => pc[t] = "match" /\ k[t] > Len(sigs)
  PROVE  Reported' = Reported
<1>1. pc'[t] = "walk" /\ "walk" \notin Comparing
  BY DEF GoOn, TypeOK, Comparing
<1>2. \A u \in Workers : u # t => pc'[u] = pc[u] /\ pos'[u] = pos[u] /\ k'[u] = k[u]
  BY DEF GoOn, TypeOK
<1>3. \A u \in Workers : u # t =>
        Entry(u)' = Entry(u) /\ (u \in InFlight' <=> u \in InFlight)
  BY <1>2 DEF Entry, InFlight
<1>4. \A m \in Files \X DOMAIN sigs : pc[t] \in Comparing => m[2] < k[t]
  BY DEF TypeOK
<1> DEFINE Passed(u, m) == pc[u] \in Comparing /\ Entry(u) = m[1] =>
                             m[2] < k[u] \/ (m[2] = k[u] /\ u \in InFlight)
           PassedNow(u, m) == pc'[u] \in Comparing /\ Entry(u)' = m[1] =>
                                m[2] < k'[u] \/ (m[2] = k'[u] /\ u \in InFlight')
<1>5. \A m \in Files \X DOMAIN sigs : \A u \in Workers : PassedNow(u, m) <=> Passed(u, m)
  BY <1>1, <1>2, <1>3, <1>4
<1>6. Reported = {m \in Files \X DOMAIN sigs :
                    /\ sigs[m[2]] = Digest[m[1]] /\ m[1] \in locked \ TooLarge
                    /\ \A u \in Workers : Passed(u, m)}
  BY DEF Reported
<1>7. Reported' = {m \in Files \X DOMAIN sigs :
                     /\ sigs[m[2]] = Digest[m[1]] /\ m[1] \in locked' \ TooLarge
                     /\ \A u \in Workers : PassedNow(u, m)}
  BY DEF Reported
<1>8. \A f : f \in locked' \ TooLarge <=> f \in locked \ TooLarge
  OBVIOUS
<1> HIDE DEF Passed, PassedNow
<1>. QED
  BY <1>5, <1>6, <1>7, <1>8

LEMMA WorkersReportNothing ==
  ASSUME TypeOK, Bookkeeping, NEW t \in Workers, Worker(t) \/ DismissBox(t)
  PROVE  Reported' = Reported
<1>1. sigs' = sigs
  BY DEF Worker, EndOfWalk, ListingFails, SkipFile, HashFile, NextSignature, DismissBox,
     NoMoreSignatures, SendInsert, SendPath, SendMD5, ReadForIncrement, WriteIncrement,
     ReadIndex, dialogVars
<1>2. \A u \in Workers : u # t => pc'[u] = pc[u] /\ k'[u] = k[u]
  BY DEF Worker, EndOfWalk, ListingFails, SkipFile, HashFile, NextSignature, DismissBox,
     NoMoreSignatures, SendInsert, SendPath, SendMD5, ReadForIncrement, WriteIncrement,
     ReadIndex, GoOn, TypeOK
<1>3. Reported' \in SUBSET (Files \X DOMAIN sigs) /\ Reported \in SUBSET (Files \X DOMAIN sigs)
  BY <1>1 DEF Reported
<1>4. \A m \in Files \X DOMAIN sigs : m[2] \in Nat /\ m[2] <= Len(sigs)
  BY DEF TypeOK
<1>5. k[t] \in Nat
  BY DEF TypeOK
<1>6. CASE SkipFile(t) \/ DismissBox(t) \/ NoMoreSignatures(t)
  <2>1. /\ GoOn(t) /\ UNCHANGED <<sigs, k>> /\ locked \subseteq locked'
        /\ \A f \in locked' : f \in locked \/ f \in TooLarge
    BY <1>1, <1>6 DEF SkipFile, DismissBox, NoMoreSignatures
  <2>2. pc[t] \in Comparing => pc[t] = "match" /\ k[t] > Len(sigs)
    BY <1>6 DEF SkipFile, DismissBox, NoMoreSignatures, At, Comparing
  <2>. QED
    BY <2>1, <2>2, GoOnReported
<1>7. CASE HashFile(t)
  <2>1. /\ locked' = locked \cup {Entry(t)} /\ Entry(t) \notin locked /\ pos' = pos
        /\ pc[t] = "walk" /\ pc'[t] = "match" /\ k'[t] = 1
    BY <1>7 DEF HashFile, CanOpen, At, TypeOK
  <2>2. \A m \in Files \X DOMAIN sigs : m[1] = Entry(t) => m \notin Reported
    BY <2>1 DEF Reported
  <2>3. ASSUME NEW m \in Files \X DOMAIN sigs, m[1] = Entry(t)
        PROVE  m \notin Reported'
    <3>1. Entry(t)' = Entry(t) /\ t \notin InFlight' /\ pc'[t] \in Comparing
      BY <2>1 DEF Entry, InFlight, Comparing
    <3>2. m[2] >= 1
      BY DEF TypeOK
    <3>. QED
      BY <2>1, <2>3, <3>1, <3>2, <1>4 DEF Reported
  <2>4. ASSUME NEW m \in Files \X DOMAIN sigs, m[1] # Entry(t)
        PROVE  m \in Reported' <=> m \in Reported
    BY <1>1, <1>2, <2>1, <2>4, ReportedStep
  <2>. QED
    BY <1>3, <2>2, <2>3, <2>4
<1>8. CASE EndOfWalk(t) \/ ListingFails(t)
  <2>1. UNCHANGED <<sigs, pos, locked>> /\ pc[t] \notin Comparing /\ pc'[t] \notin Comparing
    BY <1>1, <1>8 DEF EndOfWalk, ListingFails, At, TypeOK, Comparing
  <2>. QED
    BY <1>2, <1>3, <2>1, ReportedStep
<1>9. CASE NextSignature(t)
  <2>1. /\ UNCHANGED <<sigs, pos, locked>> /\ pc'[t] = pc[t] /\ k'[t] = k[t] + 1
        /\ pc[t] = "match" /\ sigs[k[t]] # Digest[Entry(t)]
    BY <1>1, <1>9 DEF NextSignature, At, TypeOK
  <2>2. t \notin InFlight /\ t \notin InFlight'
    BY <2>1 DEF InFlight
  <2>3. ASSUME NEW m \in Files \X DOMAIN sigs, m[1] = Entry(t), m[2] = k[t]
        PROVE  m \notin Reported /\ m \notin Reported'
    BY <1>1, <2>1, <2>3 DEF Reported
  <2>4. ASSUME NEW m \in Files \X DOMAIN sigs, ~(m[1] = Entry(t) /\ m[2] = k[t])
        PROVE  m \in Reported' <=> m \in Reported
    <3>1. Entry(t) = m[1] => (m[2] < k'[t] <=> m[2] < k[t])
      BY <1>4, <1>5, <2>1, <2>4
    <3>. QED
      BY <1>2, <2>1, <2>2, <3>1, ReportedStep
  <2>. QED
    BY <1>3, <2>3, <2>4
<1>10. CASE SendInsert(t) \/ SendPath(t) \/ SendMD5(t) \/ ReadForIncrement(t)
  <2>1. /\ UNCHANGED <<sigs, pos, locked, k>> /\ pc[t] \in Comparing /\ pc'[t] \in Comparing
        /\ t \in InFlight' <=> t \in InFlight
    <3>1. CASE SendInsert(t)
      <4>1. UNCHANGED <<sigs, pos, locked, k>> /\ pc[t] = "match" /\ pc'[t] = "insert"
        BY <3>1 DEF SendInsert, ReadIndex, Reading, At, TypeOK
      <4>. QED
        BY <4>1 DEF Comparing, InFlight
    <3>2. CASE SendPath(t) \/ SendMD5(t) \/ ReadForIncrement(t)
      <4>1. /\ UNCHANGED <<sigs, pos, locked, k>>
            /\ pc[t] \in {"row", "text", "inc"} /\ pc'[t] \in {"path", "md5", "store"}
        BY <3>2 DEF SendPath, SendMD5, ReadForIncrement, ReadIndex, Reading, At, TypeOK
      <4>. QED
        BY <4>1 DEF Comparing, InFlight
    <3>. QED
      BY <1>10, <3>1, <3>2
  <2>. QED
    BY <1>2, <1>3, <2>1, ReportedStep
<1>11. CASE WriteIncrement(t)
  <2>1. /\ UNCHANGED <<sigs, pos, locked>> /\ k'[t] = k[t] + 1
        /\ pc[t] = "store" /\ pc'[t] = "match"
    BY <1>1, <1>11 DEF WriteIncrement, At, TypeOK
  <2>2. /\ t \in InFlight /\ t \notin InFlight'
        /\ pc[t] \in Comparing /\ pc'[t] \in Comparing
    BY <2>1 DEF InFlight, Comparing
  <2>3. \A m \in Files \X DOMAIN sigs : m[2] < k'[t] <=> m[2] < k[t] \/ m[2] = k[t]
    BY <1>4, <1>5, <2>1
  <2>. QED
    BY <1>2, <1>3, <2>1, <2>2, <2>3, ReportedStep
<1>. QED
  BY <1>6, <1>7, <1>8, <1>9, <1>10, <1>11 DEF Worker

\* The window's answer to the first call of a report gives the match its row.
LEMMA InsertReports ==
  ASSUME TypeOK, Started, ExaminedIsLocked, ExclusiveFile, Bookkeeping, open, opens = 1,
         NEW t \in Workers, AnswerInsert(t)
  PROVE  /\ <<Entry(t), k[t]>> \notin Reported
         /\ Reported' = Reported \cup {<<Entry(t), k[t]>>}
         /\ list' = InsertItem(list, reg[t], BlankRow) /\ Len(list') = Len(list) + 1
         /\ BlankRow \in Row
<1>1. UNCHANGED <<sigs, open, opens, locked, pos, k>>
  BY DEF AnswerInsert, Answer
<1>2. \A u \in Workers : u # t => pc'[u] = pc[u] /\ k'[u] = k[u]
  BY DEF AnswerInsert, Answer, TypeOK
<1>3. Reported' \in SUBSET (Files \X DOMAIN sigs) /\ Reported \in SUBSET (Files \X DOMAIN sigs)
  BY <1>1 DEF Reported
<1>4. pc[t] = "insert" /\ pc'[t] = "row"
  BY DEF AnswerInsert, Answer, Answered, TypeOK
<1>5. /\ t \notin InFlight /\ t \in InFlight'
      /\ pc[t] \in Comparing /\ pc'[t] \in Comparing
  BY <1>4 DEF InFlight, Comparing
<1>6. BlankRow \in Row
  BY DEF BlankRow, Row, Digests
<1>7. list' = InsertItem(list, reg[t], BlankRow) /\ Len(list') = Len(list) + 1
  <2>1. Opening(t) = opens
    BY <1>4, WorkerStarted
  <2>. QED
    BY <1>6, <2>1, InsertItemGrows DEF AnswerInsert, Answer, TypeOK
<1>8. PICK f \in Files, s \in DOMAIN sigs :
        /\ f = Entry(t) /\ s = k[t] /\ sigs[s] = Digest[f] /\ f \in locked \ TooLarge
  BY <1>4, <1>5 DEF TypeOK, ExaminedIsLocked, Bookkeeping, StepJustified, Matched
<1>9. <<f, s>> \notin Reported
  BY <1>5, <1>8 DEF Reported, TypeOK
<1>10. <<f, s>> \in Reported'
  <2>1. \A u \in Workers : Entry(u)' = Entry(u)
    BY <1>1 DEF Entry
  <2>2. \A u \in Workers : u # t /\ pc'[u] \in Comparing => Entry(u) # f
    BY <1>2, <1>5, <1>8 DEF ExclusiveFile
  <2>. QED
    BY <1>1, <1>5, <1>8, <2>1, <2>2 DEF Reported
<1>11. ASSUME NEW m \in Files \X DOMAIN sigs, m # <<f, s>>
       PROVE  m \in Reported' <=> m \in Reported
  <2>1. Entry(t) = m[1] => m[2] # k[t]
    BY <1>8, <1>11
  <2>. QED
    BY <1>1, <1>2, <1>5, <2>1, ReportedStep
<1>12. Reported' = Reported \cup {<<f, s>>}
  BY <1>3, <1>10, <1>11
<1>. QED
  BY <1>6, <1>7, <1>8, <1>9, <1>12

\* The answers to the other calls set a text.
LEMMA TextsReportNothing ==
  ASSUME TypeOK, NEW t \in Workers, AnswerPath(t) \/ AnswerMD5(t)
  PROVE  Reported' = Reported /\ Len(list') = Len(list) /\ InFlight' = InFlight
<1>1. UNCHANGED <<sigs, locked, pos, k>>
  BY DEF AnswerPath, AnswerMD5, Answer
<1>2. \A u \in Workers : u # t => pc'[u] = pc[u] /\ k'[u] = k[u]
  BY DEF AnswerPath, AnswerMD5, Answer, TypeOK
<1>3. Reported' \in SUBSET (Files \X DOMAIN sigs) /\ Reported \in SUBSET (Files \X DOMAIN sigs)
  BY <1>1 DEF Reported
<1>4. pc[t] \in {"path", "md5"} /\ pc' = [pc EXCEPT ![t] = Answered[pc[t]]]
  BY DEF AnswerPath, AnswerMD5, Answer
<1>5. pc'[t] \in {"text", "inc"}
  BY <1>4 DEF Answered, TypeOK
<1>6. /\ t \in InFlight /\ t \in InFlight' /\ InFlight' = InFlight
      /\ pc[t] \in Comparing /\ pc'[t] \in Comparing
  BY <1>2, <1>4, <1>5 DEF InFlight, Comparing
<1>7. Reported' = Reported
  BY <1>1, <1>2, <1>3, <1>6, ReportedStep
<1>8. /\ Len(SetItemText(list, reg[t], "path", Entry(t))) = Len(list)
      /\ Len(SetItemText(list, reg[t], "md5", Digest[Entry(t)])) = Len(list)
  BY SetItemTextKeepsLength DEF TypeOK
<1>. QED
  BY <1>6, <1>7, <1>8 DEF AnswerPath, AnswerMD5, Answer

LEMMA NextRowsCounted ==
  /\ TypeOK /\ Started /\ ExaminedIsLocked /\ ExclusiveFile /\ Bookkeeping
  /\ RowsCounted /\ [Next]_vars
  => RowsCounted'
<1> SUFFICES ASSUME TypeOK, Started, ExaminedIsLocked, ExclusiveFile, Bookkeeping,
                    RowsCounted, [Next]_vars
             PROVE  RowsCounted'
  OBVIOUS
<1>1. CASE OpenDialog
  <2> SUFFICES ASSUME opens = 0
               PROVE  IsFiniteSet(Reported') /\ Len(list') = Cardinality(Reported')
    BY <1>1 DEF OpenDialog, RowsCounted, TypeOK
  <2>1. locked' = {} /\ list' = <<>>
    BY <1>1 DEF OpenDialog, Bookkeeping, LoadedOnce
  <2>2. Reported' = {}
    BY <2>1 DEF Reported
  <2>. QED
    BY <2>1, <2>2, FS_EmptySet
<1>2. CASE OpenWithoutLibrary \/ UNCHANGED vars
  <2>1. UNCHANGED <<sigs, locked, open, opens, list, pc, pos, k>>
    BY <1>2 DEF OpenWithoutLibrary, vars, dialogVars, workerVars
  <2>2. Reported' = Reported
    BY <2>1 DEF Reported, Entry, InFlight
  <2>. QED
    BY <2>1, <2>2, NoRowStep
<1>3. CASE CloseX \/ CloseEsc
  BY <1>3 DEF CloseX, CloseEsc, DestroyWindow, RowsCounted
<1>4. ASSUME NEW t \in Workers, Worker(t) \/ DismissBox(t)
      PROVE  RowsCounted'
  <2>1. UNCHANGED <<open, opens, list>>
    BY <1>4 DEF Worker, EndOfWalk, ListingFails, SkipFile, HashFile, NextSignature,
       DismissBox, NoMoreSignatures, SendInsert, SendPath, SendMD5, ReadForIncrement,
       WriteIncrement, ReadIndex, dialogVars
  <2>. QED
    BY <1>4, <2>1, WorkersReportNothing, NoRowStep
<1>5. ASSUME NEW t \in Workers, AnswerInsert(t)
      PROVE  RowsCounted'
  <2>1. UNCHANGED <<open, opens>>
    BY <1>5 DEF AnswerInsert, Answer
  <2> SUFFICES ASSUME open, opens = 1
               PROVE  IsFiniteSet(Reported') /\ Len(list') = Cardinality(Reported')
    BY <2>1 DEF RowsCounted
  <2>2. /\ <<Entry(t), k[t]>> \notin Reported
        /\ Reported' = Reported \cup {<<Entry(t), k[t]>>}
        /\ Len(list') = Len(list) + 1
    BY <1>5, InsertReports
  <2>3. IsFiniteSet(Reported) /\ Len(list) = Cardinality(Reported)
    BY DEF RowsCounted
  <2>. QED
    BY <2>2, <2>3, FS_AddElement
<1>6. ASSUME NEW t \in Workers, AnswerPath(t) \/ AnswerMD5(t)
      PROVE  RowsCounted'
  <2>1. UNCHANGED <<open, opens>>
    BY <1>6 DEF AnswerPath, AnswerMD5, Answer
  <2>. QED
    BY <1>6, <2>1, TextsReportNothing, NoRowStep
<1>. QED
  BY <1>1, <1>2, <1>3, <1>4, <1>5, <1>6 DEF Next, User, Window

\* What the proofs about the first scan assume of a state.
ScanInv == /\ TypeOK /\ Started /\ ExaminedIsLocked /\ ExclusiveFile
           /\ Bookkeeping /\ RowsCounted

LEMMA ScanInvariant == Spec => []ScanInv
<1>1. Init => ScanInv
  <2> SUFFICES ASSUME Init PROVE ScanInv
    OBVIOUS
  <2>1. Started /\ ExaminedIsLocked /\ ExclusiveFile /\ RowsCounted
    BY DEF Init, Started, ExaminedIsLocked, ExclusiveFile, Comparing, RowsCounted
  <2>. QED
    BY <2>1, InitType, InitBookkeeping DEF ScanInv
<1>2. ScanInv /\ [Next]_vars => ScanInv'
  BY NextType, NextStarted, NextExclusive, NextBookkeeping, NextRowsCounted DEF ScanInv
<1>. QED
  BY <1>1, <1>2, PTL DEF Spec

\* A first scan has ended by itself.
Ended == open /\ opens = 1 /\ (\A t \in Workers : Opening(t) = 1 => pc[t] = "done")

\* Then the files that are open and not too large are those a scan can examine.
LEMMA AllExamined ==
  ASSUME ScanInv, Ended
  PROVE  /\ sigs = Loaded
         /\ \A t \in Workers : pc[t] \notin Comparing
         /\ \A d \in Drives : \A f \in Infected(d) : f \in locked \ TooLarge
         /\ \A f \in locked \ TooLarge : \A s \in DOMAIN Loaded :
              Loaded[s] = Digest[f] => \E d \in Drives : f \in Infected(d)
<1>1. sigs = Loaded
  BY DEF ScanInv, Ended, Bookkeeping, LoadedOnce
<1>2. \A t \in Workers : pc[t] \notin Comparing
  <2> SUFFICES ASSUME NEW t \in Workers, pc[t] \in Comparing
               PROVE  FALSE
    OBVIOUS
  <2>1. pc[t] \notin {"none", "done"}
    BY DEF Comparing
  <2>. QED
    BY <2>1, WorkerStarted DEF ScanInv, Ended
<1>3. ASSUME NEW d \in Drives, NEW f \in Infected(d)
      PROVE  f \in locked \ TooLarge
  <2>1. <<d, 1>> \in Workers /\ Drive(<<d, 1>>) = d /\ Opening(<<d, 1>>) = 1
    BY ConstantsAssumption DEF Workers, Drive, Opening, ScanInv, Ended, TypeOK
  <2>2. AtEnd(<<d, 1>>)
    BY <2>1 DEF Ended, ScanInv, Bookkeeping, StepJustified
  <2>3. PICK i \in DOMAIN Walk[d] : Walk[d][i] = f
    BY DEF Infected
  <2>4. i < pos[<<d, 1>>]
    BY <2>1, <2>2, ConstantsAssumption DEF AtEnd, ScanInv, TypeOK
  <2>5. Walked(<<d, 1>>, f)
    BY <2>1, <2>3, <2>4 DEF Walked
  <2>. QED
    BY <2>1, <2>5 DEF ScanInv, Bookkeeping, PassedIsLocked, Infected
<1>4. ASSUME NEW f \in locked \ TooLarge, NEW s \in DOMAIN Loaded, Loaded[s] = Digest[f]
      PROVE  \E d \in Drives : f \in Infected(d)
  BY <1>4 DEF ScanInv, Bookkeeping, OpenedFromWalk, Infected, TypeOK
<1>. QED
  BY <1>1, <1>2, <1>3, <1>4

\* However the reports of the workers interleave and whatever increments are lost,
\* a first scan that ends has as many rows as there are matches.
THEOREM CountsEachMatch == Spec => []OneRowPerMatch
<1>1. ASSUME ScanInv
      PROVE  OneRowPerMatch
  <2> DEFINE Matches == {m \in Files \X DOMAIN Loaded :
                           /\ \E d \in Drives : m[1] \in Infected(d)
                           /\ Loaded[m[2]] = Digest[m[1]]}
  <2> SUFFICES ASSUME Ended
               PROVE  Len(list) = Cardinality(Matches)
    BY DEF OneRowPerMatch, Ended
  <2>1. Reported = {m \in Files \X DOMAIN Loaded :
                      Loaded[m[2]] = Digest[m[1]] /\ m[1] \in locked \ TooLarge}
    BY <1>1, AllExamined DEF Reported
  <2>2. Reported = Matches
    BY <1>1, <2>1, AllExamined
  <2> HIDE DEF Matches
  <2>. QED
    BY <1>1, <2>2 DEF ScanInv, RowsCounted, Ended
<1>. QED
  BY <1>1, ScanInvariant, PTL

-----------------------------------------------------------------------------
(* Where only one drive has infected files the reports do not overlap, and   *)
(* the rows below nIndex are the report that ScanReport promises.            *)

\* No two drives have infected files.
OneDriveInfected ==
  \A d, e \in Drives : Infected(d) # {} /\ Infected(e) # {} => d = e

\* The signature file has no line twice, empty lines aside.
EachSignatureOnce ==
  \A i, j \in DOMAIN Loaded : Loaded[i] = Loaded[j] /\ Loaded[i] # NoText => i = j

\* The matches whose report is over.
Completed == Reported \ {<<Entry(t), k[t]>> : t \in InFlight}

\* The row of the report in progress is the one at nIndex, and the last one.
RowInProgress ==
  /\ Len(list) = IF InFlight = {} THEN nIndex ELSE nIndex + 1
  /\ \A t \in Workers :
       /\ pc[t] \in {"insert", "path", "md5", "store"} => reg[t] = nIndex
       /\ pc[t] \in {"text", "md5"} => list[nIndex + 1].path = Entry(t)
       /\ pc[t] \in {"inc", "store"} => list[nIndex + 1] = RowOf(Entry(t))

\* The rows before it are those of the matches whose report is over.
RowsFinal ==
  /\ \A i \in 1 .. nIndex : \E m \in Completed : list[i] = RowOf(m[1])
  /\ \A m \in Completed : \E i \in 1 .. nIndex : list[i] = RowOf(m[1])

RowsDiffer == \A i, j \in 1 .. nIndex : list[i] = list[j] => i = j

ReportInv ==
  OneDriveInfected /\ open /\ opens = 1 =>
    RowInProgress /\ RowsFinal /\ (EachSignatureOnce => RowsDiffer)

\* The matches whose report is over are among the matches that have a row, and the
\* signature a worker compares is behind those of its file.
LEMMA CompletedBefore ==
  ASSUME NEW m \in Completed, NEW t \in Workers, pc[t] \in Comparing, Entry(t) = m[1]
  PROVE  m[2] < k[t] /\ m[2] \in DOMAIN sigs /\ sigs[m[2]] = Digest[m[1]]
<1>1. m \in Reported
  BY DEF Completed
<1>2. m = <<m[1], m[2]>> /\ m[2] \in DOMAIN sigs /\ sigs[m[2]] = Digest[m[1]]
  BY <1>1 DEF Reported
<1>3. ~(m[2] = k[t] /\ t \in InFlight)
  BY <1>2 DEF Completed
<1>. QED
  BY <1>1, <1>2, <1>3 DEF Reported

\* The file a worker reports is infected.
LEMMA ReporterInfected ==
  ASSUME ScanInv, opens = 1, NEW t \in Workers, pc[t] \in Matched
  PROVE  Entry(t) \in Infected(Drive(t))
<1>1. pc[t] \in Comparing
  BY DEF Matched, Comparing
<1>2. /\ Entry(t) \in Files /\ ~AtEnd(t) /\ Entry(t) \in locked /\ Entry(t) \notin TooLarge
      /\ k[t] \in DOMAIN Loaded /\ Loaded[k[t]] = Digest[Entry(t)]
  BY <1>1 DEF ScanInv, TypeOK, ExaminedIsLocked, Bookkeeping, StepJustified, LoadedOnce
<1>3. Entry(t) \notin Unreadable
  BY <1>2 DEF ScanInv, Bookkeeping, OpenedFromWalk
<1>4. pos[t] \in DOMAIN Walk[Drive(t)]
  BY <1>2, WorkerType, ConstantsAssumption DEF AtEnd, ScanInv, TypeOK
<1>. QED
  BY <1>2, <1>3, <1>4 DEF Infected, Entry

\* So in the first opening only one worker reports.
LEMMA OneReporter ==
  ASSUME ScanInv, OneDriveInfected, opens = 1,
         NEW t \in Workers, NEW u \in Workers, pc[t] \in Matched, pc[u] \in Matched
  PROVE  t = u
<1>1. Drive(t) = Drive(u)
  BY ReporterInfected, WorkerType DEF OneDriveInfected
<1>2. Opening(t) = 1 /\ Opening(u) = 1
  <2>1. pc[t] # "none" /\ pc[u] # "none"
    BY DEF Matched
  <2>. QED
    BY <2>1, WorkerStarted DEF ScanInv
<1>. QED
  BY <1>1, <1>2 DEF Workers, Drive, Opening

\* The reports that are over stay what they are while no report ends.
LEMMA CompletedKept ==
  ASSUME Reported' = Reported, InFlight' = InFlight,
         \A u \in InFlight : Entry(u)' = Entry(u) /\ k'[u] = k[u]
  PROVE  Completed' = Completed
<1>1. {<<Entry(u), k[u]>> : u \in InFlight}' = {<<Entry(u), k[u]>> : u \in InFlight}
  OBVIOUS
<1>. QED
  BY <1>1 DEF Completed

\* Rows that are final stay final if they stay where they are.
LEMMA RowsKept ==
  ASSUME RowsFinal, EachSignatureOnce => RowsDiffer, Completed' = Completed,
         nIndex' = nIndex, \A i \in 1 .. nIndex : list'[i] = list[i]
  PROVE  RowsFinal' /\ (EachSignatureOnce => RowsDiffer')
BY DEF RowsFinal, RowsDiffer, RowOf

\* A step of worker t that is not part of a report.
LEMMA OtherStepKeepsReport ==
  ASSUME ScanInv, RowInProgress, RowsFinal, EachSignatureOnce => RowsDiffer,
         NEW t \in Workers, Worker(t) \/ DismissBox(t),
         pc[t] \notin Matched, pc'[t] \notin Matched
  PROVE  RowInProgress' /\ RowsFinal' /\ (EachSignatureOnce => RowsDiffer')
<1>1. CASE EndOfWalk(t) \/ ListingFails(t) \/ SkipFile(t) \/ HashFile(t)
             \/ NextSignature(t) \/ NoMoreSignatures(t) \/ DismissBox(t)
  <2>1. UNCHANGED <<nIndex, list, reg>>
    BY <1>1 DEF EndOfWalk, ListingFails, SkipFile, HashFile, NextSignature,
                NoMoreSignatures, DismissBox, dialogVars
  <2>2. \A u \in Workers : u # t => pc'[u] = pc[u] /\ pos'[u] = pos[u] /\ k'[u] = k[u]
    BY <1>1 DEF EndOfWalk, ListingFails, SkipFile, HashFile, NextSignature,
                NoMoreSignatures, DismissBox, GoOn, ScanInv, TypeOK
  <2>3. t \notin InFlight /\ t \notin InFlight' /\ InFlight' = InFlight
    BY <2>2 DEF InFlight, Matched
  <2>4. \A u \in Workers : u # t => Entry(u)' = Entry(u)
    BY <2>2 DEF Entry
  <2>5. Reported' = Reported
    BY WorkersReportNothing DEF ScanInv
  <2>6. Completed' = Completed
    BY <2>2, <2>3, <2>4, <2>5, CompletedKept DEF InFlight
  <2>7. \A i \in 1 .. nIndex : list'[i] = list[i]
    BY <2>1
  <2>8. RowsFinal' /\ (EachSignatureOnce => RowsDiffer')
    BY <2>1, <2>6, <2>7, RowsKept
  <2>9. RowInProgress'
    <3>1. Len(list') = IF InFlight' = {} THEN nIndex' ELSE nIndex' + 1
      BY <2>1, <2>3 DEF RowInProgress
    <3> SUFFICES ASSUME NEW u \in Workers
                 PROVE  /\ pc'[u] \in {"insert", "path", "md5", "store"} => reg[u] = nIndex
                        /\ pc'[u] \in {"text", "md5"} => list[nIndex + 1].path = Entry(u)'
                        /\ pc'[u] \in {"inc", "store"} => list[nIndex + 1] = RowOf(Entry(u)')
      BY <2>1, <3>1 DEF RowInProgress, RowOf
    <3>2. CASE u = t
      BY <3>2 DEF Matched
    <3>3. CASE u # t
      BY <2>2, <2>4, <3>3 DEF RowInProgress
    <3>. QED
      BY <3>2, <3>3
  <2>. QED
    BY <2>8, <2>9
<1>2. ~(SendInsert(t) \/ SendPath(t) \/ SendMD5(t) \/ ReadForIncrement(t) \/ WriteIncrement(t))
  BY DEF SendInsert, SendPath, SendMD5, ReadForIncrement, WriteIncrement, ReadIndex, Reading,
         At, ScanInv, TypeOK, Matched
<1>. QED
  BY <1>1, <1>2 DEF Worker

\* A worker reads nIndex for its next call.
LEMMA ReadKeepsReport ==
  ASSUME ScanInv, RowInProgress, RowsFinal, EachSignatureOnce => RowsDiffer,
         NEW t \in Workers, SendInsert(t) \/ SendPath(t) \/ SendMD5(t) \/ ReadForIncrement(t)
  PROVE  RowInProgress' /\ RowsFinal' /\ (EachSignatureOnce => RowsDiffer')
<1>1. /\ UNCHANGED <<nIndex, list, pos, k>> /\ reg'[t] = nIndex
      /\ \A u \in Workers : u # t => pc'[u] = pc[u] /\ reg'[u] = reg[u]
  BY DEF SendInsert, SendPath, SendMD5, ReadForIncrement, ReadIndex, dialogVars, ScanInv,
         TypeOK
<1>2. <<pc[t], pc'[t]>> \in {<<"match", "insert">>, <<"row", "path">>, <<"text", "md5">>,
                             <<"inc", "store">>}
  BY DEF SendInsert, SendPath, SendMD5, ReadForIncrement, ReadIndex, Reading, At, ScanInv,
         TypeOK
<1>3. InFlight' = InFlight
  BY <1>1, <1>2 DEF InFlight
<1>4. \A u \in Workers : Entry(u)' = Entry(u)
  BY <1>1 DEF Entry
<1>5. Reported' = Reported
  BY WorkersReportNothing DEF ScanInv, Worker
<1>6. Completed' = Completed
  BY <1>1, <1>3, <1>4, <1>5, CompletedKept DEF InFlight
<1>7. RowsFinal' /\ (EachSignatureOnce => RowsDiffer')
  BY <1>1, <1>6, RowsKept
<1>8. RowInProgress'
  <2>1. Len(list') = IF InFlight' = {} THEN nIndex' ELSE nIndex' + 1
    BY <1>1, <1>3 DEF RowInProgress
  <2> SUFFICES ASSUME NEW u \in Workers
               PROVE  /\ pc'[u] \in {"insert", "path", "md5", "store"} => reg'[u] = nIndex
                      /\ pc'[u] \in {"text", "md5"} => list[nIndex + 1].path = Entry(u)
                      /\ pc'[u] \in {"inc", "store"} => list[nIndex + 1] = RowOf(Entry(u))
    BY <1>1, <1>4, <2>1 DEF RowInProgress, RowOf
  <2>2. CASE u = t
    BY <1>1, <1>2, <2>2 DEF RowInProgress
  <2>3. CASE u # t
    BY <1>1, <2>3 DEF RowInProgress
  <2>. QED
    BY <2>2, <2>3
<1>. QED
  BY <1>7, <1>8

\* The last step of a report: its row becomes one of the final rows.
LEMMA IncrementEndsReport ==
  ASSUME ScanInv, OneDriveInfected, opens = 1,
         RowInProgress, RowsFinal, EachSignatureOnce => RowsDiffer,
         NEW t \in Workers, WriteIncrement(t)
  PROVE  /\ RowInProgress' /\ RowsFinal' /\ (EachSignatureOnce => RowsDiffer')
         /\ nIndex' = nIndex + 1 /\ list' = list /\ Len(list) = nIndex + 1
         /\ list[nIndex + 1] = RowOf(Entry(t)) /\ Entry(t) \in Infected(Drive(t))
         /\ EachSignatureOnce => \A i \in 1 .. nIndex : list[i] # RowOf(Entry(t))
<1>1. /\ UNCHANGED <<list, pos, reg, sigs>> /\ nIndex' = reg[t] + 1
      /\ pc[t] = "store" /\ pc'[t] = "match"
      /\ \A u \in Workers : u # t => pc'[u] = pc[u] /\ k'[u] = k[u]
  BY DEF WriteIncrement, At, dialogVars, ScanInv, TypeOK
<1>2. \A u \in Workers : pc[u] \in Matched => u = t
  BY <1>1, OneReporter DEF Matched
<1>3. InFlight = {t} /\ InFlight' = {}
  BY <1>1, <1>2 DEF InFlight, Matched
<1>4. /\ nIndex' = nIndex + 1 /\ Len(list) = nIndex + 1 /\ nIndex \in Nat
      /\ list[nIndex + 1] = RowOf(Entry(t))
  BY <1>1, <1>3 DEF RowInProgress, ScanInv, TypeOK
<1>5. Entry(t) \in Infected(Drive(t))
  BY <1>1, ReporterInfected DEF Matched
<1>6. PICK f \in Files, s \in DOMAIN sigs : f = Entry(t) /\ s = k[t] /\ sigs[s] = Digest[f]
  BY <1>1 DEF ScanInv, TypeOK, Comparing, Bookkeeping, StepJustified, Matched
<1>7. Reported' = Reported
  BY WorkersReportNothing DEF ScanInv, Worker
<1>8. Completed = Reported \ {<<f, s>>} /\ Completed' = Reported
  <2>1. {<<Entry(u), k[u]>> : u \in InFlight} = {<<f, s>>}
    BY <1>3, <1>6
  <2>2. {<<Entry(u), k[u]>> : u \in InFlight}' = {}
    BY <1>3
  <2>. QED
    BY <1>7, <2>1, <2>2 DEF Completed
<1>9. <<f, s>> \in Reported
  <2>1. f \in locked \ TooLarge
    BY <1>1, <1>6 DEF ScanInv, ExaminedIsLocked, Bookkeeping, StepJustified, Comparing
  <2>2. \A u \in Workers : pc[u] \in Comparing /\ Entry(u) = f => u = t
    BY <1>1, <1>6 DEF ScanInv, ExclusiveFile, Comparing
  <2>. QED
    BY <1>3, <1>6, <2>1, <2>2 DEF Reported
<1>10. RowsFinal'
  <2>1. ASSUME NEW i \in 1 .. nIndex + 1
        PROVE  \E m \in Completed' : list[i] = RowOf(m[1])
    <3>1. CASE i = nIndex + 1
      BY <1>4, <1>6, <1>8, <1>9, <3>1
    <3>2. CASE i # nIndex + 1
      BY <1>4, <1>8, <3>2 DEF RowsFinal
    <3>. QED
      BY <3>1, <3>2
  <2>2. ASSUME NEW m \in Completed'
        PROVE  \E i \in 1 .. nIndex + 1 : list[i] = RowOf(m[1])
    <3>1. CASE m = <<f, s>>
      BY <1>4, <1>6, <3>1
    <3>2. CASE m # <<f, s>>
      BY <1>4, <1>8, <3>2 DEF RowsFinal
    <3>. QED
      BY <3>1, <3>2
  <2>. QED
    BY <1>1, <1>4, <2>1, <2>2 DEF RowsFinal, RowOf
<1>11. ASSUME EachSignatureOnce, NEW i \in 1 .. nIndex
       PROVE  list[i] # RowOf(f)
  <2> SUFFICES ASSUME list[i] = RowOf(f) PROVE FALSE
    OBVIOUS
  <2>1. PICK m \in Completed : list[i] = RowOf(m[1])
    BY DEF RowsFinal
  <2>2. m[1] = f
    BY <2>1 DEF RowOf
  <2>3. m[2] < k[t] /\ m[2] \in DOMAIN sigs /\ sigs[m[2]] = Digest[f]
    BY <1>1, <1>6, <2>2, CompletedBefore DEF Comparing
  <2>4. sigs = Loaded /\ Digest[f] # NoText /\ k[t] \in Nat
    BY ConstantsAssumption DEF ScanInv, Bookkeeping, LoadedOnce, TypeOK
  <2>5. m[2] = s
    BY <1>6, <1>11, <2>3, <2>4 DEF EachSignatureOnce
  <2>. QED
    BY <1>6, <2>3, <2>4, <2>5
<1>12. ASSUME EachSignatureOnce
       PROVE  RowsDiffer'
  <2> SUFFICES ASSUME NEW i \in 1 .. nIndex + 1, NEW j \in 1 .. nIndex + 1, list[i] = list[j]
               PROVE  i = j
    BY <1>1, <1>4 DEF RowsDiffer
  <2>1. CASE i \in 1 .. nIndex /\ j \in 1 .. nIndex
    BY <1>12, <2>1 DEF RowsDiffer
  <2>2. CASE i = nIndex + 1 \/ j = nIndex + 1
    BY <1>4, <1>6, <1>11, <1>12, <2>2
  <2>. QED
    BY <1>4, <2>1, <2>2
<1>13. RowInProgress'
  <2>1. \A u \in Workers : pc'[u] \notin Matched
    BY <1>1, <1>2 DEF Matched
  <2>2. Len(list') = IF InFlight' = {} THEN nIndex' ELSE nIndex' + 1
    BY <1>1, <1>3, <1>4
  <2>. QED
    BY <2>1, <2>2 DEF RowInProgress, Matched
<1>. QED
  BY <1>1, <1>4, <1>5, <1>6, <1>10, <1>11, <1>12, <1>13

\* The row of a report appears behind the final rows.
LEMMA InsertKeepsReport ==
  ASSUME ScanInv, OneDriveInfected, open, opens = 1,
         RowInProgress, RowsFinal, EachSignatureOnce => RowsDiffer,
         NEW t \in Workers, AnswerInsert(t)
  PROVE  /\ RowInProgress' /\ RowsFinal' /\ (EachSignatureOnce => RowsDiffer')
         /\ nIndex' = nIndex /\ \A i \in 1 .. nIndex : list'[i] = list[i]
<1>1. /\ UNCHANGED <<nIndex, pos, reg, k>> /\ pc[t] = "insert" /\ pc'[t] = "row"
      /\ \A u \in Workers : u # t => pc'[u] = pc[u]
  BY DEF AnswerInsert, Answer, Answered, ScanInv, TypeOK
<1>2. \A u \in Workers : pc[u] \in Matched => u = t
  BY <1>1, OneReporter DEF Matched
<1>3. InFlight = {} /\ InFlight' = {t}
  BY <1>1, <1>2 DEF InFlight, Matched
<1>4. reg[t] = Len(list) /\ nIndex = Len(list) /\ nIndex \in Nat
  BY <1>1, <1>3 DEF RowInProgress, ScanInv, TypeOK
<1>5. /\ <<Entry(t), k[t]>> \notin Reported
      /\ Reported' = Reported \cup {<<Entry(t), k[t]>>}
      /\ list' = InsertItem(list, reg[t], BlankRow) /\ Len(list') = Len(list) + 1
      /\ BlankRow \in Row
  BY InsertReports DEF ScanInv
<1>6. \A i \in 1 .. nIndex : list'[i] = list[i]
  BY <1>4, <1>5, InsertAtEnd DEF ScanInv, TypeOK
<1>7. Completed' = Completed
  <2>1. Entry(t)' = Entry(t)
    BY <1>1 DEF Entry
  <2>2. {<<Entry(u), k[u]>> : u \in InFlight}' = {<<Entry(t), k[t]>>}
    BY <1>1, <1>3, <2>1
  <2>3. {<<Entry(u), k[u]>> : u \in InFlight} = {}
    BY <1>3
  <2>. QED
    BY <1>5, <2>2, <2>3 DEF Completed
<1>8. RowsFinal' /\ (EachSignatureOnce => RowsDiffer')
  BY <1>1, <1>6, <1>7, RowsKept
<1>9. RowInProgress'
  <2>1. Len(list') = IF InFlight' = {} THEN nIndex' ELSE nIndex' + 1
    BY <1>1, <1>3, <1>4, <1>5
  <2>2. \A u \in Workers : pc'[u] \in Matched => pc'[u] = "row"
    BY <1>1, <1>2
  <2>. QED
    BY <2>1, <2>2 DEF RowInProgress, Matched
<1>. QED
  BY <1>1, <1>6, <1>8, <1>9

\* The texts go to the row of the report.
LEMMA TextKeepsReport ==
  ASSUME ScanInv, OneDriveInfected, open, opens = 1,
         RowInProgress, RowsFinal, EachSignatureOnce => RowsDiffer,
         NEW t \in Workers, AnswerPath(t) \/ AnswerMD5(t)
  PROVE  /\ RowInProgress' /\ RowsFinal' /\ (EachSignatureOnce => RowsDiffer')
         /\ nIndex' = nIndex /\ \A i \in 1 .. nIndex : list'[i] = list[i]
<1>1. /\ UNCHANGED <<nIndex, pos, reg, k>>
      /\ (pc[t] = "path" /\ pc'[t] = "text") \/ (pc[t] = "md5" /\ pc'[t] = "inc")
      /\ \A u \in Workers : u # t => pc'[u] = pc[u]
  <2>1. CASE AnswerPath(t)
    BY <2>1 DEF AnswerPath, Answer, Answered, ScanInv, TypeOK
  <2>2. CASE AnswerMD5(t)
    BY <2>2 DEF AnswerMD5, Answer, Answered, ScanInv, TypeOK
  <2>. QED
    BY <2>1, <2>2
<1>2. \A u \in Workers : pc[u] \in Matched => u = t
  BY <1>1, OneReporter DEF Matched
<1>3. Reported' = Reported /\ Len(list') = Len(list) /\ InFlight' = InFlight /\ t \in InFlight
  BY <1>1, TextsReportNothing DEF ScanInv, InFlight
<1>4. /\ nIndex \in Nat /\ reg[t] = nIndex /\ Len(list) = nIndex + 1
      /\ HasRow(list, nIndex) /\ list \in Seq(Row) /\ list[nIndex + 1] \in Row
  BY <1>1, <1>3 DEF RowInProgress, ScanInv, TypeOK, HasRow
<1>5. Opening(t) = opens
  <2>1. pc[t] # "none"
    BY <1>1
  <2>. QED
    BY <2>1, WorkerStarted DEF ScanInv
<1>a. Entry(t) \in Files
  BY <1>1 DEF ScanInv, TypeOK, Comparing
<1>6. /\ \A i \in 1 .. nIndex : list'[i] = list[i]
      /\ pc'[t] = "text" => list'[nIndex + 1].path = Entry(t)
      /\ pc'[t] = "inc" => list'[nIndex + 1] = RowOf(Entry(t))
  <2>1. CASE AnswerPath(t)
    <3>1. list' = SetItemText(list, nIndex, "path", Entry(t)) /\ pc'[t] = "text"
      BY <1>1, <1>4, <1>5, <2>1 DEF AnswerPath, Answer
    <3>2. /\ list'[nIndex + 1]["path"] = Entry(t)
          /\ \A i \in 1 .. Len(list) : i # nIndex + 1 => list'[i] = list[i]
      BY <1>4, <3>1, SetItemTextRows DEF Row
    <3>. QED
      BY <1>4, <3>1, <3>2
  <2>2. CASE AnswerMD5(t)
    <3>1. list' = SetItemText(list, nIndex, "md5", Digest[Entry(t)]) /\ pc'[t] = "inc"
      BY <1>1, <1>4, <1>5, <2>2 DEF AnswerMD5, Answer
    <3>2. /\ list'[nIndex + 1]["md5"] = Digest[Entry(t)]
          /\ list'[nIndex + 1]["path"] = list[nIndex + 1]["path"]
          /\ \A i \in 1 .. Len(list) : i # nIndex + 1 => list'[i] = list[i]
      <4>1. {"path", "md5"} = DOMAIN list[nIndex + 1]
        BY <1>4 DEF Row
      <4>2. \A c \in DOMAIN list[nIndex + 1] :
              c # "md5" => list'[nIndex + 1][c] = list[nIndex + 1][c]
        BY <1>4, <3>1, SetItemTextRows
      <4>3. /\ list'[nIndex + 1]["md5"] = Digest[Entry(t)]
            /\ \A i \in 1 .. Len(list) : i # nIndex + 1 => list'[i] = list[i]
        BY <1>4, <3>1, <4>1, SetItemTextRows
      <4>. QED
        BY <4>1, <4>2, <4>3
    <3>3. list[nIndex + 1].path = Entry(t)
      BY <2>2 DEF AnswerMD5, RowInProgress
    <3>4. list'[nIndex + 1] \in Row
      <4>1. TypeOK'
        BY <2>2, NextType DEF ScanInv, Next, Window
      <4>2. list' \in Seq(Row)
        BY <4>1 DEF TypeOK
      <4>. QED
        BY <1>3, <1>4, <4>2
    <3>5. RowOf(Entry(t)) \in Row /\ \A r, s \in Row : r.path = s.path /\ r.md5 = s.md5 => r = s
      BY <1>a, DigestType DEF Row, RowOf
    <3>6. list'[nIndex + 1] = RowOf(Entry(t))
      BY <3>2, <3>3, <3>4, <3>5 DEF RowOf
    <3>. QED
      BY <1>4, <3>1, <3>2, <3>6
  <2>. QED
    BY <2>1, <2>2
<1>7. \A u \in Workers : Entry(u)' = Entry(u)
  BY <1>1 DEF Entry
<1>8. Completed' = Completed
  BY <1>1, <1>3, <1>7, CompletedKept DEF InFlight
<1>9. RowsFinal' /\ (EachSignatureOnce => RowsDiffer')
  BY <1>1, <1>6, <1>8, RowsKept
<1>10. RowInProgress'
  <2>1. Len(list') = IF InFlight' = {} THEN nIndex' ELSE nIndex' + 1
    BY <1>1, <1>3, <1>4
  <2>2. \A u \in Workers : pc'[u] \in Matched => u = t
    BY <1>1, <1>2
  <2>. QED
    BY <1>1, <1>6, <1>7, <2>1, <2>2 DEF RowInProgress, Matched, RowOf
<1>. QED
  BY <1>1, <1>6, <1>9, <1>10

\* A step of worker t or of the window for it, other than the last of a report,
\* leaves the final rows alone.
LEMMA StepKeepsReport ==
  ASSUME ScanInv, OneDriveInfected, open, opens = 1,
         RowInProgress, RowsFinal, EachSignatureOnce => RowsDiffer,
         NEW t \in Workers, Worker(t) \/ Window(t) \/ DismissBox(t), ~WriteIncrement(t)
  PROVE  /\ RowInProgress' /\ RowsFinal' /\ (EachSignatureOnce => RowsDiffer')
         /\ nIndex' = nIndex /\ \A i \in 1 .. nIndex : list'[i] = list[i]
<1>1. CASE SendInsert(t) \/ SendPath(t) \/ SendMD5(t) \/ ReadForIncrement(t)
  <2>1. nIndex' = nIndex /\ list' = list
    BY <1>1 DEF SendInsert, SendPath, SendMD5, ReadForIncrement, ReadIndex, dialogVars
  <2>. QED
    BY <1>1, <2>1, ReadKeepsReport
<1>2. CASE \/ EndOfWalk(t) \/ ListingFails(t) \/ SkipFile(t) \/ HashFile(t)
           \/ NextSignature(t) \/ NoMoreSignatures(t) \/ DismissBox(t)
  <2>1. nIndex' = nIndex /\ list' = list
    BY <1>2 DEF EndOfWalk, ListingFails, SkipFile, HashFile, NextSignature,
                NoMoreSignatures, DismissBox, dialogVars
  <2>2. pc[t] \notin Matched /\ pc'[t] \notin Matched
    BY <1>2 DEF EndOfWalk, ListingFails, SkipFile, HashFile, NextSignature, NoMoreSignatures,
                DismissBox, GoOn, At, ScanInv, TypeOK, Matched
  <2>. QED
    BY <1>2, <2>1, <2>2, OtherStepKeepsReport DEF Worker
<1>3. CASE Window(t)
  BY <1>3, InsertKeepsReport, TextKeepsReport DEF Window
<1>. QED
  BY <1>1, <1>2, <1>3 DEF Worker

\* A step of a worker or of the window happens within an opening.
LEMMA WithinOpening ==
  ASSUME NEW t \in Workers, Worker(t) \/ Window(t) \/ DismissBox(t)
  PROVE  UNCHANGED <<open, opens>>
BY DEF Worker, Window, DismissBox, EndOfWalk, ListingFails, SkipFile, HashFile,
   NextSignature, NoMoreSignatures, SendInsert, SendPath, SendMD5, ReadForIncrement,
   WriteIncrement, AnswerInsert, AnswerPath, AnswerMD5, Answer, ReadIndex, dialogVars

\* The first opening begins with an empty list, and nothing is reported.
LEMMA OpeningEmpty ==
  ASSUME ScanInv, OpenDialog, opens = 0
  PROVE  /\ nIndex' = 0 /\ list' = <<>> /\ open' /\ opens' = 1
         /\ \A t \in Workers : pc'[t] \notin Matched
         /\ Reported' = {}
<1>1. nIndex' = 0 /\ list' = <<>> /\ open' /\ opens' = 1 /\ locked' = {}
  BY DEF OpenDialog, ScanInv, Started, Bookkeeping, LoadedOnce
<1>2. \A t \in Workers : pc[t] = "none"
  BY WorkerStarted DEF ScanInv
<1>3. \A t \in Workers : pc'[t] \notin Matched
  BY <1>2 DEF OpenDialog, Matched
<1>. QED
  BY <1>1, <1>3 DEF Reported

LEMMA NextReportInv == ScanInv /\ ReportInv /\ [Next]_vars => ReportInv'
<1> SUFFICES ASSUME ScanInv, ReportInv, [Next]_vars, OneDriveInfected, open', opens' = 1
             PROVE  RowInProgress' /\ RowsFinal' /\ (EachSignatureOnce => RowsDiffer')
  <2>1. /\ OneDriveInfected' <=> OneDriveInfected
        /\ EachSignatureOnce' <=> EachSignatureOnce
    BY DEF OneDriveInfected, EachSignatureOnce, Infected, Loaded
  <2>. QED
    BY <2>1 DEF ReportInv
<1>1. CASE OpenDialog
  <2>1. opens = 0
    BY <1>1 DEF OpenDialog, ScanInv, TypeOK
  <2>2. /\ nIndex' = 0 /\ list' = <<>> /\ Reported' = {}
        /\ \A t \in Workers : pc'[t] \notin Matched
    BY <1>1, <2>1, OpeningEmpty
  <2>3. InFlight' = {}
    BY <2>2 DEF InFlight, Matched
  <2>4. Completed' = {}
    BY <2>2 DEF Completed
  <2>. QED
    BY <2>2, <2>3, <2>4 DEF RowInProgress, RowsFinal, RowsDiffer, Matched
<1>2. CASE OpenWithoutLibrary \/ CloseX \/ CloseEsc
  BY <1>2 DEF OpenWithoutLibrary, CloseX, CloseEsc, DestroyWindow, dialogVars
<1>3. ASSUME NEW t \in Workers, Worker(t) \/ Window(t) \/ DismissBox(t)
      PROVE  RowInProgress' /\ RowsFinal' /\ (EachSignatureOnce => RowsDiffer')
  <2>1. open /\ opens = 1
    BY <1>3, WithinOpening
  <2>2. RowInProgress /\ RowsFinal /\ (EachSignatureOnce => RowsDiffer)
    BY <2>1 DEF ReportInv
  <2>. QED
    BY <1>3, <2>1, <2>2, IncrementEndsReport, StepKeepsReport
<1>4. CASE UNCHANGED vars
  <2>1. UNCHANGED <<sigs, locked, open, opens, list, nIndex, pc, pos, k, reg>>
    BY <1>4 DEF vars, dialogVars, workerVars
  <2>2. /\ InFlight' = InFlight /\ Reported' = Reported
        /\ \A t \in Workers : Entry(t)' = Entry(t)
    BY <2>1 DEF Reported, Entry, InFlight
  <2>3. Completed' = Completed
    BY <2>1, <2>2, CompletedKept DEF InFlight
  <2>. QED
    BY <2>1, <2>2, <2>3 DEF ReportInv, RowInProgress, RowsFinal, RowsDiffer, RowOf
<1>. QED
  BY <1>1, <1>2, <1>3, <1>4 DEF Next, User

LEMMA ReportInvariant == Spec => [](ScanInv /\ ReportInv)
<1>1. Init => ReportInv
  BY DEF Init, ReportInv
<1>. QED
  BY <1>1, ScanInvariant, NextReportInv, PTL DEF Spec

\* Where only one drive has infected files, a first scan that ends lists every one
\* of them, with its own hash.  (Where two have, texts may end up in each other's
\* rows, which the run of the race shows.)
THEOREM ListsAllInfected ==
  ASSUME OneDriveInfected
  PROVE  Spec => []InfectedListed
<1>1. ASSUME ScanInv, ReportInv
      PROVE  InfectedListed
  <2> SUFFICES ASSUME Ended, NEW d \in Drives, NEW f \in Infected(d)
               PROVE  \E i \in DOMAIN list : list[i] = RowOf(f)
    BY DEF InfectedListed, Ended
  <2>1. /\ sigs = Loaded /\ f \in locked \ TooLarge
        /\ \A t \in Workers : pc[t] \notin Comparing
    BY <1>1, AllExamined
  <2>2. PICK s \in DOMAIN sigs : sigs[s] = Digest[f]
    BY <2>1 DEF Infected
  <2>3. InFlight = {}
    BY <2>1 DEF InFlight, Comparing
  <2>4. <<f, s>> \in Reported
    BY <2>1, <2>2 DEF Reported, Infected
  <2>5. <<f, s>> \in Completed
    BY <2>3, <2>4 DEF Completed
  <2>6. RowsFinal /\ Len(list) = nIndex
    BY <1>1, <2>3 DEF ReportInv, RowInProgress, Ended
  <2>7. PICK i \in 1 .. nIndex : list[i] = RowOf(<<f, s>>[1])
    BY <2>5, <2>6 DEF RowsFinal
  <2>8. i \in DOMAIN list
    BY <1>1, <2>6 DEF ScanInv, TypeOK
  <2>. QED
    BY <2>7, <2>8
<1>. QED
  BY <1>1, ReportInvariant, PTL

-----------------------------------------------------------------------------
(* The refinement: what is shown of the first scan is a ScanReport.          *)

\* A sequence cut after n rows depends on these rows only.
LEMMA SamePrefix ==
  ASSUME NEW S, NEW T, NEW a \in Seq(S), NEW b \in Seq(T), NEW n \in Nat,
         n <= Len(a), n <= Len(b), \A i \in 1 .. n : a[i] = b[i]
  PROVE  SubSeq(a, 1, n) = SubSeq(b, 1, n)
<1>1. SubSeq(a, 1, n) = [i \in 1 .. n |-> a[i]]
  OBVIOUS
<1>2. SubSeq(b, 1, n) = [i \in 1 .. n |-> b[i]]
  OBVIOUS
<1>. QED
  BY <1>1, <1>2

LEMMA LongerPrefix ==
  ASSUME NEW S, NEW a \in Seq(S), NEW n \in Nat, n + 1 <= Len(a)
  PROVE  /\ SubSeq(a, 1, n + 1) = Append(SubSeq(a, 1, n), a[n + 1])
         /\ DOMAIN SubSeq(a, 1, n) = 1 .. n
         /\ \A i \in 1 .. n : SubSeq(a, 1, n)[i] = a[i]
<1>1. SubSeq(a, 1, n) \in Seq(S) /\ Len(SubSeq(a, 1, n)) = n
  OBVIOUS
<1>2. \A i \in 1 .. n : SubSeq(a, 1, n)[i] = a[i]
  OBVIOUS
<1>3. SubSeq(a, 1, n + 1) \in Seq(S) /\ Len(SubSeq(a, 1, n + 1)) = n + 1
  OBVIOUS
<1>4. \A i \in 1 .. n + 1 : SubSeq(a, 1, n + 1)[i] = a[i]
  OBVIOUS
<1>. QED
  BY <1>1, <1>2, <1>3, <1>4

\* What is shown, as a state function: the substitutions of Report.
Visible == open /\ opens = 1
Shown == IF Visible THEN SubSeq(list, 1, nIndex) ELSE <<>>
Findings == UNION {{RowOf(f) : f \in Infected(d)} : d \in Drives}

LEMMA NothingShown ==
  ASSUME ~Visible, ~Visible'
  PROVE  UNCHANGED <<Visible, Shown>>
<1>1. Visible = FALSE /\ Visible' = FALSE
  BY DEF Visible
<1>. QED
  BY <1>1 DEF Shown

LEMMA StepImplementsReport ==
  ASSUME ScanInv, ReportInv, OneDriveInfected, EachSignatureOnce, [Next]_vars
  PROVE  \/ UNCHANGED <<Visible, Shown>>
         \/ ~Visible /\ Visible' /\ Shown' = <<>>
         \/ Visible /\ ~Visible' /\ Shown' = <<>>
         \/ /\ Visible /\ Visible'
            /\ \E r \in Findings : /\ \A i \in DOMAIN Shown : Shown[i] # r
                                   /\ Shown' = Append(Shown, r)
<1>1. CASE OpenDialog
  <2>1. CASE opens = 0
    <3>1. nIndex' = 0 /\ list' = <<>> /\ Visible' /\ ~Visible
      BY <1>1, <2>1, OpeningEmpty DEF Visible
    <3>2. Shown' = <<>>
      BY <3>1 DEF Shown
    <3>. QED
      BY <3>1, <3>2
  <2>2. CASE opens # 0
    <3>1. ~Visible /\ ~Visible'
      BY <1>1, <2>2 DEF OpenDialog, Visible, ScanInv, TypeOK
    <3>. QED
      BY <3>1, NothingShown
  <2>. QED
    BY <2>1, <2>2
<1>2. CASE OpenWithoutLibrary
  <2>1. ~Visible /\ ~Visible'
    BY <1>2 DEF OpenWithoutLibrary, Visible, dialogVars
  <2>. QED
    BY <2>1, NothingShown
<1>3. CASE CloseX \/ CloseEsc
  <2>1. ~Visible'
    BY <1>3 DEF CloseX, CloseEsc, DestroyWindow, Visible
  <2>2. Shown' = <<>>
    BY <2>1 DEF Shown
  <2>. QED
    BY <2>1, <2>2, NothingShown
<1>4. ASSUME NEW t \in Workers, Worker(t) \/ Window(t) \/ DismissBox(t)
      PROVE  \/ UNCHANGED <<Visible, Shown>>
             \/ /\ Visible /\ Visible'
                /\ \E r \in Findings : /\ \A i \in DOMAIN Shown : Shown[i] # r
                                       /\ Shown' = Append(Shown, r)
  <2>1. Visible' = Visible
    BY <1>4, WithinOpening DEF Visible
  <2>2. CASE ~Visible
    BY <2>1, <2>2 DEF Shown
  <2>3. CASE Visible
    <3>1. /\ open /\ opens = 1 /\ RowInProgress /\ RowsFinal /\ RowsDiffer
      BY <2>3 DEF Visible, ReportInv
    <3>2. list \in Seq(Row) /\ nIndex \in Nat /\ nIndex <= Len(list)
      BY <3>1 DEF ScanInv, TypeOK, RowInProgress
    <3>3. CASE WriteIncrement(t)
      <4>1. /\ nIndex' = nIndex + 1 /\ list' = list /\ Len(list) = nIndex + 1
            /\ list[nIndex + 1] = RowOf(Entry(t)) /\ Entry(t) \in Infected(Drive(t))
            /\ \A i \in 1 .. nIndex : list[i] # RowOf(Entry(t))
        BY <3>1, <3>3, IncrementEndsReport
      <4>2. /\ SubSeq(list, 1, nIndex + 1) = Append(SubSeq(list, 1, nIndex), list[nIndex + 1])
            /\ DOMAIN SubSeq(list, 1, nIndex) = 1 .. nIndex
            /\ \A i \in 1 .. nIndex : SubSeq(list, 1, nIndex)[i] = list[i]
        BY <3>2, <4>1, LongerPrefix
      <4>3. RowOf(Entry(t)) \in Findings
        BY <4>1, WorkerType DEF Findings
      <4>4. Shown = SubSeq(list, 1, nIndex) /\ Shown' = SubSeq(list, 1, nIndex + 1)
        BY <2>1, <2>3, <4>1 DEF Shown
      <4>5. \A i \in DOMAIN Shown : Shown[i] # RowOf(Entry(t))
        BY <4>1, <4>2, <4>4
      <4>. QED
        BY <2>1, <2>3, <4>1, <4>2, <4>3, <4>4, <4>5
    <3>4. CASE ~WriteIncrement(t)
      <4>1. /\ RowInProgress' /\ nIndex' = nIndex
            /\ \A i \in 1 .. nIndex : list'[i] = list[i]
        BY <1>4, <3>1, <3>4, StepKeepsReport
      <4>2. list' \in Seq(Row) /\ nIndex <= Len(list')
        <5>1. TypeOK'
          BY NextType DEF ScanInv
        <5>. QED
          BY <3>2, <4>1, <5>1 DEF TypeOK, RowInProgress
      <4>3. SubSeq(list', 1, nIndex) = SubSeq(list, 1, nIndex)
        BY <3>2, <4>1, <4>2, SamePrefix
      <4>. QED
        BY <2>1, <2>3, <4>1, <4>3 DEF Shown
    <3>. QED
      BY <3>3, <3>4
  <2>. QED
    BY <2>2, <2>3
<1>5. CASE UNCHANGED vars
  BY <1>5 DEF vars, dialogVars, Visible, Shown
<1>. QED
  BY <1>1, <1>2, <1>3, <1>4, <1>5 DEF Next, User

\* Where only one drive has infected files and no signature is listed twice, the
\* first scan implements ScanReport: each row that nIndex has passed is complete,
\* final and a finding not shown before.
THEOREM ImplementsScanReport ==
  ASSUME OneDriveInfected, EachSignatureOnce
  PROVE  Spec => ReportsOnce
<1>1. Init => Report!Init
  BY DEF Init, Report!Init
<1>2. ScanInv /\ ReportInv /\ [Next]_vars => [Report!Next]_(Report!vars)
  <2> SUFFICES ASSUME ScanInv, ReportInv, [Next]_vars
               PROVE  [Report!Next]_(Report!vars)
    OBVIOUS
  <2>. QED
    BY StepImplementsReport
       DEF Report!Next, Report!Show, Report!Report, Report!Hide, Report!vars,
           Visible, Shown, Findings
<1>. QED
  BY <1>1, <1>2, ReportInvariant, PTL DEF Spec, ReportsOnce, Report!Spec
=============================================================================
