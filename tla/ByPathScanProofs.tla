-------------------------- MODULE ByPathScanProofs --------------------------
(***************************************************************************)
(* Proofs about the scan of a folder, for any folders, library and number  *)
(* of openings: the type invariant, that the delete button only deletes    *)
(* infected files, that no file stays open for nothing, and that with a    *)
(* library of one digest every infected file of the folder is listed.      *)
(***************************************************************************)
EXTENDS ByPathScan, ListControlProofs, TLAPS

LEMMA EntryType ==
  ASSUME NEW t \in Workers, TypeOK, ~AtEnd(t)
  PROVE  Entry(t) \in Files \cup {Denied}
<1>1. Walk[folder[t]] \in Seq(Files \cup {Denied})
  BY ConstantsAssumption DEF TypeOK
<1>2. pos[t] \in 1 .. Len(Walk[folder[t]])
  BY <1>1 DEF TypeOK, AtEnd
<1>. QED
  BY <1>1, <1>2 DEF Entry

LEMMA LoadedType == Loaded \in Seq(Digests) /\ Loaded \in Seq({Loaded[i] : i \in DOMAIN Loaded})
<1>1. Library \in Seq(Digests)
  BY ConstantsAssumption DEF Digests
<1>2. <<NoText>> \in Seq(Digests)
  BY DEF Digests
<1>3. Loaded \in Seq(Digests)
  BY <1>1, <1>2 DEF Loaded
<1> HIDE DEF Loaded
<1>. QED
  BY <1>3

\* Rows whose path is in any set P keep their type when a column is replaced.
LEMMA RowColumns ==
  ASSUME NEW P, NEW row \in [path : P, md5 : Digests], NEW f \in Files
  PROVE  /\ f \in P => [row EXCEPT !["path"] = f] \in [path : P, md5 : Digests]
         /\ [row EXCEPT !["md5"] = Digest[f]] \in [path : P, md5 : Digests]
BY DEF Digests

\* Whatever set P the reported files are from, an answered message leaves a list of
\* rows whose paths are from P or empty.
LEMMA AnswerKeepsRows ==
  ASSUME NEW P, list \in Seq([path : P \cup {NoText}, md5 : Digests]),
         NEW t \in Workers, Window(t), Entry(t) \in P, Entry(t) \in Files,
         k[t] \in Nat \ {0}
  PROVE  list' \in Seq([path : P \cup {NoText}, md5 : Digests])
<1> DEFINE R == [path : P \cup {NoText}, md5 : Digests]
<1>1. BlankRow \in R
  BY DEF BlankRow, Digests
<1>2. Place(t) \in Nat
  BY DEF Place
<1>3. InsertItem(list, Place(t), BlankRow) \in Seq(R)
  BY <1>1, <1>2, InsertItemGrows
<1>4. \A r \in R : [r EXCEPT !["path"] = Entry(t)] \in R
  BY RowColumns
<1>5. \A r \in R : [r EXCEPT !["md5"] = Digest[Entry(t)]] \in R
  BY RowColumns
<1> HIDE DEF R
<1>6. list \in Seq(R)
  BY DEF R
<1>7. SetItemText(list, Place(t), "path", Entry(t)) \in Seq(R)
  BY <1>4, <1>6, SetItemTextKeepsType
<1>8. SetItemText(list, Place(t), "md5", Digest[Entry(t)]) \in Seq(R)
  BY <1>5, <1>6, SetItemTextKeepsType
<1>9. list' \in Seq(R)
  BY <1>3, <1>6, <1>7, <1>8 DEF Window, AnswerInsert, AnswerPath, AnswerMD5, Answer
<1>. QED
  BY <1>9 DEF R

-----------------------------------------------------------------------------
(* The type invariant.                                                      *)

LEMMA InitType == Init => TypeOK
<1> SUFFICES ASSUME Init PROVE TypeOK
  OBVIOUS
<1>1. list \in Seq(Row) /\ sigs \in Seq(Digests)
  BY DEF Init
<1>2. opens \in 0 .. MaxOpens
  BY ConstantsAssumption DEF Init
<1>3. \A t \in Workers : pc[t] \notin Examining
  BY DEF Init, Examining, Reporting
<1>4. /\ pc \in [Workers -> Steps] /\ pos \in [Workers -> Nat \ {0}]
      /\ k \in [Workers -> Nat \ {0}] /\ folder \in [Workers -> Folders]
  BY DEF Init, Steps
<1>5. locked \in SUBSET Files /\ deleted \in SUBSET Files /\ disabledBy \in Workers \cup {Nobody}
  BY DEF Init
<1>. QED
  BY <1>1, <1>2, <1>3, <1>4, <1>5 DEF Init, TypeOK

\* A step of the window's thread that moves no worker to another entry.
LEMMA WindowType ==
  ASSUME TypeOK, list' \in Seq(Row), sigs' \in Seq(Digests), alive' \in BOOLEAN,
         open' \in BOOLEAN, opens' \in 0 .. MaxOpens, ui' \in {"pump", "delete"},
         cursor' \in Nat, ui' = "delete" => open' /\ cursor' <= Len(list'),
         deleted' \in SUBSET Files, disabledBy' \in Workers \cup {Nobody},
         UNCHANGED <<locked, folder, pos>>, k' \in [Workers -> Nat \ {0}],
         pc' \in [Workers -> Steps],
         \A t \in Workers : pc'[t] \in Examining => pc[t] \in Examining
  PROVE  TypeOK'
BY DEF TypeOK, Entry, AtEnd

\* A step of a worker that leaves the window alone but for its error box.
LEMMA WorkerStepType ==
  ASSUME TypeOK, NEW t \in Workers,
         UNCHANGED <<alive, sigs, deleted, open, opens, list, ui, cursor, folder>>,
         disabledBy' \in Workers \cup {Nobody}, locked' \in SUBSET Files,
         pc' \in [Workers -> Steps], pos' \in [Workers -> Nat \ {0}],
         k' \in [Workers -> Nat \ {0}],
         \A u \in Workers : u # t => pc'[u] = pc[u] /\ pos'[u] = pos[u],
         pc'[t] \in Examining => pos'[t] = pos[t] /\ ~AtEnd(t) /\ Entry(t) \in Files
  PROVE  TypeOK'
<1>1. /\ \A u \in Workers : pos'[u] = pos[u] => Entry(u)' = Entry(u) /\ AtEnd(u)' = AtEnd(u)
  BY DEF Entry, AtEnd
<1>2. \A u \in Workers : pc'[u] \in Examining => ~AtEnd(u)' /\ Entry(u)' \in Files
  BY <1>1 DEF TypeOK
<1>. QED
  BY <1>2 DEF TypeOK

\* A step of a worker that goes on to its next entry.
LEMMA GoOnType ==
  ASSUME TypeOK, NEW t \in Workers, GoOn(t), k' = k,
         UNCHANGED <<alive, sigs, deleted, open, opens, list, ui, cursor, folder>>,
         disabledBy' \in Workers \cup {Nobody}, locked' \in SUBSET Files
  PROVE  TypeOK'
<1>1. pc' \in [Workers -> Steps] /\ pc'[t] \notin Examining
  BY DEF GoOn, TypeOK, Steps, Examining, Reporting
<1>2. pos' \in [Workers -> Nat \ {0}] /\ k' \in [Workers -> Nat \ {0}]
  BY DEF GoOn, TypeOK
<1>3. \A u \in Workers : u # t => pc'[u] = pc[u] /\ pos'[u] = pos[u]
  BY DEF GoOn, TypeOK
<1>. QED
  BY <1>1, <1>2, <1>3, WorkerStepType

LEMMA NextType == TypeOK /\ [Next]_vars => TypeOK'
<1> SUFFICES ASSUME TypeOK, [Next]_vars
             PROVE  TypeOK'
  OBVIOUS
<1>1. CASE OpenDialog
  <2>1. sigs' \in Seq(Digests) /\ list' \in Seq(Row)
    BY <1>1, LoadedType DEF OpenDialog, TypeOK
  <2>2. opens' \in 0 .. MaxOpens
    BY <1>1, ConstantsAssumption DEF OpenDialog, TypeOK
  <2>3. pc' \in [Workers -> Steps]
    BY <1>1 DEF OpenDialog, TypeOK, Steps
  <2>4. \A t \in Workers : pc'[t] \in Examining => pc[t] \in Examining
    BY <1>1 DEF OpenDialog, TypeOK, Examining, Reporting
  <2>5. ui' # "delete"
    BY <1>1 DEF OpenDialog, TypeOK
  <2>. QED
    BY <1>1, <2>1, <2>2, <2>3, <2>4, <2>5, WindowType DEF OpenDialog, TypeOK
<1>2. ASSUME NEW t \in Workers, Worker(t)
      PROVE  TypeOK'
  <2>1. CASE EndOfWalk(t) \/ ListingFails(t)
    BY <2>1, WorkerStepType DEF EndOfWalk, ListingFails, At, TypeOK, Steps, Examining, Reporting, uiVars
  <2>2. CASE SkipFile(t)
    <3>1. locked' \in SUBSET Files
      BY <2>2, EntryType DEF SkipFile, TypeOK
    <3>2. GoOn(t) /\ k' = k /\ disabledBy' = disabledBy
          /\ UNCHANGED <<alive, sigs, deleted, open, opens, list, ui, cursor, folder>>
      BY <2>2 DEF SkipFile, uiVars
    <3>. QED
      BY <3>1, <3>2, GoOnType DEF TypeOK
  <2>3. CASE CloseFile(t)
    <3>1. locked' \in SUBSET Files
      BY <2>3 DEF CloseFile, TypeOK
    <3>2. GoOn(t) /\ k' = k /\ disabledBy' = disabledBy
          /\ UNCHANGED <<alive, sigs, deleted, open, opens, list, ui, cursor, folder>>
      BY <2>3 DEF CloseFile, uiVars
    <3>. QED
      BY <3>1, <3>2, GoOnType DEF TypeOK
  <2>4. CASE HashFile(t)
    <3>1. Entry(t) \in Files /\ locked' \in SUBSET Files /\ ~AtEnd(t)
      BY <2>4, EntryType DEF HashFile, TypeOK
    <3>2. /\ pc' \in [Workers -> Steps] /\ k' \in [Workers -> Nat \ {0}]
          /\ \A u \in Workers : u # t => pc'[u] = pc[u]
      BY <2>4 DEF HashFile, TypeOK, Steps, Examining
    <3>. QED
      BY <2>4, <3>1, <3>2, WorkerStepType DEF HashFile, TypeOK, uiVars
  <2>5. CASE SendInsert(t)
    <3>1. Entry(t) \in Files /\ ~AtEnd(t)
      BY <2>5 DEF SendInsert, At, Examining, TypeOK
    <3>2. /\ pc' \in [Workers -> Steps]
          /\ \A u \in Workers : u # t => pc'[u] = pc[u]
      BY <2>5 DEF SendInsert, TypeOK, Steps, Examining, Reporting
    <3>. QED
      BY <2>5, <3>1, <3>2, WorkerStepType DEF SendInsert, TypeOK, uiVars
  <2>6. CASE NextSignature(t)
    <3>1. Entry(t) \in Files /\ ~AtEnd(t)
      BY <2>6 DEF NextSignature, At, Examining, TypeOK
    <3>2. k' \in [Workers -> Nat \ {0}]
      BY <2>6 DEF NextSignature, TypeOK
    <3>. QED
      BY <2>6, <3>1, <3>2, WorkerStepType DEF NextSignature, TypeOK, uiVars
  <2>. QED
    BY <1>2, <2>1, <2>2, <2>3, <2>4, <2>5, <2>6 DEF Worker
<1>3. ASSUME NEW t \in Workers, DismissBox(t)
      PROVE  TypeOK'
  <2>1. GoOn(t) /\ k' = k /\ locked' = locked
        /\ UNCHANGED <<alive, sigs, deleted, open, opens, list, ui, cursor, folder>>
    BY <1>3 DEF DismissBox
  <2>2. disabledBy' \in Workers \cup {Nobody}
    BY <1>3 DEF DismissBox, TypeOK
  <2>. QED
    BY <2>1, <2>2, GoOnType DEF TypeOK
<1>4. ASSUME NEW t \in Workers, Window(t)
      PROVE  TypeOK'
  <2>1. /\ pc[t] \in Reporting /\ ui = "pump"
        /\ pc' = [pc EXCEPT ![t] = Answered[@]]
        /\ UNCHANGED <<alive, sigs, open, opens, ui, cursor, disabledBy, locked, deleted,
                       folder, pos>>
    BY <1>4 DEF Window, AnswerInsert, AnswerPath, AnswerMD5, Answer, Reporting
  <2>2. Entry(t) \in Files
    BY <2>1 DEF Examining, TypeOK
  <2>3. k' \in [Workers -> Nat \ {0}]
    BY <1>4 DEF Window, AnswerInsert, AnswerPath, AnswerMD5, TypeOK
  <2>4. Answered[pc[t]] \in Examining
    BY <2>1 DEF Answered, Examining, Reporting
  <2>5. pc' \in [Workers -> Steps] /\ \A u \in Workers : pc'[u] \in Examining => pc[u] \in Examining
    BY <2>1, <2>4 DEF TypeOK, Steps, Examining
  <2>6. list \in Seq([path : Files \cup {NoText}, md5 : Digests]) /\ k[t] \in Nat \ {0}
    BY DEF TypeOK, Row
  <2>7. list' \in Seq([path : Files \cup {NoText}, md5 : Digests])
    BY <1>4, <2>2, <2>6, AnswerKeepsRows
  <2>8. list' \in Seq(Row)
    BY <2>7 DEF Row
  <2>. QED
    BY <2>1, <2>3, <2>5, <2>8, WindowType DEF TypeOK
<1>5. CASE ClickDelete \/ PassRow \/ EndDelete
  <2>1. /\ UNCHANGED <<alive, sigs, locked, deleted, open, opens, list, disabledBy>>
        /\ UNCHANGED <<folder, pc, pos, k>>
    BY <1>5 DEF ClickDelete, PassRow, EndDelete, workerVars
  <2>2. open' = open /\ cursor' \in Nat /\ ui' \in {"pump", "delete"}
    BY <1>5 DEF ClickDelete, PassRow, EndDelete, TypeOK
  <2>3. ui' = "delete" => open' /\ cursor' <= Len(list')
    BY <1>5 DEF ClickDelete, PassRow, EndDelete, Input, TypeOK
  <2>. QED
    BY <2>1, <2>2, <2>3, WindowType DEF TypeOK
<1>6. CASE DeleteRow
  <2>1. HasRow(list, cursor - 1) /\ cursor \in 1 .. Len(list)
    BY <1>6 DEF DeleteRow, HasRow, TypeOK
  <2>2. list' \in Seq(Row) /\ Len(list') = Len(list) - 1
    BY <1>6, <2>1, DeleteItemShrinks DEF DeleteRow, TypeOK
  <2>3. list[cursor] \in Row
    BY <2>1 DEF TypeOK
  <2>6. list[cursor].path \in Files \cup {NoText}
    BY <2>3 DEF Row
  <2>4. deleted' \in SUBSET Files
    BY <1>6, <2>6 DEF DeleteRow, Deletable, TypeOK
  <2>5. cursor' \in Nat /\ cursor' <= Len(list')
    BY <1>6, <2>1, <2>2 DEF DeleteRow, TypeOK
  <2>. QED
    BY <1>6, <2>2, <2>4, <2>5, WindowType DEF DeleteRow, TypeOK, workerVars
<1>7. CASE CloseX \/ CloseEsc
  <2>1. list' = <<>> /\ ui = "pump" /\ <<>> \in Seq(Row)
    BY <1>7 DEF CloseX, CloseEsc, Input, DestroyWindow
  <2>2. /\ pc' \in [Workers -> Steps]
        /\ \A t \in Workers : pc'[t] \in Examining => pc[t] \in Examining
    BY <1>7 DEF CloseX, CloseEsc, DestroyWindow, TypeOK, Steps, Stopped, Examining, Reporting
  <2>. QED
    BY <1>7, <2>1, <2>2, WindowType DEF CloseX, CloseEsc, DestroyWindow, TypeOK
<1>8. CASE UNCHANGED vars
  BY <1>8, WindowType DEF vars, uiVars, workerVars, TypeOK
<1>. QED
  BY <1>1, <1>2, <1>3, <1>4, <1>5, <1>6, <1>7, <1>8 DEF Next, User, Deleting

\* Every variable keeps its type, and the delete handler stays within the list.
THEOREM TypeCorrect == Spec => []TypeOK
BY InitType, NextType, PTL DEF Spec

-----------------------------------------------------------------------------
(* The delete button only deletes infected files.                           *)

\* A step that reports nothing new, loads nothing and only ever shortens the list.
LEMMA NothingReported ==
  ASSUME TypeOK, OnlyInfectedListed, sigs' = sigs, list' \in Seq(InfectedRow),
         \A t \in Workers : pc'[t] \in Reporting =>
            pc[t] \in Reporting /\ pos'[t] = pos[t] /\ folder'[t] = folder[t]
  PROVE  OnlyInfectedListed'
<1>1. Infected' = Infected /\ InfectedRow' = InfectedRow /\ Loaded' = Loaded
  BY DEF Infected, InfectedRow, Loaded, Digests
<1>2. sigs' \in Seq({Loaded[i] : i \in DOMAIN Loaded})
  BY DEF OnlyInfectedListed
<1>3. \A t \in Workers : pc'[t] \in Reporting => Entry(t)' \in Infected
  BY DEF OnlyInfectedListed, Entry
<1>. QED
  BY <1>1, <1>2, <1>3 DEF OnlyInfectedListed

LEMMA InitInfected == Init => OnlyInfectedListed /\ OnlyInfectedDeleted
<1> SUFFICES ASSUME Init PROVE OnlyInfectedListed /\ OnlyInfectedDeleted
  OBVIOUS
<1>1. sigs \in Seq({Loaded[i] : i \in DOMAIN Loaded}) /\ list \in Seq(InfectedRow)
  BY DEF Init
<1>2. \A t \in Workers : pc[t] \notin Reporting
  BY DEF Init, Reporting
<1>. QED
  BY <1>1, <1>2 DEF Init, OnlyInfectedListed, OnlyInfectedDeleted

LEMMA NextInfected ==
  TypeOK /\ OnlyInfectedListed /\ OnlyInfectedDeleted /\ [Next]_vars
    => OnlyInfectedListed' /\ OnlyInfectedDeleted'
<1> SUFFICES ASSUME TypeOK, OnlyInfectedListed, OnlyInfectedDeleted, [Next]_vars
             PROVE  OnlyInfectedListed' /\ OnlyInfectedDeleted'
  OBVIOUS
<1>a. Infected' = Infected
  BY DEF Infected, Loaded
<1>b. list \in Seq(InfectedRow)
  BY DEF OnlyInfectedListed
<1>1. CASE OpenDialog
  <2>1. sigs' = sigs \o Loaded /\ list' = <<>> /\ UNCHANGED <<deleted, folder, pos>>
    BY <1>1 DEF OpenDialog
  <2>2. sigs' \in Seq({Loaded[i] : i \in DOMAIN Loaded})
    <3> DEFINE L == {Loaded[i] : i \in DOMAIN Loaded}
    <3>1. sigs \in Seq(L) /\ Loaded \in Seq(L)
      BY LoadedType DEF OnlyInfectedListed
    <3> HIDE DEF L
    <3>2. sigs \o Loaded \in Seq(L)
      BY <3>1
    <3>. QED
      BY <2>1, <3>2 DEF L
  <2>3. \A t \in Workers : pc'[t] \in Reporting => pc[t] \in Reporting
    BY <1>1 DEF OpenDialog, TypeOK, Reporting
  <2>4. \A t \in Workers : pc'[t] \in Reporting => Entry(t)' \in Infected
    BY <2>1, <2>3 DEF OnlyInfectedListed, Entry
  <2>5. list' \in Seq(InfectedRow')
    BY <2>1
  <2>6. Loaded' = Loaded
    BY DEF Loaded
  <2>7. OnlyInfectedListed'
    BY <1>a, <2>2, <2>4, <2>5, <2>6 DEF OnlyInfectedListed
  <2>. QED
    BY <1>a, <2>1, <2>7 DEF OnlyInfectedDeleted
<1>2. ASSUME NEW t \in Workers, SendInsert(t)
      PROVE  OnlyInfectedListed' /\ OnlyInfectedDeleted'
  <2>1. Entry(t) \in Files
    BY <1>2 DEF SendInsert, At, Examining, TypeOK
  <2>2. k[t] \in DOMAIN sigs /\ sigs[k[t]] = Digest[Entry(t)]
    BY <1>2 DEF SendInsert, Matches, TypeOK
  <2>3. sigs[k[t]] \in {Loaded[i] : i \in DOMAIN Loaded}
    BY <2>2 DEF OnlyInfectedListed
  <2>4. Entry(t) \in Infected
    BY <2>1, <2>2, <2>3 DEF Infected
  <2>5. UNCHANGED <<sigs, list, deleted, folder, pos>>
    BY <1>2 DEF SendInsert, uiVars
  <2>6. \A u \in Workers : u # t => pc'[u] = pc[u]
    BY <1>2 DEF SendInsert, TypeOK
  <2>7. \A u \in Workers : pc'[u] \in Reporting => Entry(u)' \in Infected
    BY <2>4, <2>5, <2>6 DEF OnlyInfectedListed, Entry
  <2>8. InfectedRow' = InfectedRow /\ Loaded' = Loaded
    BY <1>a DEF InfectedRow, Loaded, Digests
  <2>. QED
    BY <1>a, <2>5, <2>7, <2>8 DEF OnlyInfectedListed, OnlyInfectedDeleted
<1>3. ASSUME NEW t \in Workers,
             EndOfWalk(t) \/ ListingFails(t) \/ SkipFile(t) \/ HashFile(t)
               \/ NextSignature(t) \/ CloseFile(t) \/ DismissBox(t)
      PROVE  OnlyInfectedListed' /\ OnlyInfectedDeleted'
  <2>1. UNCHANGED <<sigs, list, deleted, folder>>
    BY <1>3 DEF EndOfWalk, ListingFails, SkipFile, HashFile, NextSignature, CloseFile,
                DismissBox, uiVars
  <2>2. pc'[t] \notin Reporting
    BY <1>3 DEF EndOfWalk, ListingFails, SkipFile, HashFile, NextSignature, CloseFile,
                DismissBox, GoOn, At, TypeOK, Reporting
  <2>3. \A u \in Workers : u # t => pc'[u] = pc[u] /\ pos'[u] = pos[u]
    BY <1>3 DEF EndOfWalk, ListingFails, SkipFile, HashFile, NextSignature, CloseFile,
                DismissBox, GoOn, TypeOK
  <2>. QED
    BY <1>a, <1>b, <2>1, <2>2, <2>3, NothingReported DEF OnlyInfectedDeleted
<1>4. ASSUME NEW t \in Workers, Window(t)
      PROVE  OnlyInfectedListed' /\ OnlyInfectedDeleted'
  <2>1. /\ pc[t] \in Reporting /\ pc' = [pc EXCEPT ![t] = Answered[@]]
        /\ UNCHANGED <<sigs, deleted, folder, pos>>
    BY <1>4 DEF Window, AnswerInsert, AnswerPath, AnswerMD5, Answer, Reporting
  <2>2. Entry(t) \in Infected /\ Entry(t) \in Files /\ k[t] \in Nat \ {0}
    BY <2>1 DEF OnlyInfectedListed, Infected, TypeOK
  <2>3. list \in Seq([path : Infected \cup {NoText}, md5 : Digests])
    BY <1>b DEF InfectedRow
  <2>4. list' \in Seq([path : Infected \cup {NoText}, md5 : Digests])
    BY <1>4, <2>2, <2>3, AnswerKeepsRows
  <2>5. list' \in Seq(InfectedRow)
    BY <2>4 DEF InfectedRow
  <2>6. \A u \in Workers : pc'[u] \in Reporting => pc[u] \in Reporting
    BY <2>1 DEF TypeOK
  <2>7. OnlyInfectedListed'
    BY <2>1, <2>5, <2>6, NothingReported
  <2>. QED
    BY <1>a, <2>1, <2>7 DEF OnlyInfectedDeleted
<1>5. CASE DeleteRow
  <2>1. HasRow(list, cursor - 1) /\ cursor \in 1 .. Len(list)
    BY <1>5 DEF DeleteRow, HasRow, TypeOK
  <2>2. list' \in Seq(InfectedRow)
    BY <1>5, <1>b, <2>1, DeleteItemShrinks DEF DeleteRow
  <2>3. list[cursor] \in InfectedRow
    BY <1>b, <2>1
  <2>4. list[cursor].path \in Infected \cup {NoText}
    BY <2>3 DEF InfectedRow
  <2>5. deleted' \subseteq Infected
    BY <1>5, <2>4 DEF DeleteRow, Deletable, OnlyInfectedDeleted
  <2>6. UNCHANGED <<sigs, pc, pos, folder>>
    BY <1>5 DEF DeleteRow, workerVars
  <2>7. OnlyInfectedListed'
    BY <2>2, <2>6, NothingReported
  <2>. QED
    BY <1>a, <2>5, <2>7 DEF OnlyInfectedDeleted
<1>6. CASE ClickDelete \/ PassRow \/ EndDelete \/ UNCHANGED vars
  <2>1. UNCHANGED <<sigs, list, deleted, folder, pc, pos>>
    BY <1>6 DEF ClickDelete, PassRow, EndDelete, vars, uiVars, workerVars
  <2>. QED
    BY <1>a, <1>b, <2>1, NothingReported DEF OnlyInfectedDeleted
<1>7. CASE CloseX \/ CloseEsc
  <2>1. UNCHANGED <<sigs, deleted, folder, pos>> /\ list' = <<>>
    BY <1>7 DEF CloseX, CloseEsc, DestroyWindow
  <2>2. list' \in Seq(InfectedRow)
    BY <2>1
  <2>3. \A t \in Workers : pc'[t] \in Reporting => pc[t] \in Reporting
    BY <1>7 DEF CloseX, CloseEsc, TypeOK, Stopped, Reporting
  <2>. QED
    BY <1>a, <2>1, <2>2, <2>3, NothingReported DEF OnlyInfectedDeleted
<1>. QED
  BY <1>1, <1>2, <1>3, <1>4, <1>5, <1>6, <1>7 DEF Next, User, Deleting, Worker

\* Whatever order the worker fills rows in while the user deletes them, every path
\* in the list is that of an infected file.
THEOREM ListsOnlyInfected == Spec => []OnlyInfectedListed
<1>1. Init => TypeOK /\ OnlyInfectedListed /\ OnlyInfectedDeleted
  BY InitType, InitInfected
<1>2. TypeOK /\ OnlyInfectedListed /\ OnlyInfectedDeleted /\ [Next]_vars
        => TypeOK' /\ OnlyInfectedListed' /\ OnlyInfectedDeleted'
  BY NextType, NextInfected
<1>. QED
  BY <1>1, <1>2, PTL DEF Spec

\* The delete button never deletes a clean file: the rows it reads hold paths of
\* infected files only.
THEOREM DeletesOnlyInfected == Spec => []OnlyInfectedDeleted
<1>1. Init => TypeOK /\ OnlyInfectedListed /\ OnlyInfectedDeleted
  BY InitType, InitInfected
<1>2. TypeOK /\ OnlyInfectedListed /\ OnlyInfectedDeleted /\ [Next]_vars
        => TypeOK' /\ OnlyInfectedListed' /\ OnlyInfectedDeleted'
  BY NextType, NextInfected
<1>. QED
  BY <1>1, <1>2, PTL DEF Spec

-----------------------------------------------------------------------------
(* No file stays open for nothing.                                          *)

\* Worker t has file f open, or had when it was terminated.
Holds(t, f) == pc[t] \in Examining \cup {"killed"} /\ ~AtEnd(t) /\ Entry(t) = f

\* The worker of an opening that has not happened yet has done nothing.
NotYetStarted == \A t \in Workers : t > opens => pc[t] = "none"

LEMMA NextNotYetStarted == TypeOK /\ NotYetStarted /\ [Next]_vars => NotYetStarted'
<1> SUFFICES ASSUME TypeOK, NotYetStarted, [Next]_vars
             PROVE  NotYetStarted'
  OBVIOUS
<1>a. \A t \in Workers : t \in Nat /\ opens \in Nat
  BY ConstantsAssumption DEF Workers, TypeOK
<1>1. CASE OpenDialog
  BY <1>1, <1>a DEF OpenDialog, NotYetStarted, TypeOK
<1>2. ASSUME NEW t \in Workers, Worker(t) \/ Window(t) \/ DismissBox(t)
      PROVE  NotYetStarted'
  <2>1. pc[t] # "none" /\ opens' = opens
    BY <1>2 DEF Worker, Window, EndOfWalk, ListingFails, SkipFile, HashFile, SendInsert,
                NextSignature, CloseFile, AnswerInsert, AnswerPath, AnswerMD5, Answer,
                DismissBox, At, uiVars
  <2>2. \A u \in Workers : u # t => pc'[u] = pc[u]
    BY <1>2 DEF Worker, Window, EndOfWalk, ListingFails, SkipFile, HashFile, SendInsert,
                NextSignature, CloseFile, AnswerInsert, AnswerPath, AnswerMD5, Answer,
                DismissBox, GoOn, TypeOK
  <2>. QED
    BY <2>1, <2>2 DEF NotYetStarted
<1>3. CASE CloseX \/ CloseEsc
  BY <1>3, <1>a DEF CloseX, CloseEsc, DestroyWindow, NotYetStarted, TypeOK
<1>4. CASE Deleting \/ ClickDelete \/ UNCHANGED vars
  BY <1>4 DEF Deleting, DeleteRow, PassRow, EndDelete, ClickDelete, vars, workerVars,
              uiVars, NotYetStarted
<1>. QED
  BY <1>1, <1>2, <1>3, <1>4 DEF Next, User

\* A step that opens no file and takes no worker from the file it holds.
LEMMA HoldersStay ==
  ASSUME OpenFilesAccounted, locked' \subseteq locked, folder' = folder,
         \A t \in Workers : \A f \in locked' :
            Holds(t, f) => pc'[t] \in Examining \cup {"killed"} /\ pos'[t] = pos[t]
  PROVE  OpenFilesAccounted'
<1> SUFFICES ASSUME NEW f \in locked', f \notin TooLarge
             PROVE  \E t \in Workers : Holds(t, f)'
  BY DEF OpenFilesAccounted, Holds
<1>1. PICK t \in Workers : Holds(t, f)
  BY DEF OpenFilesAccounted, Holds
<1>2. Entry(t)' = Entry(t) /\ AtEnd(t)' = AtEnd(t) /\ pc'[t] \in Examining \cup {"killed"}
  BY <1>1 DEF Entry, AtEnd
<1>. QED
  BY <1>1, <1>2 DEF Holds

\* A step of worker t that takes it to its next entry.
LEMMA OthersHold ==
  ASSUME TypeOK, OpenFilesAccounted, NEW t \in Workers, folder' = folder,
         \A u \in Workers : u # t => pc'[u] = pc[u] /\ pos'[u] = pos[u],
         \A f \in locked' : (f \in locked /\ ~Holds(t, f)) \/ f \in TooLarge
  PROVE  OpenFilesAccounted'
<1> SUFFICES ASSUME NEW f \in locked', f \notin TooLarge
             PROVE  \E u \in Workers : Holds(u, f)'
  BY DEF OpenFilesAccounted, Holds
<1>1. PICK u \in Workers : Holds(u, f)
  BY DEF OpenFilesAccounted, Holds
<1>2. u # t
  BY <1>1
<1>3. Entry(u)' = Entry(u) /\ AtEnd(u)' = AtEnd(u) /\ pc'[u] = pc[u]
  BY <1>2 DEF Entry, AtEnd
<1>. QED
  BY <1>1, <1>3 DEF Holds

LEMMA NextAccounted ==
  TypeOK /\ NotYetStarted /\ OpenFilesAccounted /\ [Next]_vars => OpenFilesAccounted'
<1> SUFFICES ASSUME TypeOK, NotYetStarted, OpenFilesAccounted, [Next]_vars
             PROVE  OpenFilesAccounted'
  OBVIOUS
<1>1. CASE OpenDialog
  <2>1. UNCHANGED <<locked, folder, pos>>
    BY <1>1 DEF OpenDialog
  <2>2. opens + 1 \in Workers /\ pc[opens + 1] = "none"
    BY <1>1, ConstantsAssumption DEF OpenDialog, TypeOK, NotYetStarted, Workers
  <2>3. \A t \in Workers : t # opens + 1 => pc'[t] = pc[t]
    BY <1>1 DEF OpenDialog, TypeOK
  <2>4. \A t \in Workers : pc[t] \in Examining \cup {"killed"} => pc'[t] = pc[t]
    BY <2>2, <2>3 DEF Examining, Reporting
  <2>. QED
    BY <2>1, <2>4, HoldersStay DEF Holds
<1>2. ASSUME NEW t \in Workers,
             EndOfWalk(t) \/ ListingFails(t) \/ SendInsert(t) \/ NextSignature(t)
      PROVE  OpenFilesAccounted'
  <2>1. UNCHANGED <<locked, folder, pos>>
    BY <1>2 DEF EndOfWalk, ListingFails, SendInsert, NextSignature
  <2>2. \A u \in Workers : pc[u] \in Examining \cup {"killed"} =>
                           pc'[u] \in Examining \cup {"killed"}
    BY <1>2 DEF EndOfWalk, ListingFails, SendInsert, NextSignature, At, TypeOK,
                Examining, Reporting
  <2>. QED
    BY <2>1, <2>2, HoldersStay DEF Holds
<1>3. ASSUME NEW t \in Workers, SkipFile(t) \/ DismissBox(t)
      PROVE  OpenFilesAccounted'
  <2>1. folder' = folder /\ \A u \in Workers : u # t => pc'[u] = pc[u] /\ pos'[u] = pos[u]
    BY <1>3 DEF SkipFile, DismissBox, GoOn, TypeOK
  <2>2. \A f \in locked' : f \in locked \/ f \in TooLarge
    BY <1>3 DEF SkipFile, DismissBox
  <2>3. pc[t] \notin Examining \cup {"killed"}
    BY <1>3 DEF SkipFile, DismissBox, At, Examining, Reporting
  <2>. QED
    BY <2>1, <2>2, <2>3, OthersHold DEF Holds
<1>4. ASSUME NEW t \in Workers, HashFile(t)
      PROVE  OpenFilesAccounted'
  <2>1. /\ locked' = locked \cup {Entry(t)} /\ UNCHANGED <<folder, pos>>
        /\ ~AtEnd(t) /\ pc[t] = "walk"
    BY <1>4 DEF HashFile, At
  <2>2. pc'[t] = "match" /\ \A u \in Workers : u # t => pc'[u] = pc[u]
    BY <1>4 DEF HashFile, TypeOK
  <2>3. \A u \in Workers : Entry(u)' = Entry(u) /\ AtEnd(u)' = AtEnd(u)
    BY <2>1 DEF Entry, AtEnd
  <2>4. Holds(t, Entry(t))'
    BY <2>1, <2>2, <2>3 DEF Holds, Examining
  <2>5. \A u \in Workers : \A f \in Files : Holds(u, f) => Holds(u, f)'
    BY <2>1, <2>2, <2>3 DEF Holds, Examining, Reporting
  <2> SUFFICES ASSUME NEW f \in locked', f \notin TooLarge
               PROVE  \E u \in Workers : Holds(u, f)'
    BY DEF OpenFilesAccounted, Holds
  <2>6. CASE f = Entry(t)
    BY <2>3, <2>4, <2>6
  <2>7. CASE f \in locked
    <3>1. PICK u \in Workers : Holds(u, f)
      BY <2>7 DEF OpenFilesAccounted, Holds
    <3>2. f \in Files
      BY <2>7 DEF TypeOK
    <3>. QED
      BY <3>1, <3>2, <2>5
  <2>. QED
    BY <2>1, <2>6, <2>7
<1>5. ASSUME NEW t \in Workers, CloseFile(t)
      PROVE  OpenFilesAccounted'
  <2>1. folder' = folder /\ \A u \in Workers : u # t => pc'[u] = pc[u] /\ pos'[u] = pos[u]
    BY <1>5 DEF CloseFile, GoOn, TypeOK
  <2>2. \A f \in locked' : f \in locked /\ ~Holds(t, f)
    BY <1>5 DEF CloseFile, Holds
  <2>. QED
    BY <2>1, <2>2, OthersHold
<1>6. ASSUME NEW t \in Workers, Window(t)
      PROVE  OpenFilesAccounted'
  <2>1. /\ pc[t] \in Reporting /\ pc' = [pc EXCEPT ![t] = Answered[@]]
        /\ UNCHANGED <<locked, folder, pos>>
    BY <1>6 DEF Window, AnswerInsert, AnswerPath, AnswerMD5, Answer, Reporting
  <2>2. Answered[pc[t]] \in Examining
    BY <2>1 DEF Answered, Examining, Reporting
  <2>3. \A u \in Workers : pc[u] \in Examining \cup {"killed"} =>
                           pc'[u] \in Examining \cup {"killed"}
    BY <2>1, <2>2 DEF TypeOK
  <2>. QED
    BY <2>1, <2>3, HoldersStay DEF Holds
<1>7. CASE CloseX \/ CloseEsc
  <2>1. UNCHANGED <<locked, folder, pos>>
    BY <1>7 DEF CloseX, CloseEsc, DestroyWindow
  <2>2. \A u \in Workers : pc[u] \in Examining \cup {"killed"} =>
                           pc'[u] \in Examining \cup {"killed"}
    BY <1>7 DEF CloseX, CloseEsc, TypeOK, Stopped, Examining, Reporting
  <2>. QED
    BY <2>1, <2>2, HoldersStay DEF Holds
<1>8. CASE Deleting \/ ClickDelete \/ UNCHANGED vars
  <2>1. UNCHANGED <<locked, folder, pc, pos>>
    BY <1>8 DEF Deleting, DeleteRow, PassRow, EndDelete, ClickDelete, vars, workerVars
  <2>. QED
    BY <2>1, HoldersStay DEF Holds
<1>. QED
  BY <1>1, <1>2, <1>3, <1>4, <1>5, <1>6, <1>7, <1>8 DEF Next, User, Worker

\* A file is open only while a worker examines it, or for good because the worker
\* found it too large or was terminated while it held the file.
THEOREM AccountsForOpenFiles == Spec => []OpenFilesAccounted
<1>1. Init => TypeOK /\ NotYetStarted /\ OpenFilesAccounted
  BY InitType DEF Init, NotYetStarted, OpenFilesAccounted
<1>2. TypeOK /\ NotYetStarted /\ OpenFilesAccounted /\ [Next]_vars
        => TypeOK' /\ NotYetStarted' /\ OpenFilesAccounted'
  BY NextType, NextNotYetStarted, NextAccounted
<1>. QED
  BY <1>1, <1>2, PTL DEF Spec

-----------------------------------------------------------------------------
(* When only the first line of the library matches anything, every match is *)
(* put into a row of its own at the top of the list, and nothing is lost.   *)

\* True of the library the client writes, which has one line, and of no library with
\* two digests that are in use.
FirstLineOnly == \A f \in Files : \A i \in DOMAIN Loaded : Loaded[i] = Digest[f] => i = 1

Lists(f) == \E r \in DOMAIN list : list[r].path = f

\* Every entry worker 1 has left behind is listed if it should be.
LeftListed ==
  \A i \in 1 .. pos[1] - 1 :
    /\ i \in DOMAIN Walk[folder[1]]
    /\ Walk[folder[1]][i] \in Infected \ (TooLarge \cup Unreadable) => Lists(Walk[folder[1]][i])

\* Where worker 1 stands with its current entry, and what the top row holds then.
EntryInv ==
  /\ pc[1] = "match" /\ k[1] > 1 /\ Entry(1) \in Infected => Lists(Entry(1))
  /\ pc[1] \in Reporting => k[1] = 1
  /\ pc[1] = "path" => list # <<>> /\ list[1].path = NoText
  /\ pc[1] = "md5" => list # <<>> /\ list[1].path = Entry(1)
  /\ pc[1] = "box" => ~AtEnd(1) /\ Entry(1) = Denied
  /\ pc[1] = "done" => AtEnd(1)

FirstScan == opens = 1 /\ open

FirstScanInv ==
  /\ deleted = {} /\ ui = "pump"
  /\ opens = 0 => sigs = <<>> /\ ~open /\ \A t \in Workers : pos[t] = 1
  /\ FirstScan => sigs = Loaded /\ LeftListed /\ EntryInv

\* A listed file stays listed when a blank row is put on top of the list.
LEMMA InsertKeepsListed ==
  ASSUME NEW f, Lists(f), list \in Seq(Row), list' = InsertItem(list, 0, BlankRow)
  PROVE  Lists(f)'
<1>1. PICK r \in 1 .. Len(list) : list[r].path = f
  BY DEF Lists
<1>2. Len(list) \in Nat /\ 0 \in Nat /\ BlankRow \in Row
  BY DEF BlankRow, Row, Digests
<1>3. Len(list') = Len(list) + 1 /\ list' \in Seq(Row)
  BY <1>2, InsertItemGrows
<1>4. list'[r + 1] = list[r]
  BY <1>1, <1>2 DEF InsertItem
<1>5. r + 1 \in DOMAIN list'
  BY <1>1, <1>2, <1>3
<1>. QED
  BY <1>1, <1>4, <1>5 DEF Lists

\* Filling a column of the top row keeps what is listed, unless it overwrites a path.
LEMMA FillKeepsListed ==
  ASSUME NEW f, Lists(f), list \in Seq(Row), list # <<>>, NEW column, NEW text,
         list' = SetItemText(list, 0, column, text),
         column # "path" \/ list[1].path # f
  PROVE  Lists(f)'
<1>1. PICK r \in 1 .. Len(list) : list[r].path = f
  BY DEF Lists
<1>2. HasRow(list, 0) /\ Len(list) \in Nat
  BY DEF HasRow
<1>3. Len(list') = Len(list)
  BY SetItemTextKeepsLength
<1>4. DOMAIN list' = DOMAIN list
  BY <1>2 DEF SetItemText
<1>5. list'[r].path = list[r].path
  <2>1. CASE r = 1
    <3>1. list[1] \in Row
      BY <1>1, <2>1
    <3>2. "path" \in DOMAIN list[1] /\ column # "path"
      BY <1>1, <2>1, <3>1 DEF Row
    <3>. QED
      BY <1>2, <2>1, <3>2, SetItemTextRows
  <2>2. CASE r # 1
    BY <1>1, <1>2, <2>2, SetItemTextRows
  <2>. QED
    BY <2>1, <2>2
<1>. QED
  BY <1>1, <1>4, <1>5 DEF Lists

\* What worker 1 leaves behind stays listed when it stays at its entry.
LEMMA StaysAtEntry ==
  ASSUME LeftListed, UNCHANGED <<folder, pos>>,
         \A f \in Files : Lists(f) => Lists(f)'
  PROVE  LeftListed'
<1>1. Infected' = Infected /\ Infected \subseteq Files
  BY DEF Infected, Loaded
<1>. QED
  BY <1>1 DEF LeftListed

\* Worker 1 goes on to its next entry.
LEMMA GoesOn ==
  ASSUME TypeOK, LeftListed, 1 \in Workers, GoOn(1), ~AtEnd(1), UNCHANGED <<folder, list>>,
         Entry(1) \in Infected \ (TooLarge \cup Unreadable) => Lists(Entry(1))
  PROVE  LeftListed' /\ EntryInv'
<1>1. Infected' = Infected
  BY DEF Infected, Loaded
<1>2. pos'[1] = pos[1] + 1 /\ pc'[1] = "walk" /\ pos[1] \in Nat \ {0}
  BY DEF GoOn, TypeOK
<1>3. pos[1] \in DOMAIN Walk[folder[1]]
  <2>1. Walk[folder[1]] \in Seq(Files \cup {Denied})
    BY ConstantsAssumption DEF TypeOK
  <2>. QED
    BY <1>2, <2>1 DEF AtEnd
<1>4. \A i \in 1 .. pos'[1] - 1 : i \in 1 .. pos[1] - 1 \/ i = pos[1]
  BY <1>2
<1>5. \A f : Lists(f)' <=> Lists(f)
  BY DEF Lists
<1>6. LeftListed'
  BY <1>1, <1>3, <1>4, <1>5 DEF LeftListed, Entry
<1>7. EntryInv'
  BY <1>2 DEF EntryInv, Reporting
<1>. QED
  BY <1>6, <1>7

\* Steps of the window's thread and of the worker of a later opening say nothing about
\* a first scan: there is none after them.
LEMMA NoFirstScan ==
  ASSUME deleted' = {}, ui' = "pump", opens' # 0, ~(opens' = 1 /\ open')
  PROVE  FirstScanInv'
BY DEF FirstScanInv, FirstScan

\* One step of worker 1 during a first scan, or the answer to one of its messages.
LEMMA FirstWorker ==
  ASSUME FirstLineOnly, TypeOK, NotYetStarted, OpenFilesAccounted, FirstScanInv, FirstScan,
         1 \in Workers, Worker(1) \/ Window(1) \/ DismissBox(1)
  PROVE  LeftListed' /\ EntryInv'
<1>1. sigs = Loaded /\ LeftListed /\ EntryInv /\ deleted = {}
  BY DEF FirstScanInv
<1>2. /\ list \in Seq(Row) /\ pc[1] \in Steps /\ k[1] \in Nat \ {0} /\ Infected \subseteq Files
      /\ Infected' = Infected
  BY DEF TypeOK, Infected, Loaded
<1>3. CASE EndOfWalk(1)
  <2>1. UNCHANGED <<folder, pos, list>> /\ pc'[1] = "done" /\ AtEnd(1)'
    BY <1>3 DEF EndOfWalk, TypeOK, uiVars, AtEnd
  <2>. QED
    BY <1>1, <2>1, StaysAtEntry DEF Lists, EntryInv, Reporting
<1>4. CASE ListingFails(1)
  <2>1. UNCHANGED <<folder, pos, list>> /\ pc'[1] = "box" /\ ~AtEnd(1)' /\ Entry(1)' = Denied
    BY <1>4 DEF ListingFails, TypeOK, AtEnd, Entry
  <2>. QED
    BY <1>1, <2>1, StaysAtEntry DEF Lists, EntryInv, Reporting
<1>5. CASE DismissBox(1)
  <2>1. GoOn(1) /\ ~AtEnd(1) /\ Entry(1) = Denied /\ UNCHANGED <<folder, list>>
    BY <1>1, <1>5 DEF DismissBox, EntryInv, At
  <2>. QED
    BY <1>1, <1>2, <2>1, GoesOn, ConstantsAssumption
<1>6. CASE SkipFile(1)
  <2>1. GoOn(1) /\ ~AtEnd(1) /\ UNCHANGED <<folder, list>> /\ pc[1] = "walk"
    BY <1>6 DEF SkipFile, At, uiVars
  <2>2. \A u \in Workers : u # 1 => pc[u] = "none"
    BY ConstantsAssumption DEF FirstScan, NotYetStarted, Workers
  <2>3. Entry(1) \notin Infected \ (TooLarge \cup Unreadable)
    <3>1. CASE Entry(1) \in locked
      BY <2>1, <2>2, <3>1 DEF OpenFilesAccounted, Examining, Reporting
    <3>. QED
      BY <1>1, <1>6, <3>1 DEF SkipFile, CanOpen
  <2>. QED
    BY <1>1, <2>1, <2>3, GoesOn
<1>7. CASE HashFile(1)
  <2>1. UNCHANGED <<folder, pos, list>> /\ pc'[1] = "match" /\ k'[1] = 1
    BY <1>7 DEF HashFile, TypeOK, uiVars
  <2>. QED
    BY <1>1, <2>1, StaysAtEntry DEF Lists, EntryInv, Reporting
<1>8. CASE SendInsert(1)
  <2>1. UNCHANGED <<folder, pos, list, k>> /\ pc'[1] = "insert" /\ pc[1] = "match"
    BY <1>8 DEF SendInsert, At, TypeOK, uiVars
  <2>2. Entry(1) \in Files /\ k[1] \in DOMAIN Loaded /\ Loaded[k[1]] = Digest[Entry(1)]
    BY <1>1, <1>2, <1>8, <2>1, LoadedType DEF SendInsert, Matches, TypeOK, Examining
  <2>3. k[1] = 1
    BY <2>2 DEF FirstLineOnly
  <2>. QED
    BY <1>1, <2>1, <2>3, StaysAtEntry DEF Lists, EntryInv, Reporting
<1>9. CASE NextSignature(1)
  <2>1. UNCHANGED <<folder, pos, list, pc>> /\ k'[1] = k[1] + 1 /\ pc[1] = "match"
    BY <1>9 DEF NextSignature, At, TypeOK, uiVars
  <2>2. Entry(1)' = Entry(1) /\ Entry(1) \in Files
    BY <2>1 DEF Entry, TypeOK, Examining
  <2>3. Entry(1) \in Infected => k[1] > 1
    <3>1. SUFFICES ASSUME Entry(1) \in Infected, k[1] = 1 PROVE FALSE
      BY <1>2
    <3>2. PICK i \in DOMAIN Loaded : Loaded[i] = Digest[Entry(1)]
      BY <3>1 DEF Infected
    <3>3. i = 1
      BY <2>2, <3>2 DEF FirstLineOnly
    <3>4. 1 <= Len(sigs) /\ ~Matches(1)
      BY <1>9, <3>1 DEF NextSignature
    <3>. QED
      BY <1>1, <3>1, <3>2, <3>3, <3>4 DEF Matches
  <2>4. Entry(1) \in Infected => Lists(Entry(1))'
    BY <1>1, <2>1, <2>2, <2>3 DEF EntryInv, Lists
  <2>5. LeftListed'
    BY <1>1, <2>1, StaysAtEntry DEF Lists
  <2>. QED
    BY <1>2, <2>1, <2>2, <2>4, <2>5 DEF EntryInv, Reporting
<1>10. CASE CloseFile(1)
  <2>1. GoOn(1) /\ UNCHANGED <<folder, list>> /\ pc[1] = "match" /\ k[1] > Len(sigs)
    BY <1>10 DEF CloseFile, At, uiVars
  <2>2. Entry(1) \in Files /\ ~AtEnd(1)
    BY <2>1 DEF TypeOK, Examining
  <2>3. Entry(1) \in Infected => Lists(Entry(1))
    <3>1. Len(Loaded) >= 1
      <4>1. Library \in Seq(Digests)
        BY ConstantsAssumption DEF Digests
      <4>. QED
        BY <4>1 DEF Loaded
    <3>. QED
      BY <1>1, <2>1, <1>2, <3>1, LoadedType DEF EntryInv
  <2>. QED
    BY <1>1, <2>1, <2>2, <2>3, GoesOn
<1>11. CASE Window(1)
  <2>1. /\ pc[1] \in Reporting /\ pc'[1] = Answered[pc[1]] /\ UNCHANGED <<folder, pos>>
    BY <1>11 DEF Window, AnswerInsert, AnswerPath, AnswerMD5, Answer, Reporting, TypeOK
  <2>2. k[1] = 1 /\ Place(1) = 0
    BY <1>1, <2>1 DEF EntryInv, Place
  <2>3. Entry(1)' = Entry(1) /\ Entry(1) \in Files
    BY <2>1 DEF Entry, TypeOK, Examining
  <2>4. open /\ 1 = opens
    BY DEF FirstScan
  <2>5. CASE AnswerInsert(1)
    <3>1. list' = InsertItem(list, 0, BlankRow) /\ pc'[1] = "path" /\ k' = k
      BY <2>1, <2>2, <2>4, <2>5 DEF AnswerInsert, Answer, Answered
    <3>2. Len(list') = Len(list) + 1 /\ Len(list) \in Nat /\ list'[1] = BlankRow
      <4>1. BlankRow \in Row /\ 0 \in Nat
        BY DEF BlankRow, Row, Digests
      <4>2. Len(list') = Len(list) + 1 /\ Len(list) \in Nat
        BY <1>2, <3>1, <4>1, InsertItemGrows
      <4>. QED
        BY <3>1, <4>2 DEF InsertItem
    <3>3. LeftListed'
      BY <1>1, <1>2, <2>1, <3>1, InsertKeepsListed, StaysAtEntry
    <3>. QED
      BY <2>2, <3>1, <3>2, <3>3 DEF EntryInv, BlankRow
  <2>6. CASE AnswerPath(1)
    <3>1. /\ list' = SetItemText(list, 0, "path", Entry(1)) /\ pc'[1] = "md5" /\ k' = k
          /\ list # <<>> /\ list[1].path = NoText
      BY <1>1, <2>1, <2>2, <2>4, <2>6 DEF AnswerPath, Answer, Answered, EntryInv
    <3>2. \A f \in Files : Lists(f) => Lists(f)'
      BY <1>2, <3>1, FillKeepsListed, ConstantsAssumption
    <3>3. LeftListed'
      BY <1>1, <2>1, <3>2, StaysAtEntry
    <3>4. HasRow(list, 0) /\ "path" \in DOMAIN list[1]
      <4>1. Len(list) \in Nat /\ Len(list) # 0 /\ list[1] \in Row
        BY <1>2, <3>1
      <4>2. HasRow(list, 0)
        BY <4>1 DEF HasRow
      <4>. QED
        BY <4>1, <4>2 DEF Row
    <3>5. list'[1].path = Entry(1) /\ list' # <<>>
      BY <1>2, <3>1, <3>4, SetItemTextRows, SetItemTextKeepsLength
    <3>. QED
      BY <2>2, <2>3, <3>1, <3>3, <3>5 DEF EntryInv
  <2>7. CASE AnswerMD5(1)
    <3>1. /\ list' = SetItemText(list, 0, "md5", Digest[Entry(1)]) /\ pc'[1] = "match"
          /\ list # <<>> /\ list[1].path = Entry(1)
      BY <1>1, <2>1, <2>2, <2>4, <2>7 DEF AnswerMD5, Answer, Answered, EntryInv
    <3>2. \A f \in Files : Lists(f) => Lists(f)'
      BY <1>2, <3>1, FillKeepsListed
    <3>3. LeftListed'
      BY <1>1, <2>1, <3>2, StaysAtEntry
    <3>4. Lists(Entry(1))
      BY <1>2, <3>1 DEF Lists
    <3>5. Lists(Entry(1))'
      BY <2>3, <3>2, <3>4 DEF Lists
    <3>. QED
      BY <3>1, <3>3, <3>5 DEF EntryInv, Reporting
  <2>. QED
    BY <1>11, <2>5, <2>6, <2>7 DEF Window
<1>. QED
  BY <1>3, <1>4, <1>5, <1>6, <1>7, <1>8, <1>9, <1>10, <1>11 DEF Worker

LEMMA NextFirstScan ==
  ASSUME FirstLineOnly, ~MayDelete
  PROVE  TypeOK /\ NotYetStarted /\ OpenFilesAccounted /\ FirstScanInv /\ [Next]_vars
           => FirstScanInv'
<1> SUFFICES ASSUME TypeOK, NotYetStarted, OpenFilesAccounted, FirstScanInv, [Next]_vars
             PROVE  FirstScanInv'
  OBVIOUS
<1>a. deleted = {} /\ ui = "pump" /\ opens \in Nat
  BY ConstantsAssumption DEF FirstScanInv, TypeOK
<1>1. CASE OpenDialog
  <2>1. deleted' = {} /\ ui' = "pump" /\ opens' = opens + 1 /\ open'
    BY <1>1, <1>a DEF OpenDialog
  <2>2. CASE opens = 0
    <3>1. sigs' = Loaded
      <4>1. sigs = <<>> /\ sigs' = sigs \o Loaded
        BY <1>1, <2>2 DEF OpenDialog, FirstScanInv
      <4> HIDE DEF Loaded
      <4>. QED
        BY <4>1, LoadedType
    <3>2. 1 \in Workers
      BY <1>1, <2>2, ConstantsAssumption DEF OpenDialog, Workers
    <3>3. pos'[1] = 1 /\ pc'[1] = "walk"
      BY <1>1, <2>2, <3>2 DEF OpenDialog, TypeOK, FirstScanInv
    <3>4. LeftListed' /\ EntryInv'
      BY <3>3 DEF LeftListed, EntryInv, Reporting
    <3>5. Loaded' = Loaded
      BY DEF Loaded
    <3>. QED
      BY <2>1, <2>2, <3>1, <3>4, <3>5 DEF FirstScanInv
  <2>. QED
    BY <1>a, <2>1, <2>2, NoFirstScan
<1>2. ASSUME NEW t \in Workers, Worker(t) \/ Window(t) \/ DismissBox(t)
      PROVE  FirstScanInv'
  <2>1. pc[t] # "none" /\ UNCHANGED <<sigs, deleted, ui, open, opens>>
    BY <1>2 DEF Worker, Window, EndOfWalk, ListingFails, SkipFile, HashFile, SendInsert,
                NextSignature, CloseFile, AnswerInsert, AnswerPath, AnswerMD5, Answer,
                DismissBox, At, uiVars
  <2>2. t \in Nat /\ 1 <= t /\ t <= opens
    BY <1>a, <2>1, ConstantsAssumption DEF NotYetStarted, Workers
  <2>3. CASE FirstScan
    <3>1. t = 1
      BY <2>2, <2>3 DEF FirstScan
    <3>2. LeftListed' /\ EntryInv'
      BY <1>2, <2>3, <3>1, FirstWorker
    <3>3. Loaded' = Loaded
      BY DEF Loaded
    <3>. QED
      BY <1>a, <2>1, <2>2, <2>3, <3>2, <3>3 DEF FirstScanInv, FirstScan
  <2>. QED
    BY <1>a, <2>1, <2>2, <2>3, NoFirstScan DEF FirstScan
<1>3. CASE ClickDelete \/ Deleting
  BY <1>3, <1>a DEF ClickDelete, Deleting, DeleteRow, PassRow, EndDelete
<1>4. CASE CloseX \/ CloseEsc
  <2>1. deleted' = {} /\ ui' = "pump" /\ opens' = opens /\ open' = FALSE /\ opens # 0
    BY <1>4, <1>a DEF CloseX, CloseEsc, Input, DestroyWindow, FirstScanInv
  <2>. QED
    BY <2>1, NoFirstScan
<1>5. CASE UNCHANGED vars
  BY <1>5 DEF vars, uiVars, workerVars, FirstScanInv, FirstScan, LeftListed, EntryInv, Lists,
              Entry, AtEnd, Infected, Loaded
<1>. QED
  BY <1>1, <1>2, <1>3, <1>4, <1>5 DEF Next, User

\* When only the first line of the library matches files, as in the library the client
\* writes (CVirusDefenceDialog.cpp:134-146), the infected files of the folder are listed
\* when the worker of a first scan has ended, whatever listing errors and files too
\* large to examine it met: what run ByPathListed refutes needs two lines.
THEOREM ListsAllOfFirstLine == FirstLineOnly => (Spec => []InfectedListed)
<1> SUFFICES ASSUME FirstLineOnly PROVE Spec => []InfectedListed
  OBVIOUS
<1>1. CASE MayDelete
  <2>1. InfectedListed
    BY <1>1 DEF InfectedListed
  <2>. QED
    BY <2>1, PTL
<1>2. CASE ~MayDelete
  <2>1. Init => TypeOK /\ NotYetStarted /\ OpenFilesAccounted /\ FirstScanInv
    BY InitType DEF Init, NotYetStarted, OpenFilesAccounted, FirstScanInv, FirstScan
  <2>2. TypeOK /\ NotYetStarted /\ OpenFilesAccounted /\ FirstScanInv /\ [Next]_vars
          => TypeOK' /\ NotYetStarted' /\ OpenFilesAccounted' /\ FirstScanInv'
    BY <1>2, NextType, NextNotYetStarted, NextAccounted, NextFirstScan
  <2>3. TypeOK /\ FirstScanInv => InfectedListed
    <3> SUFFICES ASSUME TypeOK, FirstScanInv, FirstScan, pc[1] = "done",
                        NEW i \in DOMAIN Walk[folder[1]],
                        Walk[folder[1]][i] \in Infected \ (TooLarge \cup Unreadable)
                 PROVE  Lists(Walk[folder[1]][i])
      BY DEF InfectedListed, FirstScan, Lists
    <3>1. LeftListed /\ AtEnd(1)
      BY DEF FirstScanInv, EntryInv
    <3>2. 1 \in Workers
      BY ConstantsAssumption DEF FirstScan, TypeOK, Workers
    <3>3. Walk[folder[1]] \in Seq(Files \cup {Denied}) /\ pos[1] \in Nat
      BY <3>2, ConstantsAssumption DEF TypeOK
    <3>4. i \in 1 .. pos[1] - 1
      BY <3>1, <3>3 DEF AtEnd
    <3>. QED
      BY <3>1, <3>4 DEF LeftListed
  <2>. QED
    BY <2>1, <2>2, <2>3, PTL DEF Spec
<1>. QED
  BY <1>1, <1>2
=============================================================================
