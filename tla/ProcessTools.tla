---------------------------- MODULE ProcessTools ----------------------------
(***************************************************************************)
(* The process list of the main window with its menu                        *)
(* (ProcessMangerAlphaDlg), the blacklist (CBlacklistDialog) and the heap   *)
(* dialog with its worker (CHeapDialog).  Processes start and exit at any   *)
(* time and ids are used again.  A blank text reads as the id 0, the idle   *)
(* process, which nobody can end.                                           *)
(***************************************************************************)
EXTENDS AppShell

CONSTANTS
  Pids,        \* process ids other than 0
  Own,         \* the id of ProcessMangerAlpha
  Protected,   \* ids of processes OpenProcess refuses
  MaxStarts,   \* bound: processes started
  MaxListed,   \* bound: rows of the blacklist
  MaxHeaps,    \* bound: openings of the heap dialog
  MaxBlocks    \* bound: heap blocks of a process

ASSUME ProcessAssumption ==
  /\ Pids \subseteq Nat \ {0} /\ IsFiniteSet(Pids)
  /\ Own \in Pids /\ Protected \subseteq Pids \ {Own}
  /\ {MaxStarts, MaxListed, MaxHeaps, MaxBlocks} \subseteq Nat

VARIABLES
  process,     \* process[p]: which process has the id p, 0 for none
  starts,      \* processes numbered so far
  mainRows,    \* the main window's list
  procID,      \* g_ProcID
  procRows,    \* the blacklist dialog's list of processes
  blackRows,   \* its blacklist
  blackCount,  \* blackListCount
  kill,        \* the kill handler: its snapshot, the matches still to be answered
  heapWin,     \* the heap window in front, 0 for none, and the id it is for
  heapRows,    \* its rows
  heapWork     \* the workers: program counter, id, blocks found and shown

procVars == <<process, starts, mainRows, procID, procRows, blackRows, blackCount,
              kill, heapWin, heapRows, heapWork>>
worldVars == <<process, starts>>
mainVars == <<mainRows, procID>>
blackVars == <<procRows, blackRows, blackCount, kill>>
heapVars == <<heapWin, heapRows, heapWork>>

Ids == Pids \cup {0}
NoKill == [ids |-> <<>>, snap |-> [p \in Pids |-> 0], left |-> {}]
NoHeap == [number |-> 0, id |-> 0]
Unstarted == [pc |-> "none", id |-> 0, blocks |-> 0, shown |-> 0]

\* A snapshot lists the idle process and what runs.
Running == {p \in Pids : process[p] # 0}
Snapshot == <<0>> \o SetToSeq(Running)
Rows(ids) == [i \in DOMAIN ids |-> [id |-> ids[i]]]

ProcInit ==
  /\ process = [p \in Pids |-> 1] /\ starts = 1
  /\ mainRows = Rows(Snapshot) /\ procID = 0
  /\ procRows = <<>> /\ blackRows = <<>> /\ blackCount = 0 /\ kill = NoKill
  /\ heapWin = NoHeap /\ heapRows = <<>> /\ heapWork = [n \in 1 .. MaxHeaps |-> Unstarted]

-----------------------------------------------------------------------------
(* Other processes.                                                         *)

Starts(p) ==
  /\ process[p] = 0 /\ starts <= MaxStarts
  /\ starts' = starts + 1 /\ process' = [process EXCEPT ![p] = starts']
  /\ UNCHANGED <<shell, mainVars, blackVars, heapVars>>

Exits(p) ==
  /\ p # Own /\ process[p] # 0 /\ process' = [process EXCEPT ![p] = 0]
  /\ UNCHANGED <<shell, starts, mainVars, blackVars, heapVars>>

\* OpenProcess with all rights and TerminateProcess, both unchecked.
Ended(id) ==
  IF id \in Pids \ Protected THEN [process EXCEPT ![id] = 0] ELSE process

\* The program itself may be among them.
Survives(dialog) == IF process'[Own] = 0 THEN "ended" ELSE dialog

-----------------------------------------------------------------------------
(* The main window.                                                         *)

\* A CString that one thread assigns while another copies it may be freed under
\* the copy: the program may end.
RightClickProcess(r) ==
  /\ modal = "main" /\ nRow' = r
  /\ procID' = GetItemText(mainRows, r, "id", 0)
  /\ \/ modal' = "menu"
     \/ modal' = "ended" /\ \E n \in DOMAIN heapWork : heapWork[n].pc = "copy"
  /\ UNCHANGED <<tools, worldVars, mainRows, blackVars, heapVars>>

DismissMenu == modal = "menu" /\ MoveTo("main") /\ UNCHANGED procVars

\* Mutant of EndProcess: the id is read from the list after the row is gone.
EndProcessOfNextRow ==
  /\ modal = "menu" /\ mainRows' = DeleteItem(mainRows, nRow)
  /\ process' = Ended(GetItemText(mainRows', nRow, "id", 0))
  /\ modal' = Survives("main")
  /\ UNCHANGED <<tools, nRow, starts, procID, blackVars, heapVars>>

EndProcess ==
  /\ modal = "menu"
  /\ process' = Ended(procID) /\ mainRows' = DeleteItem(mainRows, nRow)
  /\ modal' = Survives("main")
  /\ UNCHANGED <<tools, nRow, starts, procID, blackVars, heapVars>>

-----------------------------------------------------------------------------
(* The blacklist (opened from the anti-virus dialog).                       *)

OpenBlacklist ==
  /\ modal = "main" /\ "blacklist" \in tools /\ MoveTo("blacklist")
  /\ procRows' = Rows(Snapshot) /\ blackRows' = <<>> /\ blackCount' = 0 /\ kill' = NoKill
  /\ UNCHANGED <<worldVars, mainVars, heapVars>>

\* Inserted and filled at row blackListCount.
DoubleClick(r) ==
  /\ modal = "blacklist" /\ Len(blackRows) < MaxListed
  /\ LET grown == InsertItem(blackRows, blackCount, [id |-> 0])
     IN blackRows' = SetItemText(grown, blackCount, "id", GetItemText(procRows, r, "id", 0))
  /\ blackCount' = blackCount + 1
  /\ UNCHANGED <<shell, worldVars, mainVars, procRows, kill, heapVars>>

\* The rows are passed from the last to the first; k of them have been passed.
Without(rows, ticked) ==
  LET left[k \in 0 .. Len(rows)] ==
        IF k = 0 THEN [rows |-> rows, count |-> blackCount]
        ELSE IF Len(rows) - k + 1 \in ticked
             THEN [rows |-> DeleteItem(left[k - 1].rows, Len(rows) - k),
                   count |-> left[k - 1].count - 1]
             ELSE left[k - 1]
  IN left[Len(rows)]

\* Mutant of RemoveTicked: the counter goes down by one, whatever was ticked.
RemoveTickedOnce(ticked) ==
  /\ modal = "blacklist" /\ ticked # {}
  /\ blackRows' = Without(blackRows, ticked).rows /\ blackCount' = blackCount - 1
  /\ UNCHANGED <<shell, worldVars, mainVars, procRows, kill, heapVars>>

RemoveTicked(ticked) ==
  /\ modal = "blacklist"
  /\ LET left == Without(blackRows, ticked)
     IN blackRows' = left.rows /\ blackCount' = left.count
  /\ UNCHANGED <<shell, worldVars, mainVars, procRows, kill, heapVars>>

\* The rows that match an id, by number: the first blackListCount are compared.
Listed(id) == {j \in 0 .. blackCount - 1 : GetItemText(blackRows, j, "id", 0) = id}

\* Mutant of Matches: the search ends with the first process that is listed.
MatchesFirst(ids) ==
  {m \in (DOMAIN ids) \X (0 .. blackCount - 1) :
     m[2] \in Listed(ids[m[1]]) /\ \A k \in 1 .. m[1] - 1 : Listed(ids[k]) = {}}

\* Every process of the snapshot is compared with every row: the pairs that match.
Matches(ids) == {m \in (DOMAIN ids) \X (0 .. blackCount - 1) : m[2] \in Listed(ids[m[1]])}

\* The order of the two loops.
NoLater(m, n) == m[1] < n[1] \/ (m[1] = n[1] /\ m[2] <= n[2])

\* A box precedes each match, from the first.
ClickKill ==
  /\ modal = "blacklist"
  /\ kill' = [ids |-> Snapshot, snap |-> process, left |-> Matches(Snapshot)]
  /\ MoveTo(IF kill'.left = {} THEN "blacklist" ELSE "killbox")
  /\ UNCHANGED <<worldVars, mainVars, procRows, blackRows, blackCount, heapVars>>

\* The box is answered and the process that has the id now is ended.
AnswerBox ==
  /\ modal = "killbox"
  /\ \E m \in kill.left :
       /\ \A n \in kill.left : NoLater(m, n)
       /\ process' = Ended(kill.ids[m[1]]) /\ kill' = [kill EXCEPT !.left = @ \ {m}]
  /\ modal' = Survives(IF kill'.left = {} THEN "blacklist" ELSE "killbox")
  /\ UNCHANGED <<tools, nRow, starts, mainVars, procRows, blackRows, blackCount, heapVars>>

CloseBlacklist ==
  /\ modal = "blacklist" /\ MoveTo("main")
  /\ procRows' = <<>> /\ blackRows' = <<>> /\ blackCount' = 0 /\ kill' = NoKill
  /\ UNCHANGED <<worldVars, mainVars, heapVars>>

-----------------------------------------------------------------------------
(* The heap dialog.  Its worker copies g_ProcID when it gets to run.        *)

OpenHeap ==
  LET n == Cardinality({k \in DOMAIN heapWork : heapWork[k].pc # "none"}) + 1
  IN /\ modal = "menu" /\ "heap" \in tools /\ n <= MaxHeaps
     /\ MoveTo("heap")
     /\ heapWin' = [number |-> n, id |-> procID] /\ heapRows' = <<>>
     /\ heapWork' = [heapWork EXCEPT ![n].pc = "start"]
     /\ UNCHANGED <<worldVars, mainVars, blackVars>>

HeapStart(n) ==
  /\ heapWork[n].pc = "start" /\ heapWork' = [heapWork EXCEPT ![n].pc = "copy"]
  /\ UNCHANGED <<shell, worldVars, mainVars, blackVars, heapWin, heapRows>>

HeapSnapshot(n) ==
  /\ heapWork[n].pc = "copy"
  /\ \E found \in 0 .. MaxBlocks :
       heapWork' = [heapWork EXCEPT ![n] = [pc |-> "rows", id |-> procID,
                                            blocks |-> found, shown |-> 0]]
  /\ UNCHANGED <<shell, worldVars, mainVars, blackVars, heapWin, heapRows>>

\* Mutant of HeapRow: the rows go to the heap window in front.
HeapRowInFront(n) ==
  LET w == heapWork[n]
  IN /\ w.pc = "rows" /\ w.shown < w.blocks
     /\ heapWork' = [heapWork EXCEPT ![n].shown = w.shown + 1]
     /\ heapRows' = IF modal = "heap"
                    THEN InsertItem(heapRows, w.shown, [id |-> w.id, block |-> w.shown + 1])
                    ELSE heapRows
     /\ UNCHANGED <<shell, worldVars, mainVars, blackVars, heapWin>>

\* A block is shown in a row of the worker's own window, if that is still there.
HeapRow(n) ==
  LET w == heapWork[n]
  IN /\ w.pc = "rows" /\ w.shown < w.blocks
     /\ heapWork' = [heapWork EXCEPT ![n].shown = w.shown + 1]
     /\ heapRows' = IF modal = "heap" /\ heapWin.number = n
                    THEN InsertItem(heapRows, w.shown, [id |-> w.id, block |-> w.shown + 1])
                    ELSE heapRows
     /\ UNCHANGED <<shell, worldVars, mainVars, blackVars, heapWin>>

HeapEnd(n) ==
  /\ heapWork[n].pc = "rows" /\ heapWork[n].shown = heapWork[n].blocks
  /\ heapWork' = [heapWork EXCEPT ![n].pc = "done"]
  /\ UNCHANGED <<shell, worldVars, mainVars, blackVars, heapWin, heapRows>>

HeapWorker(n) == HeapStart(n) \/ HeapSnapshot(n) \/ HeapRow(n) \/ HeapEnd(n)

\* OnClose ends the worker; Escape and Enter do not come by it.
CloseHeap(ends) ==
  /\ modal = "heap" /\ MoveTo("main")
  /\ heapWin' = NoHeap /\ heapRows' = <<>>
  /\ heapWork' = IF ends /\ heapWork[heapWin.number].pc # "done"
                 THEN [heapWork EXCEPT ![heapWin.number].pc = "killed"] ELSE heapWork
  /\ UNCHANGED <<worldVars, mainVars, blackVars>>

ProcStep ==
  /\ "process" \in tools
  /\ \/ \E p \in Pids : Starts(p) \/ Exits(p)
     \/ \E r \in Clickable(mainRows) : RightClickProcess(r)
     \/ DismissMenu \/ EndProcess
     \/ OpenBlacklist \/ CloseBlacklist \/ ClickKill \/ AnswerBox
     \/ \E r \in Clickable(procRows) : DoubleClick(r)
     \/ \E ticked \in SUBSET DOMAIN blackRows : RemoveTicked(ticked)
     \/ OpenHeap \/ CloseHeap(TRUE) \/ CloseHeap(FALSE)
     \/ \E n \in DOMAIN heapWork : HeapWorker(n)

-----------------------------------------------------------------------------
(* Properties.                                                              *)

ProcTypeOK ==
  /\ process \in [Pids -> 0 .. MaxStarts + 1] /\ procID \in Ids
  /\ blackCount \in 0 .. MaxListed /\ kill.ids \in Seq(Ids)
  /\ \A i \in DOMAIN mainRows : mainRows[i].id \in Ids
  /\ \A i \in DOMAIN blackRows : blackRows[i].id \in Ids
  /\ \A n \in DOMAIN heapWork :
       heapWork[n] \in [pc : {"none", "start", "copy", "rows", "done", "killed"}, id : Ids,
                        blocks : 0 .. MaxBlocks, shown : 0 .. MaxBlocks]

\* The counter the blacklist inserts at and compares up to is the number of its rows,
\* through blank rows, repeated ids and removals (CBlacklistDialog.cpp, 79 and 154).
BlackCountRight == modal \in {"blacklist", "killbox"} => blackCount = Len(blackRows)

\* Whatever the program ends was chosen: it has the id of the row that goes with it,
\* or of a row of the blacklist (ProcessMangerAlphaDlg.cpp, 317; CBlacklistDialog.cpp, 103).
EndsOnlyChosen ==
  [][<<modal, mainRows, kill>>' # <<modal, mainRows, kill>> =>
       \A p \in Pids : process[p] # 0 /\ process'[p] = 0 =>
         \/ modal = "menu" /\ mainRows[nRow + 1].id = p
         \/ modal = "killbox" /\ \E i \in DOMAIN blackRows : blackRows[i].id = p]_<<shell, procVars>>

\* When the kill handler returns, every process of its snapshot with an id in the
\* blacklist is gone, unless it is protected, whatever started and exited while the
\* boxes were up (CBlacklistDialog.cpp, 100 to 111).
KillReachesAll ==
  [][modal = "killbox" /\ modal' = "blacklist" =>
       \A p \in Pids \ Protected :
         kill.snap[p] # 0 /\ (\E i \in DOMAIN blackRows : blackRows[i].id = p) =>
           process'[p] # kill.snap[p]]_<<shell, procVars>>

\* An open heap window shows the blocks of the process it was opened for, in their
\* order, and all of them when its worker is done, whatever an earlier window's worker
\* does (CHeapDialog.cpp, 66 to 97).
HeapShown ==
  modal = "heap" =>
    LET w == heapWork[heapWin.number]
    IN /\ heapRows = [i \in 1 .. w.shown |-> [id |-> heapWin.id, block |-> i]]
       /\ w.pc = "done" => w.shown = w.blocks

=============================================================================
