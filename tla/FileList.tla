------------------------------ MODULE FileList ------------------------------
(***************************************************************************)
(* The file list (CFilesDialog): a worker walks a folder, inserts rows      *)
(* counted anew in every folder, and after each folder gives every row of   *)
(* the list its icon.  Nothing stops the worker when its window closes.     *)
(***************************************************************************)
EXTENDS FolderWalk

CONSTANTS
  FileWalk,      \* the walk of the folder
  NoIcon,        \* a row that has no icon yet
  MaxFileLists   \* bound: openings

ASSUME WalkAssumption == MaxFileLists \in Nat /\ IsWalk(FileWalk)

VARIABLES
  fileWin,    \* the window in front, 0 for none
  fileRows,   \* its list
  fileWork    \* the workers: program counter, place in the walk, row counters

fileVars == <<fileWin, fileRows, fileWork>>

Walked == {FileWalk[k] : k \in DOMAIN FileWalk} \ Marks
FileInit ==
  /\ fileWin = 0 /\ fileRows = <<>>
  /\ fileWork = [n \in 1 .. MaxFileLists |-> [pc |-> "none", at |-> 0, counters |-> <<>>]]

OpenFiles ==
  LET n == Cardinality({k \in DOMAIN fileWork : fileWork[k].pc # "none"}) + 1
  IN /\ modal = "main" /\ "files" \in tools /\ n <= MaxFileLists
     /\ MoveTo("files") /\ fileWin' = n /\ fileRows' = <<>>
     /\ fileWork' = [fileWork EXCEPT ![n] = [pc |-> "walk", at |-> 1, counters |-> <<0>>]]

\* A worker's error box is owned by its window, which waits for it.
CloseFiles ==
  /\ modal = "files" /\ fileWork[fileWin].pc # "box" /\ MoveTo("main")
  /\ fileWin' = 0 /\ fileRows' = <<>> /\ UNCHANGED fileWork

Here(n) == FileWalk[fileWork[n].at]
Walking(n) == fileWork[n].pc = "walk" /\ fileWork[n].at <= Len(FileWalk)
Further(n, counters) ==
  fileWork' = [fileWork EXCEPT ![n].at = @ + 1, ![n].counters = counters, ![n].pc = "walk"]

\* What the worker of the window in front does to the list; others reach none.
Changes(n, rows) == fileRows' = IF modal = "files" /\ fileWin = n THEN rows ELSE fileRows

\* Mutant of NameRow: the texts go to the last row.
NameRowLast(counter) == Len(fileRows)

\* The texts go to the row that was inserted.
NameRow(counter) == counter

ShowFile(n) ==
  LET i == Head(fileWork[n].counters)
      grown == InsertItem(fileRows, i, [file |-> NoIcon, icon |-> NoIcon])
  IN /\ Walking(n) /\ Here(n) \notin Marks
     /\ Changes(n, SetItemText(grown, NameRow(i), "file", Here(n)))
     /\ Further(n, <<i + 1>> \o Tail(fileWork[n].counters))
     /\ UNCHANGED <<shell, fileWin>>

EnterFolder(n) ==
  /\ Walking(n) /\ Here(n) = In /\ Further(n, <<0>> \o fileWork[n].counters)
  /\ UNCHANGED <<shell, fileWin, fileRows>>

\* The icons of all rows; only this worker writes to the list.
WithIcons(rows) == [i \in DOMAIN rows |-> [rows[i] EXCEPT !.icon = rows[i].file]]

LeaveFolder(n) ==
  /\ Walking(n) /\ Here(n) = Out
  /\ Changes(n, WithIcons(fileRows)) /\ Further(n, Tail(fileWork[n].counters))
  /\ UNCHANGED <<shell, fileWin>>

FolderDenied(n) ==
  /\ Walking(n) /\ Here(n) = Denied /\ fileWork' = [fileWork EXCEPT ![n].pc = "box"]
  /\ UNCHANGED <<shell, fileWin, fileRows>>

\* Mutant of AnswerFileBox: the folder is tried again.
AnswerFileBoxRetries(n) ==
  /\ fileWork[n].pc = "box"
  /\ Changes(n, WithIcons(fileRows)) /\ fileWork' = [fileWork EXCEPT ![n].pc = "walk"]
  /\ UNCHANGED <<shell, fileWin>>

AnswerFileBox(n) ==
  /\ fileWork[n].pc = "box"
  /\ Changes(n, WithIcons(fileRows)) /\ Further(n, fileWork[n].counters)
  /\ UNCHANGED <<shell, fileWin>>

EndWalk(n) ==
  /\ fileWork[n].pc = "walk" /\ fileWork[n].at > Len(FileWalk)
  /\ Changes(n, WithIcons(fileRows)) /\ fileWork' = [fileWork EXCEPT ![n].pc = "done"]
  /\ UNCHANGED <<shell, fileWin>>

FileWorker(n) ==
  \/ ShowFile(n) \/ EnterFolder(n) \/ LeaveFolder(n) \/ FolderDenied(n)
  \/ AnswerFileBox(n) \/ EndWalk(n)

FileStep ==
  /\ "files" \in tools
  /\ OpenFiles \/ CloseFiles \/ \E n \in DOMAIN fileWork : FileWorker(n)

-----------------------------------------------------------------------------
(* Properties.                                                              *)

FileTypeOK ==
  /\ fileWin \in 0 .. MaxFileLists
  /\ \A i \in DOMAIN fileRows : fileRows[i].file \in Walked \cup {NoIcon}
  /\ \A n \in DOMAIN fileWork :
       /\ fileWork[n].pc \in {"none", "walk", "box", "done"}
       /\ fileWork[n].at \in 0 .. Len(FileWalk) + 1

\* When a window's worker is done the window lists every file of the walk once, each
\* with its own icon, although rows are counted anew in every sub-folder and icons
\* were given to rows that moved since (CFilesDialog.cpp, 78 to 143).
AllFilesListed ==
  modal = "files" /\ fileWork[fileWin].pc = "done" =>
    /\ Len(fileRows) = Cardinality(Walked)
    /\ {fileRows[i].file : i \in DOMAIN fileRows} = Walked
    /\ \A i \in DOMAIN fileRows : fileRows[i].icon = fileRows[i].file

=============================================================================
