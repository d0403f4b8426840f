--------------------------- MODULE ProjectCleaner ---------------------------
(***************************************************************************)
(* The project cleaner (CVSCleanerDialog): two edit fields with members     *)
(* behind them, a vector of suffixes read out of one, a scan of the folder  *)
(* in the other and the deletion of ticked rows.  Other programs write and  *)
(* remove files at any time.                                                *)
(***************************************************************************)
EXTENDS FolderWalk

CONSTANTS
  Folders,     \* folders; the blank path is the root of the drive
  NoPath,
  Found,       \* the walk of a folder, hidden files left out
  Postfixes,
  NoSuffix,    \* an empty piece of text, which is in every name
  Matching,    \* the files whose names contain a suffix, at any place
  Locked,      \* files that cannot be deleted
  Default,     \* strDefaultPostfix
  TypedTexts   \* bound: the suffix texts a user types

Files == (UNION {ToSet(Found[d]) : d \in Folders}) \ Marks

\* A text: the pieces that end in a backslash, and what follows the last one.
Text == [pieces : Seq(Postfixes), tail : Postfixes]

ASSUME CleanerAssumption ==
  /\ NoPath \in Folders /\ NoSuffix \in Postfixes
  /\ \A d \in Folders : IsWalk(Found[d])
  /\ Matching \in [Postfixes -> SUBSET Files] /\ Matching[NoSuffix] = Files
  /\ Default \in Text /\ TypedTexts \subseteq Text

VARIABLES
  disk,        \* the files there are
  edits,       \* what the edit fields show: text and path
  strPostfix,
  strProjPath,
  postfixVt,
  delRows,     \* the list
  scan,        \* the scan: folder, suffixes (as it began), place in the walk, row counters
               \* of the folders it is in; and the files it met, for the properties
  deleting     \* the delete handler: the row it is at, 0 when it is not running

cleanVars == <<disk, edits, strPostfix, strProjPath, postfixVt, delRows, scan, deleting>>
formVars == <<edits, strPostfix, strProjPath, postfixVt>>

NoScan == [folder |-> NoPath, suffixes |-> <<>>, at |-> 0, counters |-> <<>>, met |-> {}]
EmptyText == [pieces |-> <<>>, tail |-> NoSuffix]

CleanInit ==
  /\ disk = Files
  /\ edits = [text |-> EmptyText, path |-> NoPath] /\ strPostfix = EmptyText
  /\ strProjPath = NoPath /\ postfixVt = <<>>
  /\ delRows = <<>> /\ scan = NoScan /\ deleting = 0

\* Another program.
Written(f) ==
  /\ modal # "main" /\ disk' = IF f \in disk THEN disk \ {f} ELSE disk \cup {f}
  /\ UNCHANGED <<shell, formVars, delRows, scan, deleting>>

OpenCleaner ==
  /\ modal = "main" /\ "cleaner" \in tools /\ MoveTo("cleaner")
  /\ edits' = [text |-> Default, path |-> NoPath] /\ strPostfix' = Default
  /\ strProjPath' = NoPath /\ postfixVt' = <<>>
  /\ UNCHANGED <<disk, delRows, scan, deleting>>

CloseCleaner ==
  /\ modal = "cleaner" /\ deleting = 0 /\ MoveTo("main")
  /\ edits' = [text |-> EmptyText, path |-> NoPath] /\ strPostfix' = EmptyText
  /\ strProjPath' = NoPath /\ postfixVt' = <<>>
  /\ delRows' = <<>> /\ scan' = NoScan /\ UNCHANGED <<disk, deleting>>

Idle == modal = "cleaner" /\ deleting = 0

\* UpdateData(FALSE) shows the members, whatever the fields held.
PickFolder(d) ==
  /\ Idle /\ strProjPath' = d /\ edits' = [text |-> strPostfix, path |-> d]
  /\ UNCHANGED <<shell, disk, strPostfix, postfixVt, delRows, scan, deleting>>

RestoreDefault ==
  /\ Idle /\ strPostfix' = Default /\ edits' = [text |-> Default, path |-> strProjPath]
  /\ UNCHANGED <<shell, disk, strProjPath, postfixVt, delRows, scan, deleting>>

TypeSuffixes(text) ==
  /\ Idle /\ edits' = [edits EXCEPT !.text = text]
  /\ UNCHANGED <<shell, disk, strPostfix, strProjPath, postfixVt, delRows, scan, deleting>>

TypePath(d) ==
  /\ Idle /\ edits' = [edits EXCEPT !.path = d]
  /\ UNCHANGED <<shell, disk, strPostfix, strProjPath, postfixVt, delRows, scan, deleting>>

\* The members are read from the fields; the pieces go to the vector and out of
\* strPostfix, while the field goes on showing them.
ReadSuffixes ==
  /\ Idle /\ strProjPath' = edits.path
  /\ postfixVt' = edits.text.pieces
  /\ strPostfix' = [pieces |-> <<>>, tail |-> edits.text.tail]
  /\ UNCHANGED <<shell, disk, edits, delRows, scan, deleting>>

\* Mutant of ClickScan: the rows of the last scan stay.
ClickScanKeepsRows ==
  /\ Idle /\ MoveTo("scanning") /\ delRows' = delRows
  /\ scan' = [folder |-> strProjPath, suffixes |-> postfixVt, at |-> 1, counters |-> <<0>>,
              met |-> {}]
  /\ UNCHANGED <<disk, formVars, deleting>>

\* The handler runs to its end before the next click; only the box of a folder that
\* cannot be listed waits for the user.
ClickScan ==
  /\ Idle /\ MoveTo("scanning") /\ delRows' = <<>>
  /\ scan' = [folder |-> strProjPath, suffixes |-> postfixVt, at |-> 1, counters |-> <<0>>,
              met |-> {}]
  /\ UNCHANGED <<disk, formVars, deleting>>

Scanned == Found[scan.folder]
Reached == Scanned[scan.at]
Scanning == modal = "scanning" /\ scan.at <= Len(Scanned)
ScanOn(counters, met) ==
  scan' = [scan EXCEPT !.at = @ + 1, !.counters = counters, !.met = met]

\* Mutant of PathRow: the texts go to the last row.
PathRowLast(counter) == Len(delRows)

\* The texts go to the row that was inserted.
PathRow(counter) == counter

\* The first suffix that matches ends the search.
HasSuffix(f) == \E k \in DOMAIN scan.suffixes : f \in Matching[scan.suffixes[k]]

\* A file of the walk that is still there and matches: a blank row at the counter of its
\* folder, which is counted anew in every folder, then the texts of that row.
ScanFile ==
  LET f == Reached
      i == Head(scan.counters)
      grown == InsertItem(delRows, i, [path |-> NoPath])
  IN /\ Scanning /\ f \notin Marks /\ f \in disk /\ HasSuffix(f)
     /\ delRows' = SetItemText(grown, PathRow(i), "path", f)
     /\ ScanOn(<<i + 1>> \o Tail(scan.counters), scan.met \cup {f})
     /\ UNCHANGED <<shell, disk, formVars, deleting>>

\* A file that is gone or does not match.
PassFile ==
  /\ Scanning /\ Reached \notin Marks /\ ~(Reached \in disk /\ HasSuffix(Reached))
  /\ ScanOn(scan.counters, scan.met \cup ({Reached} \cap disk))
  /\ UNCHANGED <<shell, disk, formVars, delRows, deleting>>

EnterSub ==
  /\ Scanning /\ Reached = In /\ ScanOn(<<0>> \o scan.counters, scan.met)
  /\ UNCHANGED <<shell, disk, formVars, delRows, deleting>>

LeaveSub ==
  /\ Scanning /\ Reached = Out /\ ScanOn(Tail(scan.counters), scan.met)
  /\ UNCHANGED <<shell, disk, formVars, delRows, deleting>>

ScanDenied ==
  /\ Scanning /\ Reached = Denied /\ MoveTo("scanbox")
  /\ UNCHANGED cleanVars

AnswerScanBox ==
  /\ modal = "scanbox" /\ MoveTo("scanning") /\ ScanOn(scan.counters, scan.met)
  /\ UNCHANGED <<disk, formVars, delRows, deleting>>

EndScan ==
  /\ modal = "scanning" /\ scan.at > Len(Scanned) /\ MoveTo("cleaner")
  /\ UNCHANGED cleanVars

\* Mutant of ClickConfirm: the loop begins one row too far.
ClickConfirmPast ==
  /\ Idle /\ deleting' = Len(delRows) + 1
  /\ UNCHANGED <<shell, disk, formVars, delRows, scan>>

\* Confirm: from the last row to the first.
ClickConfirm ==
  /\ Idle /\ deleting' = Len(delRows)
  /\ UNCHANGED <<shell, disk, formVars, delRows, scan>>

\* The row is ticked: its file is deleted, if it can be, and the row goes.
DeleteFile ==
  /\ modal = "cleaner" /\ deleting > 0
  /\ disk' = disk \ ({delRows[deleting].path} \ Locked)
  /\ delRows' = DeleteItem(delRows, deleting - 1)
  /\ deleting' = deleting - 1
  /\ UNCHANGED <<shell, formVars, scan>>

KeepFile ==
  /\ modal = "cleaner" /\ deleting > 0 /\ deleting' = deleting - 1
  /\ UNCHANGED <<shell, disk, formVars, delRows, scan>>

CleanStep ==
  /\ "cleaner" \in tools
  /\ \/ OpenCleaner \/ CloseCleaner \/ RestoreDefault \/ ReadSuffixes
     \/ \E f \in Files : Written(f)
     \/ \E d \in Folders : PickFolder(d) \/ TypePath(d)
     \/ \E text \in TypedTexts : TypeSuffixes(text)
     \/ ClickScan \/ ScanFile \/ PassFile \/ EnterSub \/ LeaveSub \/ ScanDenied
     \/ AnswerScanBox \/ EndScan \/ ClickConfirm \/ DeleteFile \/ KeepFile

-----------------------------------------------------------------------------
(* Properties.                                                              *)

CleanTypeOK ==
  /\ disk \subseteq Files /\ {edits.path, strProjPath, scan.folder} \subseteq Folders
  /\ {edits.text, strPostfix} \subseteq Text /\ postfixVt \in Seq(Postfixes)
  /\ \A i \in DOMAIN delRows : delRows[i].path \in Files \cup {NoPath}
  /\ deleting \in 0 .. Len(delRows)

\* The files of the scanned folder that matched the suffixes the scan began with.
Wanted ==
  {f \in Files : /\ \E k \in DOMAIN Scanned : Scanned[k] = f
                 /\ \E k \in DOMAIN scan.suffixes : f \in Matching[scan.suffixes[k]]}

\* The files the scan has come by, while they were there, that match.
Sought == {f \in scan.met : \E k \in DOMAIN scan.suffixes : f \in Matching[scan.suffixes[k]]}

\* While a scan runs, and while its box is up, the list holds one row for every file the
\* scan came by that matches, with the path of that file, although rows are inserted and
\* filled at a number that every sub-folder counts anew (CVSCleanerDialog.cpp, 125 to 159).
ScanListsOnce ==
  modal \in {"scanning", "scanbox"} =>
    /\ Len(delRows) = Cardinality(Sought)
    /\ {delRows[i].path : i \in DOMAIN delRows} = Sought

\* The delete handler deletes only files the scan had matched, in the folder and with
\* the suffixes of that scan, whatever was picked, typed or read since and whatever
\* other programs did to the folder (CVSCleanerDialog.cpp, 102 to 107 and 172 to 186).
OnlyScannedDeleted ==
  [][deleting' < deleting => disk \ disk' \subseteq Wanted]_<<shell, cleanVars>>

=============================================================================
