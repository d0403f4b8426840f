----------------------------- MODULE ByPathScan -----------------------------
(***************************************************************************)
(* The scan of a chosen folder (CByPathKillingDialog).  One worker per      *)
(* opening walks the folder and reports a match with signature number i at  *)
(* row i of the list; the user may at any time tick rows and press the      *)
(* delete button, which deletes their files and removes the rows from the   *)
(* bottom up, or close the dialog.  The worker holds a file open while it   *)
(* examines it, so the file cannot be deleted meanwhile.                    *)
(***************************************************************************)
EXTENDS Integers, Sequences, FiniteSets, ListControl

CONSTANTS
  Folders,     \* folders the picker may return; a cancelled picker returns ""
  Files,
  Denied,      \* walk entry: a directory that cannot be listed
  Walk,        \* [Folders -> Seq(Files \cup {Denied})]
  Unreadable,  \* files that cannot be opened, whoever has them open
  TooLarge,    \* files whose size, modulo 4 GiB, is 2 GiB or more
  Digest,      \* [Files -> hash text]
  Library,     \* the lines of the signature file
  NoText,      \* the empty text
  Nobody,      \* no worker
  MayDelete,   \* the user uses the delete button
  MaxOpens     \* bound: how often the dialog is opened

ASSUME ConstantsAssumption ==
  /\ Walk \in [Folders -> Seq(Files \cup {Denied})]
  /\ Denied \notin Files /\ NoText \notin Files
  /\ Unreadable \subseteq Files /\ TooLarge \subseteq Files
  /\ DOMAIN Digest = Files
  /\ NoText \notin {Digest[f] : f \in Files}
  /\ Library \in Seq({Digest[f] : f \in Files} \cup {NoText})
  /\ MayDelete \in BOOLEAN /\ MaxOpens \in Nat

\* One worker per opening.
Workers == 1 .. MaxOpens

ASSUME NobodyAssumption == Nobody \notin Workers

VARIABLES
  alive,       \* the process has not died
  open, opens, \* the window exists; how often the dialog was opened
  list,        \* the rows of the window's list
  sigs,        \* global localbyVirusVt
  ui,          \* the window's thread: "pump" or "delete" (in the delete handler)
  cursor,      \* the delete handler's loop variable
  locked,      \* files open without sharing
  deleted,     \* files deleted from the disk
  disabledBy,  \* the worker whose error box disabled the window
  folder, pc, pos, k  \* per worker: its folder, step, entry, signature

uiVars == <<open, opens, list, ui, cursor, disabledBy>>
workerVars == <<folder, pc, pos, k>>
vars == <<alive, sigs, locked, deleted, uiVars, workerVars>>

Answered == [insert |-> "path", path |-> "md5", md5 |-> "match"]
Reporting == {"insert", "path", "md5"}
Examining == Reporting \cup {"match"}
Steps == {"none", "walk", "box", "done", "killed"} \cup Examining
Stopped == {"none", "done", "killed"}

Digests == {Digest[f] : f \in Files} \cup {NoText}
Row == [path : Files \cup {NoText}, md5 : Digests]
BlankRow == [path |-> NoText, md5 |-> NoText]

Entry(t) == Walk[folder[t]][pos[t]]
AtEnd(t) == pos[t] > Len(Walk[folder[t]])

Init ==
  /\ alive = TRUE /\ open = FALSE /\ opens = 0 /\ list = <<>>
  /\ sigs = <<>> /\ ui = "pump" /\ cursor = 0
  /\ locked = {} /\ deleted = {} /\ disabledBy = Nobody
  /\ folder \in [Workers -> Folders]
  /\ pc = [t \in Workers |-> "none"]
  /\ pos = [t \in Workers |-> 1]
  /\ k = [t \in Workers |-> 1]

-----------------------------------------------------------------------------
(* The window's thread.                                                     *)

Loaded == IF Library = <<>> THEN <<NoText>> ELSE Library

\* The library is appended to what earlier openings loaded, which may end the
\* process when a worker that outlived its window reads the vector.
OpenDialog ==
  /\ alive /\ ~open /\ opens < MaxOpens
  /\ sigs' = sigs \o Loaded
  /\ alive' \in {TRUE, ~ \E t \in Workers : pc[t] = "match"}
  /\ open' = TRUE /\ opens' = opens + 1 /\ list' = <<>> /\ disabledBy' = Nobody
  /\ pc' = [pc EXCEPT ![opens + 1] = "walk"]
  /\ UNCHANGED <<ui, cursor, locked, deleted, folder, pos, k>>

\* The thread of a window handles a worker's message unless it runs a handler.
Answer(t, effect) ==
  /\ alive /\ ui = "pump"
  /\ list' = IF open /\ t = opens THEN effect ELSE list
  /\ pc' = [pc EXCEPT ![t] = Answered[@]]
  /\ UNCHANGED <<alive, sigs, open, opens, ui, cursor, disabledBy, locked, deleted,
                 folder, pos>>

\* Rows are addressed by the number of the signature.
Place(t) == k[t] - 1

AnswerInsert(t) ==
  /\ pc[t] = "insert" /\ Answer(t, InsertItem(list, Place(t), BlankRow))
  /\ UNCHANGED k

AnswerPath(t) ==
  /\ pc[t] = "path" /\ Answer(t, SetItemText(list, Place(t), "path", Entry(t)))
  /\ UNCHANGED k

AnswerMD5(t) ==
  /\ pc[t] = "md5" /\ Answer(t, SetItemText(list, Place(t), "md5", Digest[Entry(t)]))
  /\ k' = [k EXCEPT ![t] = @ + 1]

Input == alive /\ open /\ ui = "pump" /\ disabledBy = Nobody

ClickDelete ==
  /\ Input /\ MayDelete
  /\ ui' = "delete" /\ cursor' = Len(list)
  /\ UNCHANGED <<alive, sigs, locked, deleted, open, opens, list, disabledBy, workerVars>>

Deletable(f) == f # NoText /\ f \notin locked

\* The row at the cursor is ticked: whether its file could be deleted or not, the row
\* goes.
DeleteRow ==
  /\ alive /\ ui = "delete" /\ cursor > 0
  /\ LET f == list[cursor].path
     IN deleted' = IF Deletable(f) THEN deleted \cup {f} ELSE deleted
  /\ list' = DeleteItem(list, cursor - 1)
  /\ cursor' = cursor - 1
  /\ UNCHANGED <<alive, sigs, locked, open, opens, ui, disabledBy, workerVars>>

PassRow ==
  /\ alive /\ ui = "delete" /\ cursor > 0
  /\ cursor' = cursor - 1
  /\ UNCHANGED <<alive, sigs, locked, deleted, open, opens, list, ui, disabledBy, workerVars>>

EndDelete ==
  /\ alive /\ ui = "delete" /\ cursor = 0
  /\ ui' = "pump"
  /\ UNCHANGED <<alive, sigs, locked, deleted, open, opens, list, cursor, disabledBy, workerVars>>

DestroyWindow ==
  /\ open' = FALSE /\ list' = <<>>
  /\ UNCHANGED <<alive, sigs, locked, deleted, opens, ui, cursor, disabledBy, folder, pos, k>>

\* OnClose; what the worker held open stays open.
CloseX ==
  /\ Input
  /\ pc' = [pc EXCEPT ![opens] = IF @ \in Stopped THEN @ ELSE "killed"]
  /\ DestroyWindow

\* Escape and Enter end the dialog without a WM_CLOSE.
CloseEsc == Input /\ UNCHANGED pc /\ DestroyWindow

-----------------------------------------------------------------------------
(* A worker.                                                                *)

At(t, step) == alive /\ pc[t] = step

GoOn(t) ==
  /\ pos' = [pos EXCEPT ![t] = @ + 1]
  /\ pc' = [pc EXCEPT ![t] = "walk"]

EndOfWalk(t) ==
  /\ At(t, "walk") /\ AtEnd(t)
  /\ pc' = [pc EXCEPT ![t] = "done"]
  /\ UNCHANGED <<alive, sigs, locked, deleted, uiVars, folder, pos, k>>

ListingFails(t) ==
  /\ At(t, "walk") /\ ~AtEnd(t) /\ Entry(t) = Denied
  /\ pc' = [pc EXCEPT ![t] = "box"]
  /\ disabledBy' = IF open /\ t = opens /\ disabledBy = Nobody THEN t ELSE disabledBy
  /\ UNCHANGED <<alive, sigs, locked, deleted, open, opens, list, ui, cursor, folder, pos, k>>

DismissBox(t) ==
  /\ At(t, "box")
  /\ disabledBy' = IF disabledBy = t THEN Nobody ELSE disabledBy
  /\ GoOn(t)
  /\ UNCHANGED <<alive, sigs, locked, deleted, open, opens, list, ui, cursor, folder, k>>

CanOpen(f) == f \notin Unreadable /\ f \notin locked /\ f \notin deleted

\* Mutant of SkipFile: the walk does not advance over what it cannot examine.
SkipFileStays(t) ==
  /\ At(t, "walk") /\ ~AtEnd(t) /\ Entry(t) # Denied
  /\ ~CanOpen(Entry(t)) \/ Entry(t) \in TooLarge
  /\ UNCHANGED <<alive, sigs, locked, deleted, uiVars, workerVars>>

\* The size of a file that cannot be opened is 0xFFFFFFFF, which counts as too large;
\* a file that is too large stays open.
SkipFile(t) ==
  /\ At(t, "walk") /\ ~AtEnd(t) /\ Entry(t) # Denied
  /\ ~CanOpen(Entry(t)) \/ Entry(t) \in TooLarge
  /\ locked' = IF CanOpen(Entry(t)) THEN locked \cup {Entry(t)} ELSE locked
  /\ GoOn(t)
  /\ UNCHANGED <<alive, sigs, deleted, uiVars, folder, k>>

\* Mutant of HashFile: a listing that failed is examined like a file.
HashAnything(t) ==
  /\ At(t, "walk") /\ ~AtEnd(t)
  /\ CanOpen(Entry(t)) /\ Entry(t) \notin TooLarge
  /\ locked' = locked \cup {Entry(t)}
  /\ k' = [k EXCEPT ![t] = 1]
  /\ pc' = [pc EXCEPT ![t] = "match"]
  /\ UNCHANGED <<alive, sigs, deleted, uiVars, folder, pos>>

HashFile(t) ==
  /\ At(t, "walk") /\ ~AtEnd(t) /\ Entry(t) # Denied
  /\ CanOpen(Entry(t)) /\ Entry(t) \notin TooLarge
  /\ locked' = locked \cup {Entry(t)}
  /\ k' = [k EXCEPT ![t] = 1]
  /\ pc' = [pc EXCEPT ![t] = "match"]
  /\ UNCHANGED <<alive, sigs, deleted, uiVars, folder, pos>>

\* Mutant of Matches: the signature is assigned, not compared.
MatchesAnything(t) == k[t] <= Len(sigs) /\ sigs[k[t]] # NoText

Matches(t) == k[t] <= Len(sigs) /\ sigs[k[t]] = Digest[Entry(t)]

SendInsert(t) ==
  /\ At(t, "match") /\ Matches(t)
  /\ pc' = [pc EXCEPT ![t] = "insert"]
  /\ UNCHANGED <<alive, sigs, locked, deleted, uiVars, folder, pos, k>>

NextSignature(t) ==
  /\ At(t, "match") /\ k[t] <= Len(sigs) /\ ~Matches(t)
  /\ k' = [k EXCEPT ![t] = @ + 1]
  /\ UNCHANGED <<alive, sigs, locked, deleted, uiVars, folder, pc, pos>>

\* Mutant of CloseFile: the handle is not closed.
CloseFileForgotten(t) ==
  /\ At(t, "match") /\ k[t] > Len(sigs)
  /\ GoOn(t)
  /\ UNCHANGED <<alive, sigs, locked, deleted, uiVars, folder, k>>

CloseFile(t) ==
  /\ At(t, "match") /\ k[t] > Len(sigs)
  /\ locked' = locked \ {Entry(t)}
  /\ GoOn(t)
  /\ UNCHANGED <<alive, sigs, deleted, uiVars, folder, k>>

Worker(t) ==
  \/ EndOfWalk(t) \/ ListingFails(t) \/ SkipFile(t) \/ HashFile(t)
  \/ SendInsert(t) \/ NextSignature(t) \/ CloseFile(t)

Window(t) == AnswerInsert(t) \/ AnswerPath(t) \/ AnswerMD5(t)

Deleting == DeleteRow \/ PassRow \/ EndDelete

User == OpenDialog \/ ClickDelete \/ CloseX \/ CloseEsc

Next == User \/ Deleting \/ \E t \in Workers : Worker(t) \/ Window(t) \/ DismissBox(t)

Spec == Init /\ [][Next]_vars

(* The worker is scheduled, the window's thread runs its handlers and pumps *)
(* messages in between, and the user answers error boxes.  That the delete  *)
(* handler runs again and again does not starve a worker's message: sent    *)
(* messages go before the input that would start the handler.               *)
FairSpec ==
  /\ Spec /\ WF_vars(Deleting)
  /\ \A t \in Workers :
       WF_vars(Worker(t)) /\ SF_vars(Window(t)) /\ WF_vars(DismissBox(t))

-----------------------------------------------------------------------------
(* Properties.                                                              *)

TypeOK ==
  /\ alive \in BOOLEAN /\ open \in BOOLEAN /\ opens \in 0 .. MaxOpens
  /\ list \in Seq(Row)
  /\ sigs \in Seq(Digests)
  /\ ui \in {"pump", "delete"} /\ cursor \in Nat
  /\ ui = "delete" => open /\ cursor <= Len(list)
  /\ locked \in SUBSET Files /\ deleted \in SUBSET Files
  /\ disabledBy \in Workers \cup {Nobody}
  /\ folder \in [Workers -> Folders]
  /\ pc \in [Workers -> Steps]
  /\ pos \in [Workers -> Nat \ {0}] /\ k \in [Workers -> Nat \ {0}]
  /\ \A t \in Workers : pc[t] \in Examining => ~AtEnd(t) /\ Entry(t) \in Files

\* Files whose hash is in the library.
Infected == {f \in Files : \E i \in DOMAIN Loaded : Loaded[i] = Digest[f]}

\* The delete button never deletes a clean file, although rows move under the worker
\* that fills them and a text may end up in the row of another match.
OnlyInfectedDeleted == deleted \subseteq Infected

InfectedRow == [path : Infected \cup {NoText}, md5 : Digests]

\* What makes OnlyInfectedDeleted inductive: whatever is loaded again, reported,
\* overwritten or moved, a path in the list is that of an infected file.
OnlyInfectedListed ==
  /\ sigs \in Seq({Loaded[i] : i \in DOMAIN Loaded})
  /\ \A t \in Workers : pc[t] \in Reporting => Entry(t) \in Infected
  /\ list \in Seq(InfectedRow)

\* A file is open only while a worker examines it, or for good because it is too
\* large (line 122 leaves it open) or its worker was terminated.
OpenFilesAccounted ==
  \A f \in locked :
    \/ f \in TooLarge
    \/ \E t \in Workers : pc[t] \in Examining \cup {"killed"} /\ ~AtEnd(t) /\ Entry(t) = f

\* A worker ends, however often the user deletes rows.
WorkersEnd == \A t \in Workers : pc[t] = "walk" ~> (pc[t] \in Stopped \/ ~alive)

\* "What matches is a virus and is inserted into the list" (comment, line 137): when
\* the worker of a first scan has ended and the user deletes nothing, the infected
\* files of the folder that can be read are listed.
InfectedListed ==
  open /\ opens = 1 /\ pc[opens] = "done" /\ ~MayDelete =>
    \A i \in DOMAIN Walk[folder[opens]] :
      LET f == Walk[folder[opens]][i]
      IN f \in Infected \ (TooLarge \cup Unreadable) => \E r \in DOMAIN list : list[r].path = f

=============================================================================
