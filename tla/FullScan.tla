------------------------------ MODULE FullScan ------------------------------
(***************************************************************************)
(* The full-disk scan (CAllKillingDialog).  Opening the dialog loads the    *)
(* signature library and starts one worker thread per drive; the workers    *)
(* walk their drives, hash every file and, for every signature equal to the *)
(* hash, add a row to the dialog's list at the row number in the global     *)
(* nIndex.  nIndex and the signatures live as long as the process and every *)
(* file handle is left open.  The event meant to serialise the reports      *)
(* (g_hEvent) is never created, so the wait on it fails at once and the     *)
(* three calls and the increment of different workers interleave.           *)
(*                                                                         *)
(* A row is added in three messages to the thread that owns the window: a   *)
(* worker reads nIndex and sends, the window handles the message later.     *)
(***************************************************************************)
EXTENDS Integers, Sequences, FiniteSets, ListControl

CONSTANTS
  Drives,      \* the roots walked, one worker each ("C:", "D:", "F:")
  Files,       \* the files of all drives
  Denied,      \* walk entry: a directory (or drive) that cannot be listed
  Walk,        \* [Drives -> Seq(Files \cup {Denied})], in the order of the walk,
               \* hidden entries left out
  Unreadable,  \* files that another program holds or that may not be read
  TooLarge,    \* files whose size, modulo 4 GiB, is 2 GiB or more
  Digest,      \* [Files -> hash text], upper-case hexadecimal
  Library,     \* the lines of the signature file
  NoText,      \* the empty text
  Nobody,      \* no worker
  CloseWays,   \* how the user closes the dialog: "X" and "Esc"
  MaxOpens     \* bound: how often the dialog is opened

ASSUME ConstantsAssumption ==
  /\ IsFiniteSet(Drives)
  /\ Walk \in [Drives -> Seq(Files \cup {Denied})]
  /\ Denied \notin Files
  /\ Unreadable \subseteq Files /\ TooLarge \subseteq Files
  /\ DOMAIN Digest = Files
  /\ Library \in Seq({Digest[f] : f \in Files} \cup {NoText})
  /\ NoText \notin {Digest[f] : f \in Files}
  /\ CloseWays \subseteq {"X", "Esc"}
  /\ MaxOpens \in Nat

\* A worker is identified by its drive and by the opening that started it.
Workers == Drives \X (1 .. MaxOpens)

ASSUME NobodyAssumption == Nobody \notin Workers

VARIABLES
  alive,       \* the process has not died
  libFile,     \* TheVirus.txt exists
  open,        \* the dialog's window exists
  opens,       \* how often the dialog was opened
  list,        \* the rows of the window's list
  nIndex,      \* global: the row number of the next report
  sigs,        \* global localVirusVt
  locked,      \* files opened without sharing and never closed
  disabledBy,  \* the worker whose error box disabled the window
  pc, pos, k, reg  \* per worker: step, entry of its walk, signature, nIndex it read

dialogVars == <<open, opens, list, disabledBy>>
workerVars == <<pc, pos, k, reg>>
vars == <<alive, libFile, nIndex, sigs, locked, dialogVars, workerVars>>

\* The calls of a report in their order: the worker reads nIndex and sends the
\* message ("insert", "path", "md5" is being waited for), the window answers.
Reading == [match |-> "insert", row |-> "path", text |-> "md5", inc |-> "store"]
Answered == [insert |-> "row", path |-> "text", md5 |-> "inc"]

Steps == {"none", "walk", "box", "match", "insert", "row", "path", "text",
          "md5", "inc", "store", "done", "killed"}
Comparing == {"match", "insert", "row", "path", "text", "md5", "inc", "store"}
Stopped == {"none", "done", "killed"}

Digests == {Digest[f] : f \in Files} \cup {NoText}
Row == [path : Files \cup {NoText}, md5 : Digests]
BlankRow == [path |-> NoText, md5 |-> NoText]
RowOf(f) == [path |-> f, md5 |-> Digest[f]]

Drive(t) == t[1]
Opening(t) == t[2]
Entry(t) == Walk[Drive(t)][pos[t]]
AtEnd(t) == pos[t] > Len(Walk[Drive(t)])

Init ==
  /\ alive = TRUE /\ libFile \in BOOLEAN
  /\ open = FALSE /\ opens = 0 /\ list = <<>> /\ disabledBy = Nobody
  /\ nIndex = 0 /\ sigs = <<>> /\ locked = {}
  /\ pc = [t \in Workers |-> "none"]
  /\ pos = [t \in Workers |-> 1]
  /\ k = [t \in Workers |-> 1]
  /\ reg = [t \in Workers |-> 0]

-----------------------------------------------------------------------------
(* The window's thread.                                                     *)

\* feof is only true after a read, so an empty file yields one empty line.
Loaded == IF Library = <<>> THEN <<NoText>> ELSE Library

\* Some worker of an earlier opening is reading localVirusVt.
ReadingLibrary == \E t \in Workers : pc[t] = "match"

\* The file is missing: fopen_s leaves a null FILE* and feof(NULL) ends the
\* process.
OpenWithoutLibrary ==
  /\ alive /\ ~open /\ opens < MaxOpens /\ ~libFile
  /\ alive' = FALSE
  /\ UNCHANGED <<libFile, nIndex, sigs, locked, dialogVars, workerVars>>

\* The library is appended to what earlier openings loaded.  Growing the vector
\* under a worker that reads it may end the process.
OpenDialog ==
  /\ alive /\ ~open /\ opens < MaxOpens /\ libFile
  /\ sigs' = sigs \o Loaded
  /\ alive' \in {TRUE, ~ReadingLibrary}
  /\ open' = TRUE /\ opens' = opens + 1 /\ list' = <<>> /\ disabledBy' = Nobody
  /\ pc' = [t \in Workers |-> IF Opening(t) = opens + 1 THEN "walk" ELSE pc[t]]
  /\ UNCHANGED <<libFile, nIndex, locked, pos, k, reg>>

\* The window answers a message a worker waits for.  The control of a window
\* that was destroyed is detached: the call of its worker returns and does nothing.
Answer(t, effect) ==
  /\ alive
  /\ list' = IF open /\ Opening(t) = opens THEN effect ELSE list
  /\ pc' = [pc EXCEPT ![t] = Answered[pc[t]]]
  /\ UNCHANGED <<alive, libFile, nIndex, sigs, locked, open, opens, disabledBy,
                 pos, k, reg>>

AnswerInsert(t) ==
  pc[t] = "insert" /\ Answer(t, InsertItem(list, reg[t], BlankRow))

AnswerPath(t) ==
  pc[t] = "path" /\ Answer(t, SetItemText(list, reg[t], "path", Entry(t)))

\* Mutant of AnswerMD5: the hash goes to the column of the path.
AnswerMD5InPath(t) ==
  pc[t] = "md5" /\ Answer(t, SetItemText(list, reg[t], "path", Digest[Entry(t)]))

AnswerMD5(t) ==
  pc[t] = "md5" /\ Answer(t, SetItemText(list, reg[t], "md5", Digest[Entry(t)]))

\* A window that an error box disabled gets no input.
MayClose(way) == alive /\ open /\ disabledBy = Nobody /\ way \in CloseWays

DestroyWindow ==
  /\ open' = FALSE
  /\ list' = <<>>
  /\ UNCHANGED <<alive, libFile, opens, nIndex, sigs, locked, disabledBy, pos, k, reg>>

\* The close button runs OnClose: the three thread handles are those of the
\* latest opening.
CloseX ==
  /\ MayClose("X")
  /\ pc' = [t \in Workers |->
              IF Opening(t) = opens /\ pc[t] \notin Stopped THEN "killed" ELSE pc[t]]
  /\ DestroyWindow

\* Escape and Enter end the dialog without a WM_CLOSE.
CloseEsc ==
  /\ MayClose("Esc")
  /\ UNCHANGED pc
  /\ DestroyWindow

-----------------------------------------------------------------------------
(* A worker.                                                                *)

At(t, step) == alive /\ pc[t] = step

GoOn(t) ==
  /\ pos' = [pos EXCEPT ![t] = @ + 1]
  /\ pc' = [pc EXCEPT ![t] = "walk"]

EndOfWalk(t) ==
  /\ At(t, "walk") /\ AtEnd(t)
  /\ pc' = [pc EXCEPT ![t] = "done"]
  /\ UNCHANGED <<alive, libFile, nIndex, sigs, locked, dialogVars, pos, k, reg>>

\* FindFirstFile fails: the worker shows a message box, which disables the
\* window unless another box did.
ListingFails(t) ==
  /\ At(t, "walk") /\ ~AtEnd(t) /\ Entry(t) = Denied
  /\ pc' = [pc EXCEPT ![t] = "box"]
  /\ disabledBy' =
       IF open /\ Opening(t) = opens /\ disabledBy = Nobody THEN t ELSE disabledBy
  /\ UNCHANGED <<alive, libFile, nIndex, sigs, locked, open, opens, list, pos, k, reg>>

DismissBox(t) ==
  /\ At(t, "box")
  /\ disabledBy' = IF disabledBy = t THEN Nobody ELSE disabledBy
  /\ GoOn(t)
  /\ UNCHANGED <<alive, libFile, nIndex, sigs, locked, open, opens, list, k, reg>>

\* Mutant of CanOpen: the files are opened for sharing.
CanOpenShared(f) == f \notin Unreadable

CanOpen(f) == f \notin Unreadable /\ f \notin locked

\* Mutant of SkipFile: the walk does not advance over what it cannot examine.
SkipFileStays(t) ==
  /\ At(t, "walk") /\ ~AtEnd(t) /\ Entry(t) # Denied
  /\ ~CanOpen(Entry(t)) \/ Entry(t) \in TooLarge
  /\ locked' = IF CanOpen(Entry(t)) THEN locked \cup {Entry(t)} ELSE locked
  /\ UNCHANGED <<alive, libFile, nIndex, sigs, dialogVars, workerVars>>

\* The size of a file that cannot be opened is 0xFFFFFFFF, which counts as too
\* large.  A file that is too large stays open.
SkipFile(t) ==
  /\ At(t, "walk") /\ ~AtEnd(t) /\ Entry(t) # Denied
  /\ ~CanOpen(Entry(t)) \/ Entry(t) \in TooLarge
  /\ locked' = IF CanOpen(Entry(t)) THEN locked \cup {Entry(t)} ELSE locked
  /\ GoOn(t)
  /\ UNCHANGED <<alive, libFile, nIndex, sigs, dialogVars, k, reg>>

\* Mutant of HashFile: a listing that failed is examined like a file.
HashAnything(t) ==
  /\ At(t, "walk") /\ ~AtEnd(t)
  /\ CanOpen(Entry(t)) /\ Entry(t) \notin TooLarge
  /\ locked' = locked \cup {Entry(t)}
  /\ k' = [k EXCEPT ![t] = 1]
  /\ pc' = [pc EXCEPT ![t] = "match"]
  /\ UNCHANGED <<alive, libFile, nIndex, sigs, dialogVars, pos, reg>>

HashFile(t) ==
  /\ At(t, "walk") /\ ~AtEnd(t) /\ Entry(t) # Denied
  /\ CanOpen(Entry(t)) /\ Entry(t) \notin TooLarge
  /\ locked' = locked \cup {Entry(t)}
  /\ k' = [k EXCEPT ![t] = 1]
  /\ pc' = [pc EXCEPT ![t] = "match"]
  /\ UNCHANGED <<alive, libFile, nIndex, sigs, dialogVars, pos, reg>>

NextSignature(t) ==
  /\ At(t, "match") /\ k[t] <= Len(sigs) /\ sigs[k[t]] # Digest[Entry(t)]
  /\ k' = [k EXCEPT ![t] = @ + 1]
  /\ UNCHANGED <<alive, libFile, nIndex, sigs, locked, dialogVars, pc, pos, reg>>

\* Mutant of NoMoreSignatures: the loop stops before the last signature.
NotTheLastSignature(t) ==
  /\ At(t, "match") /\ k[t] >= Len(sigs)
  /\ GoOn(t)
  /\ UNCHANGED <<alive, libFile, nIndex, sigs, locked, dialogVars, k, reg>>

NoMoreSignatures(t) ==
  /\ At(t, "match") /\ k[t] > Len(sigs)
  /\ GoOn(t)
  /\ UNCHANGED <<alive, libFile, nIndex, sigs, locked, dialogVars, k, reg>>

\* nIndex is read anew for every call, and for nIndex++.
ReadIndex(t) ==
  /\ reg' = [reg EXCEPT ![t] = nIndex]
  /\ pc' = [pc EXCEPT ![t] = Reading[@]]
  /\ UNCHANGED <<alive, libFile, nIndex, sigs, locked, dialogVars, pos, k>>

\* Mutant of SendInsert: nIndex is incremented before the row is filled.
SendInsertIncrements(t) ==
  /\ At(t, "match") /\ k[t] <= Len(sigs) /\ sigs[k[t]] = Digest[Entry(t)]
  /\ reg' = [reg EXCEPT ![t] = nIndex]
  /\ nIndex' = nIndex + 1
  /\ pc' = [pc EXCEPT ![t] = "insert"]
  /\ UNCHANGED <<alive, libFile, sigs, locked, dialogVars, pos, k>>

\* The hash equals a signature; the wait on the null event returns at once.
SendInsert(t) ==
  /\ At(t, "match") /\ k[t] <= Len(sigs) /\ sigs[k[t]] = Digest[Entry(t)]
  /\ ReadIndex(t)

SendPath(t) == At(t, "row") /\ ReadIndex(t)

SendMD5(t) == At(t, "text") /\ ReadIndex(t)

ReadForIncrement(t) == At(t, "inc") /\ ReadIndex(t)

\* Mutant of WriteIncrement: the comparison does not move to the next signature.
WriteIncrementStays(t) ==
  /\ At(t, "store")
  /\ nIndex' = reg[t] + 1
  /\ pc' = [pc EXCEPT ![t] = "match"]
  /\ UNCHANGED <<alive, libFile, sigs, locked, dialogVars, pos, k, reg>>

WriteIncrement(t) ==
  /\ At(t, "store")
  /\ nIndex' = reg[t] + 1
  /\ k' = [k EXCEPT ![t] = @ + 1]
  /\ pc' = [pc EXCEPT ![t] = "match"]
  /\ UNCHANGED <<alive, libFile, sigs, locked, dialogVars, pos, reg>>

Worker(t) ==
  \/ EndOfWalk(t) \/ ListingFails(t) \/ SkipFile(t) \/ HashFile(t)
  \/ NextSignature(t) \/ NoMoreSignatures(t)
  \/ SendInsert(t) \/ SendPath(t) \/ SendMD5(t)
  \/ ReadForIncrement(t) \/ WriteIncrement(t)

Window(t) == AnswerInsert(t) \/ AnswerPath(t) \/ AnswerMD5(t)

User == OpenWithoutLibrary \/ OpenDialog \/ CloseX \/ CloseEsc

Next == User \/ \E t \in Workers : Worker(t) \/ Window(t) \/ DismissBox(t)

Spec == Init /\ [][Next]_vars

(* The scheduler runs every worker, the window's thread keeps pumping       *)
(* messages, and the user answers every error box.  Opening and closing the *)
(* dialog is up to the user.                                                *)
FairSpec ==
  /\ Spec
  /\ \A t \in Workers :
       WF_vars(Worker(t)) /\ WF_vars(Window(t)) /\ WF_vars(DismissBox(t))

-----------------------------------------------------------------------------
(* Properties.                                                              *)

TypeOK ==
  /\ alive \in BOOLEAN /\ libFile \in BOOLEAN
  /\ open \in BOOLEAN /\ opens \in 0 .. MaxOpens
  /\ list \in Seq(Row)
  /\ disabledBy \in Workers \cup {Nobody}
  /\ nIndex \in Nat
  /\ sigs \in Seq(Digests)
  /\ locked \in SUBSET Files
  /\ pc \in [Workers -> Steps]
  /\ pos \in [Workers -> Nat \ {0}]
  /\ k \in [Workers -> Nat \ {0}]
  /\ reg \in [Workers -> Nat]
  /\ \A t \in Workers : pc[t] \in Comparing \cup {"box"} => ~AtEnd(t)
  /\ \A t \in Workers : pc[t] \in Comparing => Entry(t) \in Files

\* Although the reports of the workers are not serialised and the increments of
\* nIndex may be lost, in the first opening a text is never written to a row that
\* does not exist: the rows are ahead of nIndex by the reports in progress
\* (CAllKillingDialog.cpp, lines 169 to 172).
RowExists ==
  open /\ opens = 1 =>
    \A t \in Workers : pc[t] \in {"path", "md5"} => HasRow(list, reg[t])

\* Workers whose report has its row and has not written nIndex.
InFlight == {t \in Workers : pc[t] \in {"row", "path", "text", "md5", "inc", "store"}}

\* A worker belongs to an opening of the past, and nothing happens before the first.
Started ==
  /\ \A t \in Workers : pc[t] # "none" => Opening(t) <= opens
  /\ opens = 0 => nIndex = 0 /\ ~open

\* What makes RowExists inductive.
RowsAhead ==
  open /\ opens = 1 =>
    /\ nIndex + Cardinality(InFlight) <= Len(list)
    /\ \A t \in Workers : pc[t] \in {"path", "md5"} => reg[t] < Len(list)
    /\ \A t \in Workers : pc[t] = "store" => reg[t] + Cardinality(InFlight) <= Len(list)

\* No file is examined by two workers at a time, not even by workers of two
\* openings that walk the same drive: the handles that are never closed keep
\* every other worker out (lines 146 to 151).
ExclusiveFile ==
  \A t, u \in Workers :
    t # u /\ pc[t] \in Comparing /\ pc[u] \in Comparing => Entry(t) # Entry(u)

\* The part of ExclusiveFile that a single worker keeps: what it examines is open.
ExaminedIsLocked ==
  \A t \in Workers : pc[t] \in Comparing => Entry(t) \in locked

\* Every worker that was started ends: no file, error box or destroyed window
\* holds it forever, unless the process dies.
WorkersEnd ==
  \A t \in Workers : pc[t] = "walk" ~> (pc[t] \in Stopped \/ ~alive)

\* The files of a drive that a first scan examines and that match.
Infected(d) ==
  {f \in Files : /\ \E i \in DOMAIN Walk[d] : Walk[d][i] = f
                 /\ f \notin Unreadable \cup TooLarge
                 /\ \E i \in DOMAIN Loaded : Loaded[i] = Digest[f]}

\* "What matches is a virus and is inserted into the list" (comment, line 165):
\* when the workers of a first scan have ended by themselves, every infected
\* file has its row.
InfectedListed ==
  open /\ opens = 1 /\ (\A t \in Workers : Opening(t) = 1 => pc[t] = "done") =>
    \A d \in Drives : \A f \in Infected(d) :
      \E i \in DOMAIN list : list[i] = RowOf(f)

\* However the reports interleave, a first scan that ends shows one row for each
\* match, although its texts may belong to another match or to none.
OneRowPerMatch ==
  open /\ opens = 1 /\ (\A t \in Workers : Opening(t) = 1 => pc[t] = "done") =>
    Len(list) = Cardinality({m \in Files \X DOMAIN Loaded :
                   /\ \E d \in Drives : m[1] \in Infected(d)
                   /\ Loaded[m[2]] = Digest[m[1]]})

\* The report a user can rely on: the rows below nIndex.
Report == INSTANCE ScanReport WITH
  Findings <- UNION {{RowOf(f) : f \in Infected(d)} : d \in Drives},
  visible <- open /\ opens = 1,
  shown <- IF open /\ opens = 1 THEN SubSeq(list, 1, nIndex) ELSE <<>>

\* Where only one drive has infected files, the first scan implements ScanReport:
\* every row that nIndex has passed is complete, final and a new finding.
ReportsOnce == Report!Spec

=============================================================================
