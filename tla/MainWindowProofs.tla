--------------------------- MODULE MainWindowProofs ---------------------------
(***************************************************************************)
(* Proofs about the main window and its tools, for any processes, services, *)
(* values, folders and suffixes.  The tools share one thread of windows: a  *)
(* step of a tool leaves the variables of the others alone and moves only   *)
(* between its own dialogs and the main window, so that an invariant of one *)
(* tool is proved from the steps of that tool.                              *)
(***************************************************************************)
EXTENDS MainWindow, ListControlProofs, FiniteSetTheorems, SequenceTheorems

-----------------------------------------------------------------------------
(* Whose turn it is.                                                        *)

ProcDialogs == {"menu", "blacklist", "killbox", "heap"}
ServDialogs == {"services", "servicemenu"}
StartDialogs == {"startup", "startmenu", "startbox"}
SoftDialogs == {"software", "softmenu"}
FileDialogs == {"files"}
CleanDialogs == {"cleaner", "scanning", "scanbox"}

\* A step of the tool whose dialogs these are.
Turn(own) ==
  \/ modal' = modal /\ nRow' = nRow
  \/ modal \in own \cup {"main"} /\ modal' \in own \cup {"main", "ended"}

\* The dialogs of other tools neither open nor close meanwhile.
Still(dialogs) ==
  modal \in dialogs \/ modal' \in dialogs => modal' = modal /\ nRow' = nRow

LEMMA ProcTurn == ProcStep => Turn(ProcDialogs) /\ tools' = tools
<1> USE DEF Turn, ProcDialogs, shell
<1>1. ASSUME NEW p \in Pids, Starts(p) \/ Exits(p) PROVE Turn(ProcDialogs) /\ tools' = tools
  BY <1>1 DEF Starts, Exits
<1>2. ASSUME NEW r \in Clickable(mainRows), RightClickProcess(r)
      PROVE  Turn(ProcDialogs) /\ tools' = tools
  BY <1>2 DEF RightClickProcess
<1>3. CASE DismissMenu \/ EndProcess
  BY <1>3 DEF DismissMenu, EndProcess, MoveTo, Survives
<1>4. CASE OpenBlacklist \/ CloseBlacklist \/ ClickKill
  BY <1>4 DEF OpenBlacklist, CloseBlacklist, ClickKill, MoveTo
<1>5. CASE AnswerBox
  BY <1>5 DEF AnswerBox, Survives
<1>6. ASSUME NEW r, DoubleClick(r) PROVE Turn(ProcDialogs) /\ tools' = tools
  BY <1>6 DEF DoubleClick
<1>7. ASSUME NEW ticked, RemoveTicked(ticked) PROVE Turn(ProcDialogs) /\ tools' = tools
  BY <1>7 DEF RemoveTicked
<1>8. CASE OpenHeap \/ CloseHeap(TRUE) \/ CloseHeap(FALSE)
  BY <1>8 DEF OpenHeap, CloseHeap, MoveTo
<1>9. ASSUME NEW n, HeapWorker(n) PROVE Turn(ProcDialogs) /\ tools' = tools
  BY <1>9 DEF HeapWorker, HeapStart, HeapSnapshot, HeapRow, HeapEnd
<1>. QED
  BY <1>1, <1>2, <1>3, <1>4, <1>5, <1>6, <1>7, <1>8, <1>9 DEF ProcStep

LEMMA ServTurn == ServStep => Turn(ServDialogs) /\ tools' = tools
<1> USE DEF Turn, ServDialogs, shell, MoveTo
<1>1. ASSUME NEW s, Settles(s) PROVE Turn(ServDialogs) /\ tools' = tools
  BY <1>1 DEF Settles
<1>2. ASSUME NEW s, NEW state, Others(s, state) PROVE Turn(ServDialogs) /\ tools' = tools
  BY <1>2 DEF Others
<1>3. CASE OpenServices \/ CloseServices \/ DismissServiceMenu
  BY <1>3 DEF OpenServices, CloseServices, DismissServiceMenu
<1>4. CASE StartService \/ PauseService
  BY <1>4 DEF StartService, PauseService
<1>5. ASSUME NEW r, RightClickService(r) PROVE Turn(ServDialogs) /\ tools' = tools
  BY <1>5 DEF RightClickService
<1>. QED
  BY <1>1, <1>2, <1>3, <1>4, <1>5 DEF ServStep

LEMMA StartTurn == StartStep => Turn(StartDialogs) /\ tools' = tools
<1> USE DEF Turn, StartDialogs, shell, MoveTo
<1>1. ASSUME NEW h, NEW v, OthersAdd(h, v) PROVE Turn(StartDialogs) /\ tools' = tools
  BY <1>1 DEF OthersAdd
<1>2. CASE OpenStartUp \/ CloseStartUp \/ DismissStartMenu
  BY <1>2 DEF OpenStartUp, CloseStartUp, DismissStartMenu
<1>3. CASE ClickDelete \/ AnswerStartBox
  BY <1>3 DEF ClickDelete, AnswerStartBox, Delete
<1>4. ASSUME NEW r, RightClickValue(r) PROVE Turn(StartDialogs) /\ tools' = tools
  BY <1>4 DEF RightClickValue
<1>. QED
  BY <1>1, <1>2, <1>3, <1>4 DEF StartStep

LEMMA SoftTurn == SoftStep => Turn(SoftDialogs) /\ tools' = tools
BY DEF SoftStep, Turn, SoftDialogs, MoveTo, OpenSoftware, CloseSoftware, DismissSoftMenu,
       Uninstall, RightClickSoftware

LEMMA FileTurn == FileStep => Turn(FileDialogs) /\ tools' = tools
<1> USE DEF Turn, FileDialogs, shell
<1>1. CASE OpenFiles \/ CloseFiles
  BY <1>1 DEF OpenFiles, CloseFiles, MoveTo
<1>2. ASSUME NEW n, FileWorker(n) PROVE Turn(FileDialogs) /\ tools' = tools
  BY <1>2 DEF FileWorker, ShowFile, EnterFolder, LeaveFolder, FolderDenied, AnswerFileBox, EndWalk
<1>. QED
  BY <1>1, <1>2 DEF FileStep

LEMMA CleanTurn == CleanStep => Turn(CleanDialogs) /\ tools' = tools
<1> USE DEF Turn, CleanDialogs, shell, MoveTo
<1>1. CASE OpenCleaner \/ CloseCleaner \/ RestoreDefault \/ ReadSuffixes
  BY <1>1 DEF OpenCleaner, CloseCleaner, RestoreDefault, ReadSuffixes
<1>2. ASSUME NEW f, Written(f) PROVE Turn(CleanDialogs) /\ tools' = tools
  BY <1>2 DEF Written
<1>3. ASSUME NEW d, PickFolder(d) \/ TypePath(d) \/ TypeSuffixes(d)
      PROVE  Turn(CleanDialogs) /\ tools' = tools
  BY <1>3 DEF PickFolder, TypePath, TypeSuffixes
<1>4. CASE ClickScan \/ ScanFile \/ PassFile \/ EndScan
  BY <1>4 DEF ClickScan, ScanFile, PassFile, EndScan, Idle
<1>5. CASE EnterSub \/ LeaveSub \/ ScanDenied \/ AnswerScanBox
  BY <1>5 DEF EnterSub, LeaveSub, ScanDenied, AnswerScanBox, Scanning
<1>6. CASE ClickConfirm \/ DeleteFile \/ KeepFile
  BY <1>6 DEF ClickConfirm, DeleteFile, KeepFile
<1>. QED
  BY <1>1, <1>2, <1>3, <1>4, <1>5, <1>6 DEF CleanStep

\* A step of the program is one of a tool, or leaves the tool's variables and dialogs.
LEMMA OneTool ==
  ASSUME Next
  PROVE  /\ tools' = tools
         /\ ProcStep \/ (UNCHANGED procVars /\ Still(ProcDialogs))
         /\ ServStep \/ (UNCHANGED servVars /\ Still(ServDialogs))
         /\ StartStep \/ (UNCHANGED startVars /\ Still(StartDialogs))
         /\ SoftStep \/ (UNCHANGED softVars /\ Still(SoftDialogs))
         /\ FileStep \/ (UNCHANGED fileVars /\ Still(FileDialogs))
         /\ CleanStep \/ (UNCHANGED cleanVars /\ Still(CleanDialogs))
<1> USE DEF Turn, Still, ProcDialogs, ServDialogs, StartDialogs, SoftDialogs, FileDialogs,
            CleanDialogs
<1>1. CASE ProcStep /\ UNCHANGED <<servVars, startVars, softVars, fileVars, cleanVars>>
  BY <1>1, ProcTurn
<1>2. CASE ServStep /\ UNCHANGED <<procVars, startVars, softVars, fileVars, cleanVars>>
  BY <1>2, ServTurn
<1>3. CASE StartStep /\ UNCHANGED <<procVars, servVars, softVars, fileVars, cleanVars>>
  BY <1>3, StartTurn
<1>4. CASE SoftStep /\ UNCHANGED <<procVars, servVars, startVars, fileVars, cleanVars>>
  BY <1>4, SoftTurn
<1>5. CASE FileStep /\ UNCHANGED <<procVars, servVars, startVars, softVars, cleanVars>>
  BY <1>5, FileTurn
<1>6. CASE CleanStep /\ UNCHANGED <<procVars, servVars, startVars, softVars, fileVars>>
  BY <1>6, CleanTurn
<1>. QED
  BY <1>1, <1>2, <1>3, <1>4, <1>5, <1>6 DEF Next

\* Nothing happens: the tools are as they were.
LEMMA NoStep ==
  ASSUME UNCHANGED vars
  PROVE  /\ UNCHANGED shell /\ UNCHANGED procVars /\ UNCHANGED servVars /\ UNCHANGED startVars
         /\ UNCHANGED softVars /\ UNCHANGED fileVars /\ UNCHANGED cleanVars
         /\ \A d : Still(d)
BY DEF vars, shell, Still

-----------------------------------------------------------------------------
(* Walks of folders, row counters, and rows inserted and named.             *)

\* The entries of a walk that a place is behind.
Passed(walk, at) == {walk[k] : k \in 1 .. at - 1} \ Marks

LEMMA WalkLen ==
  ASSUME NEW walk, IsWalk(walk)
  PROVE  Len(walk) \in Nat /\ DOMAIN walk = 1 .. Len(walk)
BY DEF IsWalk

\* How often a mark comes in the first k steps of a walk.
Times(walk, m, k) == Cardinality({j \in 1 .. k : walk[j] = m})

\* The depth goes up and down with the marks.
LEMMA MarkCount ==
  ASSUME NEW walk, NEW m, NEW k \in Nat
  PROVE  /\ Times(walk, m, k) \in Nat
         /\ Times(walk, m, k + 1) = Times(walk, m, k) + (IF walk[k + 1] = m THEN 1 ELSE 0)
<1> DEFINE before == {j \in 1 .. k : walk[j] = m}
           upto == {j \in 1 .. k + 1 : walk[j] = m}
<1>1. IsFiniteSet(before)
  <2>1. IsFiniteSet(1 .. k) /\ before \subseteq 1 .. k
    BY FS_Interval
  <2>. QED
    BY <2>1, FS_Subset
<1>2. Cardinality(before) \in Nat
  BY <1>1, FS_CardinalityType
<1>3. upto = IF walk[k + 1] = m THEN before \cup {k + 1} ELSE before
  OBVIOUS
<1>4. k + 1 \notin before
  OBVIOUS
<1> HIDE DEF before, upto
<1>5. Cardinality(before \cup {k + 1}) = Cardinality(before) + 1
  BY <1>1, <1>4, FS_AddElement, Zenon
<1>6. Cardinality(upto) = Cardinality(before) + (IF walk[k + 1] = m THEN 1 ELSE 0)
  BY <1>2, <1>3, <1>5
<1>. QED
  BY <1>2, <1>6 DEF before, upto, Times

LEMMA DepthStarts == ASSUME NEW walk PROVE Depth(walk, 0) = 0
<1>1. {j \in 1 .. 0 : walk[j] = In} = {} /\ {j \in 1 .. 0 : walk[j] = Out} = {}
  OBVIOUS
<1>. QED
  BY <1>1, FS_EmptySet DEF Depth

\* The depth at a place of a walk, from that at the place before.
LEMMA DepthHere ==
  ASSUME NEW walk, IsWalk(walk), NEW at \in DOMAIN walk
  PROVE  /\ Depth(walk, at - 1) \in Int /\ Depth(walk, at) \in Int /\ Depth(walk, at) >= 0
         /\ walk[at] = In => Depth(walk, at) = Depth(walk, at - 1) + 1
         /\ walk[at] = Out => Depth(walk, at) = Depth(walk, at - 1) - 1
         /\ walk[at] \notin {In, Out} => Depth(walk, at) = Depth(walk, at - 1)
<1>1. PICK k \in Nat : k + 1 = at /\ at - 1 = k
  <2>1. at \in 1 .. Len(walk) /\ Len(walk) \in Nat
    BY WalkLen
  <2>2. at - 1 \in Nat /\ (at - 1) + 1 = at
    BY <2>1
  <2>. QED
    BY <2>2
<1> DEFINE ins == Times(walk, In, k)
           outs == Times(walk, Out, k)
<1>2. ins \in Nat /\ outs \in Nat /\ Depth(walk, at - 1) = ins - outs
  <2>1. Depth(walk, k) = ins - outs
    BY DEF Depth, Times
  <2>. QED
    BY <1>1, <2>1, MarkCount
<1>3. Depth(walk, at) = (ins + (IF walk[at] = In THEN 1 ELSE 0))
                          - (outs + (IF walk[at] = Out THEN 1 ELSE 0))
  <2>1. Depth(walk, k + 1) = Times(walk, In, k + 1) - Times(walk, Out, k + 1)
    BY DEF Depth, Times
  <2>. QED
    BY <1>1, <2>1, MarkCount
<1>4. Depth(walk, at) >= 0
  BY DEF IsWalk
<1> HIDE DEF ins, outs
<1>. QED
  BY <1>2, <1>3, <1>4, MarksAssumption

LEMMA PassedNext ==
  ASSUME NEW walk, IsWalk(walk), NEW at \in DOMAIN walk
  PROVE  /\ walk[at] \in Marks => Passed(walk, at + 1) = Passed(walk, at)
         /\ walk[at] \notin Marks =>
              /\ Passed(walk, at + 1) = Passed(walk, at) \cup {walk[at]}
              /\ walk[at] \notin Passed(walk, at)
<1>1. at \in 1 .. Len(walk) /\ Len(walk) \in Nat
  BY WalkLen
<1>2. 1 .. (at + 1) - 1 = (1 .. at - 1) \cup {at}
  BY <1>1
<1>3. Passed(walk, at + 1) = Passed(walk, at) \cup ({walk[at]} \ Marks)
  BY <1>2 DEF Passed
<1>4. ASSUME walk[at] \notin Marks PROVE walk[at] \notin Passed(walk, at)
  <2> SUFFICES ASSUME NEW k \in 1 .. at - 1, walk[k] = walk[at] PROVE FALSE
    BY DEF Passed
  <2>1. k \in DOMAIN walk /\ k # at
    BY <1>1, WalkLen
  <2>. QED
    BY <1>4, <2>1 DEF IsWalk
<1>. QED
  BY <1>3, <1>4

LEMMA PassedEnds ==
  ASSUME NEW walk, IsWalk(walk)
  PROVE  /\ Passed(walk, 1) = {}
         /\ Passed(walk, Len(walk) + 1) = {walk[k] : k \in DOMAIN walk} \ Marks
<1>1. 1 .. (Len(walk) + 1) - 1 = DOMAIN walk /\ 1 .. 1 - 1 = {}
  BY WalkLen
<1>. QED
  BY <1>1 DEF Passed

\* A row inserted within the list is where it was inserted; what replaces it might have
\* been inserted at once.
LEMMA InsertedThere ==
  ASSUME NEW S, NEW rows \in Seq(S), NEW i \in 0 .. Len(rows), NEW blank, NEW named
  PROVE  /\ HasRow(InsertItem(rows, i, blank), i) /\ InsertItem(rows, i, blank)[i + 1] = blank
         /\ [InsertItem(rows, i, blank) EXCEPT ![i + 1] = named] = InsertItem(rows, i, named)
<1> DEFINE len == Len(rows)
           With(row) == [j \in 1 .. len + 1 |-> IF j <= i THEN rows[j]
                                                ELSE IF j = i + 1 THEN row ELSE rows[j - 1]]
<1>1. len \in Nat /\ i \in Nat /\ i <= len
  OBVIOUS
<1>2. InsertItem(rows, i, blank) = With(blank) /\ InsertItem(rows, i, named) = With(named)
  <2>1. InsertItem(rows, i, blank) = With(blank)
    BY <1>1 DEF InsertItem
  <2>2. InsertItem(rows, i, named) = With(named)
    BY <1>1 DEF InsertItem
  <2>. QED
    BY <2>1, <2>2
<1>3. Len(With(blank)) = len + 1 /\ With(blank)[i + 1] = blank
  BY <1>1
<1>4. [With(blank) EXCEPT ![i + 1] = named] = With(named)
  <2> DEFINE grown == With(blank)
  <2>1. /\ DOMAIN grown = 1 .. len + 1
        /\ \A j \in 1 .. len + 1 :
             (IF j = i + 1 THEN named ELSE grown[j])
               = (IF j <= i THEN rows[j] ELSE IF j = i + 1 THEN named ELSE rows[j - 1])
    BY <1>1
  <2> HIDE DEF grown
  <2>2. [grown EXCEPT ![i + 1] = named]
          = [j \in 1 .. len + 1 |-> IF j = i + 1 THEN named ELSE grown[j]]
    BY <2>1
  <2>3. [grown EXCEPT ![i + 1] = named] = With(named)
    BY <2>1, <2>2
  <2>. QED
    BY <2>3 DEF grown
<1> HIDE DEF With
<1>5. HasRow(With(blank), i)
  BY <1>1, <1>3 DEF HasRow
<1>. QED
  BY <1>2, <1>3, <1>4, <1>5

\* One list has the rows of another, and one row more.
WithRow(new, rows, row) ==
  /\ \A j \in DOMAIN new : new[j] = row \/ \E k \in DOMAIN rows : new[j] = rows[k]
  /\ \A k \in DOMAIN rows : \E j \in DOMAIN new : new[j] = rows[k]
  /\ \E j \in DOMAIN new : new[j] = row

\* The rows of a list after an insertion within it.
LEMMA InsertedRows ==
  ASSUME NEW S, NEW rows \in Seq(S), NEW i \in 0 .. Len(rows), NEW row
  PROVE  WithRow(InsertItem(rows, i, row), rows, row)
<1> DEFINE len == Len(rows)
           new == [j \in 1 .. len + 1 |-> IF j <= i THEN rows[j]
                                          ELSE IF j = i + 1 THEN row ELSE rows[j - 1]]
<1>1. len \in Nat /\ i \in Nat /\ i <= len /\ DOMAIN rows = 1 .. len
  OBVIOUS
<1>2. InsertItem(rows, i, row) = new
  BY <1>1 DEF InsertItem
<1>3. ASSUME NEW j \in 1 .. len + 1 PROVE new[j] = row \/ \E k \in 1 .. len : new[j] = rows[k]
  <2>1. CASE j <= i
    <3>1. j \in 1 .. len /\ new[j] = rows[j]
      BY <1>1, <2>1
    <3>. QED
      BY <3>1
  <2>2. CASE j = i + 1
    BY <1>1, <2>2
  <2>3. CASE j > i + 1
    <3>1. j - 1 \in 1 .. len /\ new[j] = rows[j - 1]
      BY <1>1, <2>3
    <3>. QED
      BY <3>1
  <2>. QED
    BY <1>1, <2>1, <2>2, <2>3
<1>4. ASSUME NEW k \in 1 .. len PROVE \E j \in 1 .. len + 1 : new[j] = rows[k]
  <2>1. CASE k <= i
    <3>1. k \in 1 .. len + 1 /\ new[k] = rows[k]
      BY <1>1, <2>1
    <3>. QED
      BY <3>1
  <2>2. CASE k > i
    <3>1. k + 1 \in 1 .. len + 1 /\ ~(k + 1 <= i) /\ k + 1 # i + 1 /\ (k + 1) - 1 = k
      BY <1>1, <2>2
    <3>2. new[k + 1] = rows[k]
      BY <3>1
    <3>. QED
      BY <3>1, <3>2
  <2>. QED
    BY <1>1, <2>1, <2>2
<1>5. i + 1 \in 1 .. len + 1 /\ new[i + 1] = row
  BY <1>1
<1>6. DOMAIN new = 1 .. len + 1
  OBVIOUS
<1> HIDE DEF new
<1>7. WithRow(new, rows, row)
  <2>1. /\ \A j \in DOMAIN new : new[j] = row \/ \E k \in DOMAIN rows : new[j] = rows[k]
        /\ \A k \in DOMAIN rows : \E j \in DOMAIN new : new[j] = rows[k]
        /\ \E j \in DOMAIN new : new[j] = row
    BY <1>1, <1>3, <1>4, <1>5, <1>6
  <2>. QED
    BY <2>1, Zenon DEF WithRow
<1>. QED
  BY <1>2, <1>7

\* The counter of the folder a walk is in is the first.
LEMMA FirstCounter ==
  ASSUME NEW c \in Seq(Nat), Len(c) >= 1, NEW x \in Nat
  PROVE  /\ Head(c) = c[1] /\ c[1] \in Nat
         /\ <<x>> \o Tail(c) \in Seq(Nat) /\ Len(<<x>> \o Tail(c)) = Len(c)
         /\ DOMAIN (<<x>> \o Tail(c)) = DOMAIN c
         /\ \A k \in DOMAIN c : (<<x>> \o Tail(c))[k] = IF k = 1 THEN x ELSE c[k]
<1> DEFINE t == Tail(c)
           one == <<x>>
           new == one \o t
<1>1. /\ t \in Seq(Nat) /\ Len(t) = Len(c) - 1 /\ \A k \in 1 .. Len(c) - 1 : t[k] = c[k + 1]
      /\ Head(c) = c[1] /\ c[1] \in Nat /\ Len(c) \in Nat /\ DOMAIN c = 1 .. Len(c)
  OBVIOUS
<1>2. one \in Seq(Nat) /\ Len(one) = 1 /\ one[1] = x
  OBVIOUS
<1> HIDE DEF t, one
<1>3. /\ new \in Seq(Nat) /\ Len(new) = Len(one) + Len(t)
      /\ \A k \in 1 .. Len(one) + Len(t) :
           new[k] = IF k <= Len(one) THEN one[k] ELSE t[k - Len(one)]
  <2>1. one \in Seq(Nat) /\ t \in Seq(Nat)
    BY <1>1, <1>2
  <2>. QED
    BY <2>1, ConcatProperties, Zenon
<1> HIDE DEF new
<1>4. Len(new) = Len(c) /\ DOMAIN new = 1 .. Len(c)
  BY <1>1, <1>2, <1>3
<1>5. ASSUME NEW k \in 1 .. Len(c) PROVE new[k] = IF k = 1 THEN x ELSE c[k]
  <2>1. CASE k = 1
    BY <1>1, <1>2, <1>3, <2>1
  <2>2. CASE k # 1
    <3>1. k - 1 \in 1 .. Len(c) - 1 /\ (k - 1) + 1 = k /\ ~(k <= 1) /\ k \in 1 .. 1 + (Len(c) - 1)
      BY <1>1, <2>2
    <3>2. t[k - 1] = c[k]
      BY <1>1, <3>1
    <3>. QED
      BY <1>1, <1>2, <1>3, <2>2, <3>1, <3>2
  <2>. QED
    BY <2>1, <2>2
<1>. QED
  BY <1>1, <1>3, <1>4, <1>5 DEF new, one, t

\* A counter in front, and a counter less.
LEMMA ZeroInFront ==
  ASSUME NEW c \in Seq(Nat)
  PROVE  /\ <<0>> \o c \in Seq(Nat) /\ Len(<<0>> \o c) = Len(c) + 1
         /\ \A k \in DOMAIN (<<0>> \o c) :
              (<<0>> \o c)[k] = 0 \/ \E j \in DOMAIN c : (<<0>> \o c)[k] = c[j]
<1> DEFINE one == <<0>>
           new == one \o c
<1>1. one \in Seq(Nat) /\ Len(one) = 1 /\ one[1] = 0 /\ Len(c) \in Nat /\ DOMAIN c = 1 .. Len(c)
  OBVIOUS
<1> HIDE DEF one
<1>2. /\ new \in Seq(Nat) /\ Len(new) = Len(one) + Len(c)
      /\ \A k \in 1 .. Len(one) + Len(c) :
           new[k] = IF k <= Len(one) THEN one[k] ELSE c[k - Len(one)]
  <2>1. one \in Seq(Nat)
    BY <1>1
  <2>. QED
    BY <2>1, ConcatProperties, Zenon
<1> HIDE DEF new
<1>3. Len(new) = Len(c) + 1 /\ DOMAIN new = 1 .. Len(c) + 1
  BY <1>1, <1>2
<1>4. ASSUME NEW k \in 1 .. Len(c) + 1 PROVE new[k] = 0 \/ \E j \in DOMAIN c : new[k] = c[j]
  <2>1. CASE k = 1
    BY <1>1, <1>2, <2>1
  <2>2. CASE k # 1
    <3>1. k - 1 \in 1 .. Len(c) /\ ~(k <= 1) /\ k \in 1 .. 1 + Len(c)
      BY <1>1, <2>2
    <3>2. new[k] = c[k - 1]
      BY <1>1, <1>2, <3>1
    <3>. QED
      BY <1>1, <3>1, <3>2
  <2>. QED
    BY <2>1, <2>2
<1>. QED
  BY <1>2, <1>3, <1>4 DEF new, one

LEMMA WithoutFirst ==
  ASSUME NEW c \in Seq(Nat), Len(c) >= 1
  PROVE  /\ Tail(c) \in Seq(Nat) /\ Len(Tail(c)) = Len(c) - 1
         /\ \A k \in DOMAIN Tail(c) : \E j \in DOMAIN c : Tail(c)[k] = c[j]
<1>1. /\ Tail(c) \in Seq(Nat) /\ Len(Tail(c)) = Len(c) - 1 /\ Len(c) \in Nat
      /\ \A k \in 1 .. Len(c) - 1 : Tail(c)[k] = c[k + 1]
  OBVIOUS
<1>2. \A k \in 1 .. Len(c) - 1 : k + 1 \in DOMAIN c
  BY <1>1
<1>3. DOMAIN Tail(c) = 1 .. Len(c) - 1
  BY <1>1
<1>. QED
  BY <1>1, <1>2, <1>3

\* What a step leaves of the counters, and what of them is new.
LEMMA CountersBound ==
  ASSUME NEW c \in Seq(Nat), NEW d \in Seq(Nat), NEW len \in Nat,
         \A k \in DOMAIN c : c[k] <= len,
         \A k \in DOMAIN d : d[k] = 0 \/ \E j \in DOMAIN c : d[k] = c[j]
  PROVE  \A k \in DOMAIN d : d[k] <= len
OBVIOUS

-----------------------------------------------------------------------------
(* The project cleaner.                                                     *)

CleanScan == [folder : Folders, suffixes : Seq(Postfixes), at : Nat, counters : Seq(Nat),
              met : SUBSET Files]
WantedRow == [path : Wanted]
InScan == modal \in {"scanning", "scanbox"}

\* The rows are files of the scan that filled them, and while the delete handler runs
\* no click reaches the dialog.
CleanInv ==
  /\ strProjPath \in Folders /\ edits.path \in Folders
  /\ edits \in [text : Text, path : Folders] /\ strPostfix \in Text
  /\ postfixVt \in Seq(Postfixes)
  /\ scan \in CleanScan
  /\ delRows \in Seq(WantedRow)
  /\ deleting \in Nat /\ deleting <= Len(delRows)
  /\ deleting > 0 => modal = "cleaner"

\* While a scan runs it has a counter for every folder it is in, none beyond the end of
\* the list, and the list holds the files it came by that match, once.
ScanInv ==
  InScan =>
    /\ scan.at >= 1 /\ scan.at <= Len(Scanned) + 1
    /\ Len(scan.counters) = 1 + Depth(Scanned, scan.at - 1)
    /\ \A k \in DOMAIN scan.counters : scan.counters[k] <= Len(delRows)
    /\ scan.met \subseteq Passed(Scanned, scan.at) /\ IsFiniteSet(scan.met)
    /\ modal = "scanbox" => scan.at <= Len(Scanned) /\ Reached = Denied
    /\ Len(delRows) = Cardinality(Sought)
    /\ {delRows[i].path : i \in DOMAIN delRows} = Sought

\* The file at a place of a walk is one of the files.
LEMMA FoundFile ==
  ASSUME NEW d \in Folders, NEW k \in DOMAIN Found[d], Found[d][k] \notin Marks
  PROVE  Found[d][k] \in Files
<1>1. ToSet(Found[d]) = {Found[d][j] : j \in DOMAIN Found[d]}
  BY DEF ToSet
<1>. QED
  BY <1>1 DEF Files

\* What the scan wants depends on its folder and its suffixes only.
LEMMA SameWanted ==
  ASSUME scan'.folder = scan.folder, scan'.suffixes = scan.suffixes
  PROVE  Wanted' = Wanted
BY DEF Wanted, Scanned

\* A list without one of its rows.
LEMMA RowGone ==
  ASSUME CleanInv, NEW i, HasRow(delRows, i)
  PROVE  /\ DeleteItem(delRows, i) \in Seq(WantedRow)
         /\ Len(DeleteItem(delRows, i)) = Len(delRows) - 1
BY DeleteItemShrinks DEF CleanInv

\* Where a scan is in its walk, and the counters it has there.
LEMMA ScanHere ==
  ASSUME CleanInv, ScanInv, InScan, scan.at <= Len(Scanned)
  PROVE  /\ IsWalk(Scanned) /\ scan.folder \in Folders /\ scan.at \in DOMAIN Scanned
         /\ scan.at \in Nat /\ scan.at >= 1 /\ Len(Scanned) \in Nat
         /\ scan.counters \in Seq(Nat) /\ Len(scan.counters) \in Nat
         /\ Reached = In => Len(scan.counters) + 1 = 1 + Depth(Scanned, scan.at)
         /\ Reached = Out => /\ Len(scan.counters) - 1 = 1 + Depth(Scanned, scan.at)
                             /\ Len(scan.counters) >= 1
         /\ Reached \notin {In, Out} => /\ Len(scan.counters) = 1 + Depth(Scanned, scan.at)
                                        /\ Len(scan.counters) >= 1
<1> DEFINE walk == Scanned
           at == scan.at
           len == Len(scan.counters)
<1>1. /\ scan.folder \in Folders /\ at \in Nat /\ at >= 1 /\ at <= Len(walk)
      /\ scan.counters \in Seq(Nat) /\ len = 1 + Depth(walk, at - 1)
  BY DEF CleanInv, CleanScan, ScanInv
<1>2. IsWalk(walk)
  BY <1>1, CleanerAssumption DEF Scanned
<1>3. Len(walk) \in Nat /\ len \in Nat /\ at \in DOMAIN walk
  BY <1>1, <1>2, WalkLen
<1>4. Reached = walk[at]
  BY DEF Reached
<1> HIDE DEF walk, at, len
<1>5. /\ Depth(walk, at - 1) \in Int /\ Depth(walk, at) \in Int /\ Depth(walk, at) >= 0
      /\ walk[at] = In => Depth(walk, at) = Depth(walk, at - 1) + 1
      /\ walk[at] = Out => Depth(walk, at) = Depth(walk, at - 1) - 1
      /\ walk[at] \notin {In, Out} => Depth(walk, at) = Depth(walk, at - 1)
  BY <1>2, <1>3, DepthHere
<1>6. /\ Reached = In => len + 1 = 1 + Depth(walk, at)
      /\ Reached = Out => len - 1 = 1 + Depth(walk, at) /\ len >= 1
      /\ Reached \notin {In, Out} => len = 1 + Depth(walk, at) /\ len >= 1
  BY <1>1, <1>3, <1>4, <1>5
<1>. QED
  BY <1>1, <1>2, <1>3, <1>6 DEF walk, at, len

\* The scan goes one step on in the same walk.
LEMMA ScanFurther ==
  ASSUME CleanInv, NEW counters \in Seq(Nat), NEW met \in SUBSET Files, ScanOn(counters, met)
  PROVE  /\ scan' \in CleanScan
         /\ scan'.at = scan.at + 1 /\ scan'.counters = counters /\ scan'.met = met
         /\ scan'.folder = scan.folder /\ scan'.suffixes = scan.suffixes
         /\ Scanned' = Scanned /\ Wanted' = Wanted
<1>1. /\ scan.folder \in Folders /\ scan.suffixes \in Seq(Postfixes) /\ scan.at \in Nat
      /\ scan = [folder |-> scan.folder, suffixes |-> scan.suffixes, at |-> scan.at,
                 counters |-> scan.counters, met |-> scan.met]
  BY DEF CleanInv, CleanScan
<1>2. scan' = [folder |-> scan.folder, suffixes |-> scan.suffixes, at |-> scan.at + 1,
               counters |-> counters, met |-> met]
  BY <1>1 DEF ScanOn
<1>3. scan.at + 1 \in Nat
  BY <1>1
<1>4. scan' \in CleanScan
  BY <1>1, <1>2, <1>3 DEF CleanScan
<1>5. scan'.folder = scan.folder /\ scan'.suffixes = scan.suffixes
  BY <1>2
<1>6. Scanned' = Scanned
  BY <1>5 DEF Scanned
<1>. QED
  BY <1>2, <1>4, <1>5, <1>6, SameWanted

\* A step of the scan that adds no row.
LEMMA NoRowAdded ==
  ASSUME CleanInv, ScanInv, InScan, modal' = "scanning", scan.at <= Len(Scanned),
         NEW counters \in Seq(Nat), NEW more \in SUBSET ({Reached} \ Marks),
         ScanOn(counters, scan.met \cup more), UNCHANGED <<formVars, delRows, deleting>>,
         Len(counters) = 1 + Depth(Scanned, scan.at),
         \A k \in DOMAIN counters :
           counters[k] = 0 \/ \E j \in DOMAIN scan.counters : counters[k] = scan.counters[j],
         \A f \in more : ~HasSuffix(f)
  PROVE  CleanInv' /\ ScanInv'
<1>1. /\ IsWalk(Scanned) /\ scan.folder \in Folders /\ scan.at \in DOMAIN Scanned
      /\ scan.at \in Nat /\ scan.at >= 1 /\ Len(Scanned) \in Nat /\ scan.counters \in Seq(Nat)
  BY ScanHere
<1>2. scan.met \cup more \in SUBSET Files
  <2>1. more \subseteq Files
    BY <1>1, FoundFile DEF Reached, Scanned
  <2>. QED
    BY <2>1 DEF CleanInv, CleanScan
<1>3. /\ scan' \in CleanScan /\ scan'.at = scan.at + 1 /\ scan'.counters = counters
      /\ scan'.met = scan.met \cup more /\ scan'.suffixes = scan.suffixes
      /\ Scanned' = Scanned /\ Wanted' = Wanted
  BY <1>2, ScanFurther
<1>4. deleting = 0 /\ deleting' = 0
  BY DEF CleanInv, InScan
<1>5. CleanInv'
  BY <1>3, <1>4 DEF CleanInv, formVars, WantedRow
<1>6. Sought' = Sought
  BY <1>3 DEF Sought, HasSuffix
<1>7. scan'.at >= 1 /\ scan'.at <= Len(Scanned') + 1 /\ scan'.at - 1 = scan.at
  BY <1>1, <1>3
<1>8. Len(scan'.counters) = 1 + Depth(Scanned', scan'.at - 1)
  BY <1>3, <1>7
<1>9. \A k \in DOMAIN scan'.counters : scan'.counters[k] <= Len(delRows')
  <2>1. Len(delRows) \in Nat /\ \A k \in DOMAIN scan.counters : scan.counters[k] <= Len(delRows)
    BY DEF CleanInv, ScanInv
  <2>. QED
    BY <1>1, <1>3, <2>1, CountersBound
<1>10. scan'.met \subseteq Passed(Scanned', scan'.at) /\ IsFiniteSet(scan'.met)
  <2>1. scan.met \subseteq Passed(Scanned, scan.at) /\ IsFiniteSet(scan.met)
    BY DEF ScanInv
  <2>2. /\ Reached \in Marks => Passed(Scanned, scan.at + 1) = Passed(Scanned, scan.at)
        /\ Reached \notin Marks =>
             Passed(Scanned, scan.at + 1) = Passed(Scanned, scan.at) \cup {Reached}
    BY <1>1, PassedNext DEF Reached
  <2>3. scan.met \cup more \subseteq Passed(Scanned, scan.at + 1)
    BY <2>1, <2>2
  <2>4. IsFiniteSet(scan.met \cup more)
    <3>1. IsFiniteSet({Reached}) /\ more \subseteq {Reached}
      BY FS_Singleton
    <3>. QED
      BY <2>1, <3>1, FS_Subset, FS_Union
  <2>. QED
    BY <1>3, <2>3, <2>4
<1>11. /\ Len(delRows') = Cardinality(Sought')
       /\ {delRows'[i].path : i \in DOMAIN delRows'} = Sought'
  BY <1>6 DEF ScanInv
<1>12. ScanInv'
  BY <1>7, <1>8, <1>9, <1>10, <1>11 DEF ScanInv, InScan
<1>. QED
  BY <1>5, <1>12

\* A list with a row of a wanted file inserted at a counter and named there.
LEMMA NamedPath ==
  ASSUME NEW rows \in Seq(WantedRow), NEW i \in 0 .. Len(rows), NEW f \in Wanted
  PROVE  LET new == SetItemText(InsertItem(rows, i, [path |-> NoPath]), i, "path", f)
         IN /\ new \in Seq(WantedRow) /\ Len(new) = Len(rows) + 1
            /\ {new[j].path : j \in DOMAIN new} = {rows[j].path : j \in DOMAIN rows} \cup {f}
<1> DEFINE blank == [path |-> NoPath]
           named == [path |-> f]
           new == InsertItem(rows, i, named)
<1>1. named \in WantedRow /\ named.path = f /\ [blank EXCEPT !["path"] = f] = named
  BY DEF WantedRow
<1>2. SetItemText(InsertItem(rows, i, blank), i, "path", f) = new
  <2> HIDE DEF blank, named
  <2>. QED
    BY <1>1, InsertedThere DEF SetItemText
<1> HIDE DEF named, blank
<1>3. new \in Seq(WantedRow) /\ Len(new) = Len(rows) + 1
  <2>1. i \in Nat
    OBVIOUS
  <2>2. named \in WantedRow
    BY <1>1
  <2>. QED
    BY <2>1, <2>2, InsertItemGrows, Zenon DEF new
<1>4. /\ \A j \in DOMAIN new : new[j] = named \/ \E k \in DOMAIN rows : new[j] = rows[k]
      /\ \A k \in DOMAIN rows : \E j \in DOMAIN new : new[j] = rows[k]
      /\ \E j \in DOMAIN new : new[j] = named
  <2>1. WithRow(new, rows, named)
    BY InsertedRows, Zenon
  <2>. QED
    BY <2>1, Zenon DEF WithRow
<1> HIDE DEF new
<1>5. {new[j].path : j \in DOMAIN new} = {rows[j].path : j \in DOMAIN rows} \cup {f}
  <2>1. \A x \in {new[j].path : j \in DOMAIN new} : x \in {rows[j].path : j \in DOMAIN rows} \cup {f}
    BY <1>1, <1>4
  <2>2. \A x \in {rows[j].path : j \in DOMAIN rows} : x \in {new[j].path : j \in DOMAIN new}
    BY <1>4
  <2>3. f \in {new[j].path : j \in DOMAIN new}
    BY <1>1, <1>4
  <2>. QED
    BY <2>1, <2>2, <2>3, Zenon
<1>. QED
  BY <1>2, <1>3, <1>5 DEF blank

\* A file that matches gets its row at the counter of its folder, which is within the list.
LEMMA ScanFileKeeps ==
  ASSUME CleanInv, ScanInv, ScanFile
  PROVE  CleanInv' /\ ScanInv'
<1> DEFINE f == Reached
           c == scan.counters
           i == Head(c)
           counters == <<i + 1>> \o Tail(c)
           new == SetItemText(InsertItem(delRows, i, [path |-> NoPath]), i, "path", f)
<1>1. /\ modal = "scanning" /\ modal' = modal /\ InScan /\ scan.at <= Len(Scanned)
      /\ f \notin Marks /\ HasSuffix(f) /\ delRows' = new /\ ScanOn(counters, scan.met \cup {f})
      /\ UNCHANGED <<formVars, deleting>>
  BY DEF ScanFile, Scanning, InScan, PathRow, shell
<1>2. /\ IsWalk(Scanned) /\ scan.folder \in Folders /\ scan.at \in DOMAIN Scanned
      /\ scan.at \in Nat /\ scan.at >= 1 /\ Len(Scanned) \in Nat
      /\ c \in Seq(Nat) /\ Len(c) = 1 + Depth(Scanned, scan.at) /\ Len(c) >= 1
  <2>1. Reached \notin {In, Out}
    BY <1>1 DEF Marks
  <2>. QED
    BY <1>1, <2>1, ScanHere
<1>3. /\ f \in Files /\ f \in Wanted /\ scan.met \subseteq Files
      /\ \E k \in DOMAIN scan.suffixes : f \in Matching[scan.suffixes[k]]
  <2>1. f \in Files
    BY <1>1, <1>2, FoundFile DEF Reached, Scanned
  <2>. QED
    BY <1>1, <1>2, <2>1 DEF Wanted, Reached, HasSuffix, CleanInv, CleanScan
<1>4. /\ i = c[1] /\ i \in Nat
      /\ \A x \in Nat :
           /\ <<x>> \o Tail(c) \in Seq(Nat) /\ Len(<<x>> \o Tail(c)) = Len(c)
           /\ DOMAIN (<<x>> \o Tail(c)) = DOMAIN c
           /\ \A k \in DOMAIN c : (<<x>> \o Tail(c))[k] = IF k = 1 THEN x ELSE c[k]
  <2> HIDE DEF c
  <2>1. i = c[1] /\ i \in Nat
    BY <1>2, FirstCounter
  <2>. QED
    BY <1>2, <2>1, FirstCounter
<1>5. /\ counters \in Seq(Nat) /\ Len(counters) = Len(c) /\ DOMAIN counters = DOMAIN c
      /\ \A k \in DOMAIN c : counters[k] = IF k = 1 THEN i + 1 ELSE c[k]
  <2>1. i + 1 \in Nat
    BY <1>4
  <2> HIDE DEF i, c
  <2>. QED
    BY <1>4, <2>1
<1>6. /\ \A k \in DOMAIN c : c[k] <= Len(delRows)
      /\ scan.met \subseteq Passed(Scanned, scan.at) /\ IsFiniteSet(scan.met)
      /\ Len(delRows) = Cardinality(Sought)
      /\ {delRows[k].path : k \in DOMAIN delRows} = Sought
  BY <1>1 DEF ScanInv
<1>7. delRows \in Seq(WantedRow) /\ Len(delRows) \in Nat /\ deleting = 0
  BY <1>1 DEF CleanInv
<1>8. /\ scan' \in CleanScan /\ scan'.at = scan.at + 1 /\ scan'.counters = counters
      /\ scan'.met = scan.met \cup {f} /\ scan'.suffixes = scan.suffixes
      /\ Scanned' = Scanned /\ Wanted' = Wanted
  <2>1. scan.met \cup {f} \in SUBSET Files
    BY <1>3
  <2> HIDE DEF counters, f
  <2>. QED
    BY <1>1, <1>5, <2>1, ScanFurther
<1> HIDE DEF counters
<1>9. i \in 0 .. Len(delRows)
  <2>1. 1 \in DOMAIN c
    BY <1>2
  <2>2. c[1] <= Len(delRows)
    BY <1>6, <2>1
  <2>. QED
    BY <1>4, <1>7, <2>2
<1> HIDE DEF f, i, c
<1>10. /\ new \in Seq(WantedRow) /\ Len(new) = Len(delRows) + 1
       /\ {new[j].path : j \in DOMAIN new} = {delRows[j].path : j \in DOMAIN delRows} \cup {f}
  <2>1. f \in Wanted /\ delRows \in Seq(WantedRow) /\ i \in 0 .. Len(delRows)
    BY <1>3, <1>7, <1>9
  <2>. QED
    BY <2>1, NamedPath, Zenon
<1> HIDE DEF new
<1>11. CleanInv'
  <2>1. delRows' \in Seq(WantedRow')
    BY <1>1, <1>8, <1>10 DEF WantedRow
  <2>2. deleting' = 0 /\ Len(delRows') \in Nat
    BY <1>1, <1>7, <1>10
  <2>. QED
    BY <1>1, <1>8, <2>1, <2>2 DEF CleanInv, formVars
<1>12. /\ Passed(Scanned, scan.at + 1) = Passed(Scanned, scan.at) \cup {f}
       /\ f \notin Passed(Scanned, scan.at)
  BY <1>1, <1>2, PassedNext DEF f, Reached
<1>13. Sought' = Sought \cup {f}
  BY <1>3, <1>8 DEF Sought
<1>14. IsFiniteSet(scan'.met) /\ Cardinality(Sought') = Cardinality(Sought) + 1
  <2>1. Sought \subseteq scan.met
    BY DEF Sought
  <2>2. IsFiniteSet(Sought) /\ f \notin Sought
    BY <1>6, <1>12, <2>1, FS_Subset
  <2>3. Cardinality(Sought \cup {f}) = Cardinality(Sought) + 1
    BY <2>2, FS_AddElement, Zenon
  <2>4. IsFiniteSet(scan.met \cup {f})
    BY <1>6, FS_AddElement, Zenon
  <2>. QED
    BY <1>8, <1>13, <2>3, <2>4, Zenon
<1>15. \A k \in DOMAIN scan'.counters : scan'.counters[k] <= Len(delRows')
  <2>1. Len(delRows') = Len(delRows) + 1 /\ \A k \in DOMAIN c : c[k] \in Nat
    BY <1>1, <1>2, <1>10
  <2>2. i <= Len(delRows) /\ i \in Nat
    BY <1>9, <1>4
  <2>. QED
    BY <1>5, <1>6, <1>7, <1>8, <2>1, <2>2
<1>16. scan'.at >= 1 /\ scan'.at <= Len(Scanned') + 1 /\ scan'.at - 1 = scan.at
  BY <1>1, <1>2, <1>8
<1>17. Len(scan'.counters) = 1 + Depth(Scanned', scan'.at - 1)
  BY <1>2, <1>5, <1>8, <1>16
<1>18. scan'.met \subseteq Passed(Scanned', scan'.at)
  BY <1>6, <1>8, <1>12
<1>19. /\ Len(delRows') = Cardinality(Sought')
       /\ {delRows'[k].path : k \in DOMAIN delRows'} = Sought'
  BY <1>1, <1>6, <1>10, <1>13, <1>14
<1>20. modal' # "scanbox"
  BY <1>1
<1>. QED
  BY <1>11, <1>14, <1>15, <1>16, <1>17, <1>18, <1>19, <1>20 DEF ScanInv

\* The other steps of a scan: a file that is gone or does not match, and the marks.
LEMMA ScanPasses ==
  ASSUME CleanInv, ScanInv, PassFile \/ EnterSub \/ LeaveSub \/ AnswerScanBox
  PROVE  CleanInv' /\ ScanInv'
<1>1. CASE PassFile
  <2>1. /\ InScan /\ modal' = "scanning" /\ scan.at <= Len(Scanned) /\ Reached \notin {In, Out}
        /\ ScanOn(scan.counters, scan.met \cup ({Reached} \cap disk)) /\ Reached \notin Marks
        /\ UNCHANGED <<formVars, delRows, deleting>>
        /\ \A f \in {Reached} \cap disk : ~HasSuffix(f)
    BY <1>1 DEF PassFile, Scanning, InScan, Marks, shell
  <2>2. scan.counters \in Seq(Nat) /\ Len(scan.counters) = 1 + Depth(Scanned, scan.at)
    BY <2>1, ScanHere
  <2>3. {Reached} \cap disk \in SUBSET ({Reached} \ Marks)
    BY <2>1
  <2>. QED
    BY <2>1, <2>2, <2>3, NoRowAdded
<1>2. CASE EnterSub
  <2>0. PICK more : more = {}
    OBVIOUS
  <2> DEFINE counters == <<0>> \o scan.counters
  <2>1. /\ InScan /\ modal' = "scanning" /\ scan.at <= Len(Scanned) /\ Reached = In
        /\ ScanOn(counters, scan.met \cup more) /\ more = {}
        /\ UNCHANGED <<formVars, delRows, deleting>>
    BY <1>2, <2>0 DEF EnterSub, Scanning, InScan, shell
  <2>2. scan.counters \in Seq(Nat) /\ Len(scan.counters) + 1 = 1 + Depth(Scanned, scan.at)
    BY <2>1, ScanHere
  <2>3. /\ counters \in Seq(Nat) /\ Len(counters) = 1 + Depth(Scanned, scan.at)
        /\ \A k \in DOMAIN counters :
             counters[k] = 0 \/ \E j \in DOMAIN scan.counters : counters[k] = scan.counters[j]
    BY <2>2, ZeroInFront
  <2> HIDE DEF counters
  <2>4. more \in SUBSET ({Reached} \ Marks) /\ \A f \in more : ~HasSuffix(f)
    BY <2>0
  <2>. QED
    BY <2>1, <2>3, <2>4, NoRowAdded
<1>3. CASE LeaveSub
  <2>0. PICK more : more = {}
    OBVIOUS
  <2> DEFINE counters == Tail(scan.counters)
  <2>1. /\ InScan /\ modal' = "scanning" /\ scan.at <= Len(Scanned) /\ Reached = Out
        /\ ScanOn(counters, scan.met \cup more) /\ more = {}
        /\ UNCHANGED <<formVars, delRows, deleting>>
    BY <1>3, <2>0 DEF LeaveSub, Scanning, InScan, shell
  <2>2. /\ scan.counters \in Seq(Nat) /\ Len(scan.counters) >= 1
        /\ Len(scan.counters) - 1 = 1 + Depth(Scanned, scan.at)
    BY <2>1, ScanHere
  <2>3. /\ counters \in Seq(Nat) /\ Len(counters) = 1 + Depth(Scanned, scan.at)
        /\ \A k \in DOMAIN counters :
             counters[k] = 0 \/ \E j \in DOMAIN scan.counters : counters[k] = scan.counters[j]
    BY <2>2, WithoutFirst
  <2> HIDE DEF counters
  <2>4. more \in SUBSET ({Reached} \ Marks) /\ \A f \in more : ~HasSuffix(f)
    BY <2>0
  <2>. QED
    BY <2>1, <2>3, <2>4, NoRowAdded
<1>4. CASE AnswerScanBox
  <2>0. PICK more : more = {}
    OBVIOUS
  <2>1. /\ InScan /\ modal = "scanbox" /\ modal' = "scanning"
        /\ ScanOn(scan.counters, scan.met \cup more) /\ more = {}
        /\ UNCHANGED <<formVars, delRows, deleting>>
    BY <1>4, <2>0 DEF AnswerScanBox, InScan, MoveTo
  <2>2. scan.at <= Len(Scanned) /\ Reached \notin {In, Out}
    BY <2>1, MarksAssumption DEF ScanInv
  <2>3. scan.counters \in Seq(Nat) /\ Len(scan.counters) = 1 + Depth(Scanned, scan.at)
    BY <2>1, <2>2, ScanHere
  <2>4. more \in SUBSET ({Reached} \ Marks) /\ \A f \in more : ~HasSuffix(f)
    BY <2>0
  <2>. QED
    BY <2>1, <2>2, <2>3, <2>4, NoRowAdded
<1>. QED
  BY <1>1, <1>2, <1>3, <1>4

LEMMA ScanBegins ==
  ASSUME CleanInv, ClickScan
  PROVE  CleanInv' /\ ScanInv'
<1>1. /\ deleting' = 0 /\ delRows' = <<>> /\ UNCHANGED formVars /\ modal' = "scanning"
      /\ scan' = [folder |-> strProjPath, suffixes |-> postfixVt, at |-> 1, counters |-> <<0>>,
                  met |-> {}]
  BY DEF ClickScan, Idle, MoveTo
<1>2. /\ scan' \in CleanScan /\ scan'.at = 1 /\ scan'.counters = <<0>> /\ scan'.met = {}
      /\ scan'.folder \in Folders
  BY <1>1 DEF CleanInv, CleanScan
<1>3. CleanInv'
  BY <1>1, <1>2 DEF CleanInv, formVars
<1>4. IsWalk(Scanned') /\ Len(Scanned') \in Nat
  <2>1. IsWalk(Scanned')
    BY <1>2, CleanerAssumption DEF Scanned
  <2>. QED
    BY <2>1, WalkLen
<1>5. Len(scan'.counters) = 1 + Depth(Scanned', scan'.at - 1)
  <2>1. scan'.at - 1 = 0 /\ Len(scan'.counters) = 1
    BY <1>2
  <2>2. Depth(Scanned', 0) = 0
    BY DepthStarts
  <2>. QED
    BY <2>1, <2>2
<1>6. \A k \in DOMAIN scan'.counters : scan'.counters[k] <= Len(delRows')
  BY <1>1, <1>2
<1>7. Sought' = {} /\ IsFiniteSet(scan'.met) /\ Cardinality(Sought') = 0
  BY <1>2, FS_EmptySet DEF Sought
<1>8. Len(delRows') = 0 /\ {delRows'[i].path : i \in DOMAIN delRows'} = {}
  BY <1>1
<1>9. ScanInv'
  BY <1>1, <1>2, <1>4, <1>5, <1>6, <1>7, <1>8 DEF ScanInv
<1>. QED
  BY <1>3, <1>9

LEMMA CleanInitInv == AppInit /\ CleanInit => CleanInv /\ ScanInv
<1>1. NoSuffix \in Postfixes /\ NoPath \in Folders
  BY CleanerAssumption
<1>2. EmptyText \in Text
  BY <1>1 DEF EmptyText, Text
<1>. QED
  BY <1>1, <1>2 DEF AppInit, CleanInit, CleanInv, NoScan, CleanScan, ScanInv, InScan

\* Every step of the cleaner keeps the invariants, and the delete handler takes only
\* wanted files off the disk.
LEMMA CleanStepInv ==
  ASSUME CleanInv, ScanInv, CleanStep
  PROVE  /\ CleanInv' /\ ScanInv'
         /\ deleting' < deleting => disk \ disk' \subseteq Wanted
<1> USE DEF CleanInv, WantedRow
<1>1. ASSUME NEW f \in Files, Written(f) PROVE CleanInv' /\ ScanInv' /\ deleting' = deleting
  <2>1. scan' = scan /\ delRows' = delRows /\ modal' = modal /\ deleting' = deleting
    BY <1>1 DEF Written, shell
  <2>2. ScanInv'
    BY <2>1 DEF ScanInv, InScan, Scanned, Reached, Sought
  <2>. QED
    BY <1>1, <2>1, <2>2, SameWanted DEF Written, formVars
<1>2. CASE OpenCleaner
  <2>1. NoPath \in Folders /\ Default \in Text
    BY CleanerAssumption
  <2>2. deleting = 0 /\ modal' \notin {"scanning", "scanbox"}
    BY <1>2 DEF OpenCleaner, MoveTo
  <2>. QED
    BY <1>2, <2>1, <2>2, SameWanted DEF OpenCleaner, MoveTo, ScanInv, InScan
<1>3. CASE CloseCleaner
  <2>1. NoPath \in Folders /\ NoSuffix \in Postfixes
    BY CleanerAssumption
  <2>2. EmptyText \in Text /\ NoScan \in CleanScan
    BY <2>1 DEF EmptyText, Text, NoScan, CleanScan
  <2>. QED
    BY <1>3, <2>1, <2>2 DEF CloseCleaner, MoveTo, ScanInv, InScan
<1>4. ASSUME NEW d \in Folders, PickFolder(d) PROVE CleanInv' /\ ScanInv' /\ deleting' = deleting
  BY <1>4, SameWanted DEF PickFolder, Idle, shell, ScanInv, InScan
<1>5. ASSUME NEW d \in Folders, TypePath(d) PROVE CleanInv' /\ ScanInv' /\ deleting' = deleting
  BY <1>5, SameWanted DEF TypePath, Idle, shell, ScanInv, InScan
<1>6. ASSUME NEW text \in TypedTexts, TypeSuffixes(text)
      PROVE  CleanInv' /\ ScanInv' /\ deleting' = deleting
  <2>1. text \in Text
    BY CleanerAssumption
  <2>. QED
    BY <1>6, <2>1, SameWanted DEF TypeSuffixes, Idle, shell, ScanInv, InScan
<1>7. CASE RestoreDefault
  <2>1. Default \in Text
    BY CleanerAssumption
  <2>. QED
    BY <1>7, <2>1, SameWanted DEF RestoreDefault, Idle, shell, ScanInv, InScan
<1>8. CASE ReadSuffixes
  <2>1. edits.text \in Text /\ edits.path \in Folders
    OBVIOUS
  <2>2. edits.text.pieces \in Seq(Postfixes) /\ edits.text.tail \in Postfixes
    BY <2>1 DEF Text
  <2>3. [pieces |-> <<>>, tail |-> edits.text.tail] \in Text
    BY <2>2 DEF Text
  <2>. QED
    BY <1>8, <2>1, <2>2, <2>3, SameWanted DEF ReadSuffixes, Idle, shell, ScanInv, InScan
<1>9. CASE ClickScan
  <2>1. deleting' = deleting
    BY <1>9 DEF ClickScan
  <2>. QED
    BY <1>9, <2>1, ScanBegins
<1>10. CASE ScanFile
  <2>1. deleting' = deleting
    BY <1>10 DEF ScanFile
  <2>. QED
    BY <1>10, <2>1, ScanFileKeeps
<1>11. CASE PassFile \/ EnterSub \/ LeaveSub \/ AnswerScanBox
  <2>1. deleting' = deleting
    BY <1>11 DEF PassFile, EnterSub, LeaveSub, AnswerScanBox
  <2>. QED
    BY <1>11, <2>1, ScanPasses
<1>12. CASE ScanDenied
  <2>1. /\ modal = "scanning" /\ modal' = "scanbox" /\ UNCHANGED cleanVars
        /\ scan.at <= Len(Scanned) /\ Reached = Denied
    BY <1>12 DEF ScanDenied, Scanning, MoveTo
  <2>2. CleanInv'
    BY <2>1, SameWanted DEF cleanVars
  <2>3. ScanInv'
    BY <2>1 DEF ScanInv, InScan, Scanned, Reached, Sought, cleanVars
  <2>4. deleting' = deleting
    BY <2>1 DEF cleanVars
  <2>. QED
    BY <2>2, <2>3, <2>4
<1>13. CASE EndScan
  <2>1. deleting = 0 /\ modal' = "cleaner"
    BY <1>13 DEF EndScan, MoveTo
  <2>. QED
    BY <1>13, <2>1, SameWanted DEF EndScan, MoveTo, cleanVars, ScanInv, InScan
<1>14. CASE ClickConfirm
  <2>1. Len(delRows) \in Nat
    OBVIOUS
  <2>. QED
    BY <1>14, <2>1, SameWanted DEF ClickConfirm, Idle, shell, formVars, ScanInv, InScan
<1>15. CASE DeleteFile
  <2>1. HasRow(delRows, deleting - 1)
    BY <1>15 DEF DeleteFile, HasRow
  <2>2. delRows[deleting].path \in Wanted
    <3>1. deleting \in 1 .. Len(delRows)
      BY <1>15 DEF DeleteFile
    <3>2. delRows[deleting] \in WantedRow
      <4> HIDE DEF WantedRow
      <4>. QED
        BY <3>1
    <3>. QED
      BY <3>2
  <2>3. disk \ disk' \subseteq Wanted
    BY <1>15, <2>2 DEF DeleteFile
  <2>4. delRows' \in Seq(WantedRow) /\ Len(delRows') = Len(delRows) - 1
    <3>1. delRows' = DeleteItem(delRows, deleting - 1)
      BY <1>15 DEF DeleteFile
    <3> HIDE DEF WantedRow
    <3>. QED
      BY <2>1, <3>1, RowGone
  <2>5. ScanInv'
    BY <1>15 DEF DeleteFile, shell, ScanInv, InScan
  <2>. QED
    BY <1>15, <2>3, <2>4, <2>5, SameWanted DEF DeleteFile, shell, formVars
<1>16. CASE KeepFile
  BY <1>16, SameWanted DEF KeepFile, shell, formVars, ScanInv, InScan
<1> HIDE DEF WantedRow
<1>17. deleting \in Nat
  OBVIOUS
<1> HIDE DEF CleanInv
<1>18. CASE ClickConfirm
  <2>1. ~(deleting' < deleting)
    BY <1>18, <1>14 DEF ClickConfirm, Idle, CleanInv
  <2>. QED
    BY <1>14, <1>18, <2>1
<1>19. CASE EndScan \/ KeepFile \/ OpenCleaner \/ CloseCleaner \/ RestoreDefault \/ ReadSuffixes
  <2>1. disk' = disk
    BY <1>19 DEF EndScan, KeepFile, OpenCleaner, CloseCleaner, RestoreDefault, ReadSuffixes, cleanVars
  <2>. QED
    BY <1>2, <1>3, <1>7, <1>8, <1>13, <1>16, <1>19, <2>1
<1>20. CASE ClickScan \/ ScanFile \/ PassFile \/ EnterSub \/ LeaveSub \/ AnswerScanBox \/ ScanDenied
  <2>1. disk' = disk
    BY <1>20 DEF ClickScan, ScanFile, PassFile, EnterSub, LeaveSub, AnswerScanBox, ScanDenied, cleanVars
  <2>. QED
    BY <1>9, <1>10, <1>11, <1>12, <1>20, <2>1
<1>. QED
  BY <1>1, <1>4, <1>5, <1>6, <1>15, <1>17, <1>18, <1>19, <1>20 DEF CleanStep

\* The cleaner's type, and the disk holds only files there are.
CleanerInv == CleanInv /\ ScanInv /\ disk \subseteq Files

LEMMA DiskStep ==
  ASSUME disk \subseteq Files, CleanStep
  PROVE  disk' \subseteq Files
<1>1. ASSUME NEW f \in Files, Written(f) PROVE disk' \subseteq Files
  BY <1>1 DEF Written
<1>2. CASE DeleteFile
  BY <1>2 DEF DeleteFile
<1>3. ASSUME NEW d, PickFolder(d) \/ TypePath(d) \/ TypeSuffixes(d) PROVE disk' = disk
  BY <1>3 DEF PickFolder, TypePath, TypeSuffixes
<1>4. CASE OpenCleaner \/ CloseCleaner \/ RestoreDefault \/ ReadSuffixes \/ ClickScan
  BY <1>4 DEF OpenCleaner, CloseCleaner, RestoreDefault, ReadSuffixes, ClickScan
<1>5. CASE ScanFile \/ PassFile \/ EndScan \/ ClickConfirm \/ KeepFile
  BY <1>5 DEF ScanFile, PassFile, EndScan, ClickConfirm, KeepFile, cleanVars
<1>6. CASE EnterSub \/ LeaveSub \/ ScanDenied \/ AnswerScanBox
  BY <1>6 DEF EnterSub, LeaveSub, ScanDenied, AnswerScanBox, cleanVars
<1>. QED
  BY <1>1, <1>2, <1>3, <1>4, <1>5, <1>6 DEF CleanStep

LEMMA CleanerUnmoved ==
  ASSUME CleanerInv, UNCHANGED cleanVars, Still(CleanDialogs)
  PROVE  CleanerInv'
<1>1. /\ InScan' => modal' = modal
      /\ modal = "cleaner" => modal' = "cleaner"
  BY DEF Still, CleanDialogs, InScan
<1>2. CleanInv'
  BY <1>1, SameWanted DEF CleanerInv, CleanInv, WantedRow, cleanVars
<1>3. ScanInv'
  BY <1>1 DEF CleanerInv, ScanInv, InScan, Scanned, Reached, Sought, cleanVars
<1>. QED
  BY <1>2, <1>3 DEF CleanerInv, cleanVars

LEMMA CleanerHolds == Spec => []CleanerInv
<1>1. Init => CleanerInv
  BY CleanInitInv DEF Init, CleanInit, CleanerInv
<1>2. ASSUME CleanerInv, Next PROVE CleanerInv'
  BY <1>2, OneTool, CleanStepInv, DiskStep, CleanerUnmoved DEF CleanerInv
<1>3. CleanerInv /\ UNCHANGED vars => CleanerInv'
  BY NoStep, CleanerUnmoved
<1>. QED
  BY <1>1, <1>2, <1>3, PTL DEF Spec

\* The variables of the cleaner keep their types (CVSCleanerDialog.cpp), for any folders,
\* suffixes and files.
LEMMA CleanTypeCorrect == CleanerInv => CleanTypeOK
<1>1. ASSUME CleanerInv PROVE CleanTypeOK
  <2>1. \A i \in DOMAIN delRows : delRows[i].path \in Files
    <3>1. \A i \in DOMAIN delRows : delRows[i] \in WantedRow
      BY <1>1 DEF CleanerInv, CleanInv
    <3>2. \A r \in WantedRow : r.path \in Files
      BY DEF WantedRow, Wanted
    <3>. QED
      BY <3>1, <3>2
  <2>2. deleting \in 0 .. Len(delRows)
    BY <1>1 DEF CleanerInv, CleanInv
  <2>3. scan.folder \in Folders /\ edits.text \in Text
    BY <1>1 DEF CleanerInv, CleanInv, CleanScan
  <2>. QED
    BY <1>1, <2>1, <2>2, <2>3 DEF CleanerInv, CleanInv, CleanTypeOK
<1>. QED
  BY <1>1

\* While a scan runs the list holds one row for every file it came by that matches, with
\* the path of that file, although rows are inserted and filled at a number that every
\* sub-folder counts anew (CVSCleanerDialog.cpp, 125 to 159): for any walks that leave only
\* folders they have entered and come by no file twice, and any suffixes.
THEOREM ScansListOnce == Spec => []ScanListsOnce
<1>1. CleanerInv => ScanListsOnce
  BY DEF CleanerInv, ScanInv, InScan, ScanListsOnce
<1>. QED
  BY CleanerHolds, <1>1, PTL

\* The delete handler of the project cleaner deletes only files that the scan had
\* matched (CVSCleanerDialog.cpp, 102 to 107 and 172 to 186), for any folders, suffixes
\* and lists.
THEOREM DeletesOnlyScanned == Spec => OnlyScannedDeleted
<1>1. CleanerInv /\ [Next]_vars
        => [deleting' < deleting => disk \ disk' \subseteq Wanted]_<<shell, cleanVars>>
  <2> SUFFICES ASSUME CleanerInv, Next, deleting' < deleting PROVE disk \ disk' \subseteq Wanted
    BY DEF vars
  <2>1. CASE CleanStep
    BY <2>1, CleanStepInv DEF CleanerInv
  <2>2. CASE UNCHANGED cleanVars
    <3>1. deleting' = deleting /\ deleting \in Nat
      BY <2>2 DEF cleanVars, CleanerInv, CleanInv
    <3>. QED
      BY <3>1
  <2>. QED
    BY <2>1, <2>2, OneTool
<1>. QED
  BY CleanerHolds, <1>1, PTL DEF Spec, OnlyScannedDeleted

-----------------------------------------------------------------------------
(* The services.                                                            *)

ServRow == [name : ServiceNames, shown : States]

\* The list has the services in their order, and while the menu is up the global name
\* is that of the row it was opened on.
ServInv ==
  /\ ServTypeOK
  /\ svRows \in Seq(ServRow)
  /\ svRows = <<>> \/ \A i \in DOMAIN svRows : i \in DOMAIN Services /\ svRows[i].name = Services[i]
  /\ modal = "servicemenu" => svName = GetItemText(svRows, nRow, "name", NoService)
  /\ ShownAgrees

\* What a command leaves in the list.
LEMMA ShownSet ==
  ASSUME NEW rows \in Seq(ServRow), NEW i, NEW s \in States
  PROVE  LET new == SetItemText(rows, i, "shown", s)
         IN /\ new \in Seq(ServRow) /\ DOMAIN new = DOMAIN rows
            /\ \A j \in DOMAIN rows :
                 /\ new[j].name = rows[j].name
                 /\ new[j].shown = IF HasRow(rows, i) /\ j = i + 1 THEN s ELSE rows[j].shown
<1>1. CASE HasRow(rows, i)
  <2> DEFINE r == [rows[i + 1] EXCEPT !["shown"] = s]
  <2>1. i + 1 \in DOMAIN rows /\ rows[i + 1] \in ServRow
    BY <1>1 DEF HasRow
  <2>2. r \in ServRow /\ r.name = rows[i + 1].name /\ r.shown = s
    BY <2>1 DEF ServRow
  <2>3. SetItemText(rows, i, "shown", s) = [rows EXCEPT ![i + 1] = r]
    BY <1>1 DEF SetItemText
  <2> HIDE DEF r
  <2>4. [rows EXCEPT ![i + 1] = r] \in Seq(ServRow)
    BY <2>2, ReplaceRow
  <2>5. \A j \in DOMAIN rows : [rows EXCEPT ![i + 1] = r][j] = IF j = i + 1 THEN r ELSE rows[j]
    BY <2>1
  <2>. QED
    BY <1>1, <2>2, <2>3, <2>4, <2>5
<1>2. CASE ~HasRow(rows, i)
  BY <1>2 DEF SetItemText
<1>. QED
  BY <1>1, <1>2

LEMMA BehindFacts ==
  /\ \A s \in States : s \in Behind(s)
  /\ \A s \in States : "start_pending" \in Behind(s) => "running" \in Behind(s)
  /\ \A s \in States : "stop_pending" \in Behind(s) => "stopped" \in Behind(s)
  /\ \A s \in States : "pause_pending" \in Behind(s) => "paused" \in Behind(s)
  /\ \A s \in States : "continue_pending" \in Behind(s) => "running" \in Behind(s)
  /\ "start_pending" \in Behind("running") /\ "stop_pending" \in Behind("paused")
BY DEF Behind, States, NotRunning

LEMMA ServInitInv == Init => ServInv
BY DEF Init, AppInit, ServInit, ServInv, ServTypeOK, ShownAgrees, States, NotRunning, NoState

\* A command and what it shows.
LEMMA CommandKeeps ==
  ASSUME ServInv, modal = "servicemenu", NEW able \in SUBSET ServiceNames, NEW from,
         NEW to \in States, NEW shown \in States, to \in Behind(shown),
         Command(able, from, to), svRows' = SetItemText(svRows, nRow, "shown", shown),
         UNCHANGED <<svName, svStatus>>, modal' = "services"
  PROVE  ServInv'
<1> USE DEF ServInv, ServTypeOK
<1>1. /\ svRows' \in Seq(ServRow) /\ DOMAIN svRows' = DOMAIN svRows
      /\ \A j \in DOMAIN svRows :
           /\ svRows'[j].name = svRows[j].name
           /\ svRows'[j].shown = IF HasRow(svRows, nRow) /\ j = nRow + 1 THEN shown
                                 ELSE svRows[j].shown
  BY ShownSet
<1>2. svReal' \in [ServiceNames -> States] /\ svMoved' \subseteq ServiceNames
  BY DEF Command
<1>3. ASSUME NEW j \in DOMAIN svRows', svRows'[j].name \notin svMoved'
      PROVE  svReal'[svRows'[j].name] \in Behind(svRows'[j].shown)
  <2>1. j \in DOMAIN svRows /\ svRows'[j].name = svRows[j].name
    BY <1>1, <1>3
  <2>2. svRows[j] \in ServRow /\ j \in DOMAIN Services /\ svRows[j].name = Services[j]
    BY <2>1
  <2>3. svRows[j].name \in ServiceNames
    BY <2>2 DEF ServRow
  <2>4. CASE svRows[j].name = svName
    <3>1. svName # NoService /\ svName \in ServiceNames
      BY <2>3, <2>4, ServiceAssumption
    <3>2. HasRow(svRows, nRow) /\ svName = svRows[nRow + 1].name
      BY <3>1 DEF GetItemText
    <3>3. nRow + 1 \in DOMAIN svRows
      BY <3>2 DEF HasRow
    <3>4. Services[nRow + 1] = Services[j] /\ nRow + 1 \in DOMAIN Services
      BY <2>2, <2>4, <3>2, <3>3
    <3>5. j = nRow + 1
      BY <2>2, <3>4, ServiceAssumption DEF IsInjective
    <3>6. svRows'[j].shown = shown
      BY <1>1, <2>1, <3>2, <3>5
    <3>7. svReal' = [svReal EXCEPT ![svName] = to]
      BY <1>3, <2>1, <2>4, <3>1 DEF Command
    <3>. QED
      BY <2>1, <2>4, <3>1, <3>6, <3>7
  <2>5. CASE svRows[j].name # svName
    <3>1. ~(HasRow(svRows, nRow) /\ j = nRow + 1)
      BY <2>5 DEF GetItemText
    <3>2. svRows'[j].shown = svRows[j].shown
      BY <1>1, <2>1, <3>1
    <3>3. svReal'[svRows[j].name] = svReal[svRows[j].name] /\ svRows[j].name \notin svMoved
      BY <1>3, <2>1, <2>3, <2>5 DEF Command
    <3>. QED
      BY <2>1, <3>2, <3>3 DEF ShownAgrees
  <2>. QED
    BY <2>4, <2>5
<1>4. ShownAgrees'
  BY <1>3 DEF ShownAgrees
<1>5. \A i \in DOMAIN svRows' : svRows'[i] \in ServRow
  BY <1>1
<1>6. svRows' = <<>>
      \/ \A i \in DOMAIN svRows' : i \in DOMAIN Services /\ svRows'[i].name = Services[i]
  BY <1>1
<1>. QED
  BY <1>1, <1>2, <1>4, <1>5, <1>6 DEF ServRow

LEMMA ServStepInv ==
  ASSUME ServInv, ServStep
  PROVE  ServInv'
<1> USE DEF ServInv, ServTypeOK
<1>0. \A i \in DOMAIN svRows : svRows[i].name \in ServiceNames /\ svRows[i].shown \in States
  <2>1. \A r \in ServRow : r.name \in ServiceNames /\ r.shown \in States
    BY DEF ServRow
  <2>. QED
    BY <2>1
<1>1. ASSUME NEW s \in ServiceNames, Settles(s) PROVE ServInv'
  <2>1. UNCHANGED <<modal, nRow, svRows, svName, svStatus, svMoved>>
    BY <1>1 DEF Settles, shell
  <2>2. svReal' \in [ServiceNames -> States]
    BY <1>1 DEF Settles, States, NotRunning
  <2>3. ASSUME NEW i \in DOMAIN svRows, svRows[i].name \notin svMoved
        PROVE  svReal'[svRows[i].name] \in Behind(svRows[i].shown)
    <3>1. svReal[svRows[i].name] \in Behind(svRows[i].shown)
      BY <2>3 DEF ShownAgrees
    <3>2. \/ svReal'[svRows[i].name] = svReal[svRows[i].name]
          \/ svReal[svRows[i].name] = "start_pending" /\ svReal'[svRows[i].name] = "running"
          \/ svReal[svRows[i].name] = "stop_pending" /\ svReal'[svRows[i].name] = "stopped"
          \/ svReal[svRows[i].name] = "pause_pending" /\ svReal'[svRows[i].name] = "paused"
          \/ svReal[svRows[i].name] = "continue_pending" /\ svReal'[svRows[i].name] = "running"
      BY <1>0, <1>1 DEF Settles
    <3>. QED
      BY <1>0, <3>1, <3>2, BehindFacts
  <2>4. ShownAgrees'
    BY <2>1, <2>3 DEF ShownAgrees
  <2>. QED
    BY <2>1, <2>2, <2>4
<1>2. ASSUME NEW s \in ServiceNames, NEW state \in {"stopped", "paused", "running"},
             Others(s, state)
      PROVE  ServInv'
  <2>1. UNCHANGED <<modal, nRow, svRows, svName, svStatus>>
    BY <1>2 DEF Others, shell
  <2>2. svReal' \in [ServiceNames -> States] /\ svMoved' \subseteq ServiceNames
    BY <1>2 DEF Others, States, NotRunning
  <2>3. ShownAgrees'
    BY <1>0, <1>2, <2>1 DEF ShownAgrees, Others
  <2>. QED
    BY <2>1, <2>2, <2>3
<1>3. CASE OpenServices
  <2>1. svReal' \in [ServiceNames -> States] /\ svMoved' = {} /\ UNCHANGED <<svName, svStatus>>
        /\ modal' # "servicemenu"
    BY <1>3 DEF OpenServices, MoveTo
  <2>2. CASE svRows' = <<>>
    BY <2>1, <2>2 DEF ShownAgrees
  <2>3. CASE svRows' = [i \in DOMAIN Services |-> [name |-> Services[i],
                                                   shown |-> svReal'[Services[i]]]]
    <3>1. \A i \in DOMAIN Services :
            /\ Services[i] \in ServiceNames /\ svReal'[Services[i]] \in States
            /\ svRows'[i].name = Services[i] /\ svRows'[i].shown = svReal'[Services[i]]
      BY <2>1, <2>3 DEF ServiceNames
    <3>2. DOMAIN Services = 1 .. Len(Services) /\ Len(Services) \in Nat
      BY ServiceAssumption
    <3>3. \A i \in DOMAIN Services :
            [name |-> Services[i], shown |-> svReal'[Services[i]]] \in ServRow
      BY <3>1 DEF ServRow
    <3>4. svRows' \in Seq(ServRow) /\ DOMAIN svRows' = DOMAIN Services
      BY <2>3, <3>2, <3>3
    <3>5. ShownAgrees'
      BY <3>1, <3>4, BehindFacts DEF ShownAgrees
    <3>6. \A i \in DOMAIN svRows' : svRows'[i] \in ServRow
      BY <3>4
    <3>. QED
      BY <2>1, <3>1, <3>4, <3>5, <3>6 DEF ServRow
  <2>. QED
    BY <1>3, <2>2, <2>3 DEF OpenServices
<1>4. CASE CloseServices
  BY <1>4 DEF CloseServices, MoveTo, ShownAgrees
<1>5. CASE DismissServiceMenu
  BY <1>5 DEF DismissServiceMenu, MoveTo, servVars, ShownAgrees
<1>6. ASSUME NEW r \in Clickable(svRows), RightClickService(r) PROVE ServInv'
  <2>1. UNCHANGED <<svReal, svRows, svMoved>> /\ nRow' = r /\ modal' = "servicemenu"
        /\ svName' = GetItemText(svRows, r, "name", NoService)
        /\ svStatus' = GetItemText(svRows, r, "shown", NoState)
    BY <1>6 DEF RightClickService
  <2>2. HasRow(svRows, r) => r + 1 \in DOMAIN svRows
    BY DEF HasRow
  <2>3. svName' \in ServiceNames \cup {NoService} /\ svStatus' \in States \cup {NoState}
    BY <1>0, <2>1, <2>2 DEF GetItemText
  <2>4. ShownAgrees'
    BY <2>1 DEF ShownAgrees
  <2>5. svName' = GetItemText(svRows, nRow, "name", NoService)'
    BY <2>1 DEF GetItemText
  <2>. QED
    BY <2>1, <2>3, <2>4, <2>5
<1>7. CASE StartService
  <2>1. "start_pending" \in States /\ "running" \in States
    BY DEF States, NotRunning
  <2>. QED
    BY <1>7, <2>1, CommandKeeps, BehindFacts, ServiceAssumption DEF StartService, MoveTo
<1>8. CASE PauseService
  <2>1. "stop_pending" \in States /\ "paused" \in States
    BY DEF States, NotRunning
  <2>. QED
    BY <1>8, <2>1, CommandKeeps, BehindFacts, ServiceAssumption DEF PauseService, MoveTo
<1>. QED
  BY <1>1, <1>2, <1>3, <1>4, <1>5, <1>6, <1>7, <1>8 DEF ServStep

LEMMA ServUnmoved ==
  ASSUME ServInv, UNCHANGED servVars, Still(ServDialogs)
  PROVE  ServInv'
<1>1. modal' = "servicemenu" => modal = "servicemenu" /\ nRow' = nRow
  BY DEF Still, ServDialogs
<1>2. GetItemText(svRows, nRow, "name", NoService)'
        = GetItemText(svRows, nRow', "name", NoService)
  BY DEF servVars, GetItemText
<1>3. ServTypeOK' /\ ShownAgrees'
  BY DEF ServInv, ServTypeOK, ShownAgrees, servVars
<1>. QED
  BY <1>1, <1>2, <1>3 DEF ServInv, servVars

LEMMA ServicesHold == Spec => []ServInv
<1>1. ASSUME ServInv, Next PROVE ServInv'
  BY <1>1, OneTool, ServStepInv, ServUnmoved
<1>2. ServInv /\ UNCHANGED vars => ServInv'
  BY NoStep, ServUnmoved
<1>. QED
  BY ServInitInv, <1>1, <1>2, PTL DEF Spec

\* Every row of the services dialog shows a state its service can be in, through commands
\* on this and other rows, as long as no command on it failed and nobody else changed it
\* (CServListDialog.cpp, 211 to 256), for any services.
THEOREM ServicesShownRight == Spec => []ShownAgrees
<1>1. ServInv => ShownAgrees
  BY DEF ServInv
<1>. QED
  BY ServicesHold, <1>1, PTL

-----------------------------------------------------------------------------
(* The file list.                                                           *)

FileRow == [file : Walked, icon : Walked \cup {NoIcon}]
FileWorkers == [pc : {"none", "walk", "box", "done"}, at : 0 .. Len(FileWalk) + 1,
                counters : Seq(Nat)]

\* How deep the worker is after k steps, and what it has passed at a place.
FileDepth(k) == Depth(FileWalk, k)
GoneBy(at) == Passed(FileWalk, at)

\* A worker has a counter for every folder it is in.
FolderCounters ==
  \A n \in 1 .. MaxFileLists :
    fileWork[n].pc # "none" =>
      /\ fileWork[n].at >= 1
      /\ Len(fileWork[n].counters) = 1 + FileDepth(fileWork[n].at - 1)
      /\ fileWork[n].pc = "box" => fileWork[n].at <= Len(FileWalk) /\ Here(n) = Denied

\* The list of a worker's window: no counter is beyond its end.
ListOf(w) ==
  /\ w.pc # "none"
  /\ \A k \in DOMAIN w.counters : w.counters[k] <= Len(fileRows)
  /\ IsFiniteSet(GoneBy(w.at)) /\ Len(fileRows) = Cardinality(GoneBy(w.at))
  /\ {fileRows[i].file : i \in DOMAIN fileRows} = GoneBy(w.at)
  /\ w.pc = "done" =>
       w.at = Len(FileWalk) + 1 /\ \A i \in DOMAIN fileRows : fileRows[i].icon = fileRows[i].file

FileInv ==
  /\ fileWin \in 0 .. MaxFileLists /\ fileWork \in [1 .. MaxFileLists -> FileWorkers]
  /\ fileRows \in Seq(FileRow)
  /\ FolderCounters
  /\ modal = "files" => fileWin \in 1 .. MaxFileLists /\ ListOf(fileWork[fileWin])

LEMMA WalkLength == Len(FileWalk) \in Nat /\ DOMAIN FileWalk = 1 .. Len(FileWalk)
BY WalkAssumption, WalkLen

LEMMA PassedAll ==
  GoneBy(Len(FileWalk) + 1) = Walked /\ GoneBy(1) = {}
BY PassedEnds, WalkAssumption DEF Walked, GoneBy

\* A row inserted within the list and named where it is.
LEMMA NamedRow ==
  ASSUME NEW rows \in Seq(FileRow), NEW i \in 0 .. Len(rows), NEW f \in Walked
  PROVE  LET new == SetItemText(InsertItem(rows, i, [file |-> NoIcon, icon |-> NoIcon]),
                                i, "file", f)
         IN /\ new \in Seq(FileRow) /\ Len(new) = Len(rows) + 1
            /\ {new[j].file : j \in DOMAIN new} = {rows[j].file : j \in DOMAIN rows} \cup {f}
<1> DEFINE blank == [file |-> NoIcon, icon |-> NoIcon]
           named == [file |-> f, icon |-> NoIcon]
           new == InsertItem(rows, i, named)
<1>1. named \in FileRow /\ named.file = f /\ [blank EXCEPT !["file"] = f] = named
  BY DEF FileRow
<1>2. SetItemText(InsertItem(rows, i, blank), i, "file", f) = new
  <2> HIDE DEF blank, named
  <2>. QED
    BY <1>1, InsertedThere DEF SetItemText
<1> HIDE DEF named, blank
<1>3. new \in Seq(FileRow) /\ Len(new) = Len(rows) + 1
  <2>1. i \in Nat
    OBVIOUS
  <2>2. named \in FileRow
    BY <1>1
  <2>. QED
    BY <2>1, <2>2, InsertItemGrows, Zenon DEF new
<1>4. /\ \A j \in DOMAIN new : new[j] = named \/ \E k \in DOMAIN rows : new[j] = rows[k]
      /\ \A k \in DOMAIN rows : \E j \in DOMAIN new : new[j] = rows[k]
      /\ \E j \in DOMAIN new : new[j] = named
  <2>1. WithRow(new, rows, named)
    BY InsertedRows, Zenon
  <2>. QED
    BY <2>1, Zenon DEF WithRow
<1> HIDE DEF new
<1>5. {new[j].file : j \in DOMAIN new} = {rows[j].file : j \in DOMAIN rows} \cup {f}
  <2>1. \A x \in {new[j].file : j \in DOMAIN new} : x \in {rows[j].file : j \in DOMAIN rows} \cup {f}
    BY <1>1, <1>4
  <2>2. \A x \in {rows[j].file : j \in DOMAIN rows} : x \in {new[j].file : j \in DOMAIN new}
    BY <1>4
  <2>3. f \in {new[j].file : j \in DOMAIN new}
    BY <1>1, <1>4
  <2>. QED
    BY <2>1, <2>2, <2>3, Zenon
<1>. QED
  BY <1>2, <1>3, <1>5 DEF blank

\* Giving icons changes neither rows nor files.
LEMMA IconsGiven ==
  ASSUME NEW rows \in Seq(FileRow)
  PROVE  /\ WithIcons(rows) \in Seq(FileRow) /\ Len(WithIcons(rows)) = Len(rows)
         /\ \A i \in DOMAIN rows :
              WithIcons(rows)[i].file = rows[i].file /\ WithIcons(rows)[i].icon = rows[i].file
         /\ {WithIcons(rows)[j].file : j \in DOMAIN WithIcons(rows)}
              = {rows[j].file : j \in DOMAIN rows}
<1> DEFINE new == WithIcons(rows)
           Icon(r) == [r EXCEPT !.icon = r.file]
<1>1. \A r \in FileRow : Icon(r) \in FileRow /\ Icon(r).file = r.file /\ Icon(r).icon = r.file
  BY DEF FileRow
<1>2. new = [i \in 1 .. Len(rows) |-> Icon(rows[i])] /\ Len(rows) \in Nat
      /\ DOMAIN rows = 1 .. Len(rows)
  BY DEF WithIcons
<1> HIDE DEF Icon, new
<1>3. \A i \in 1 .. Len(rows) : rows[i] \in FileRow
  OBVIOUS
<1>4. new \in Seq(FileRow) /\ Len(new) = Len(rows) /\ DOMAIN new = DOMAIN rows
  BY <1>1, <1>2, <1>3
<1>5. \A i \in DOMAIN rows : new[i].file = rows[i].file /\ new[i].icon = rows[i].file
  BY <1>1, <1>2, <1>3
<1>6. {new[j].file : j \in DOMAIN new} = {rows[j].file : j \in DOMAIN rows}
  BY <1>4, <1>5
<1>. QED
  BY <1>4, <1>5, <1>6 DEF new

LEMMA FileInitInv == Init => FileInv
<1> SUFFICES ASSUME Init PROVE FileInv
  OBVIOUS
<1>1. fileWin = 0 /\ fileRows = <<>> /\ modal = "main"
      /\ fileWork = [n \in 1 .. MaxFileLists |-> [pc |-> "none", at |-> 0, counters |-> <<>>]]
  BY DEF Init, AppInit, FileInit
<1>2. [pc |-> "none", at |-> 0, counters |-> <<>>] \in FileWorkers
  <2>1. 0 \in 0 .. Len(FileWalk) + 1 /\ <<>> \in Seq(Nat)
    BY WalkLength
  <2>. QED
    BY <2>1 DEF FileWorkers
<1>3. fileWork \in [1 .. MaxFileLists -> FileWorkers]
  BY <1>1, <1>2
<1>4. FolderCounters
  BY <1>1 DEF FolderCounters
<1>5. 0 \in 0 .. MaxFileLists
  BY WalkAssumption, WalkLen
<1>. QED
  BY <1>1, <1>3, <1>4, <1>5 DEF FileInv

\* What a step of a worker has to leave.
LEMMA WorkerKeeps ==
  ASSUME FileInv, NEW n \in 1 .. MaxFileLists, NEW w \in FileWorkers,
         fileWork' = [fileWork EXCEPT ![n] = w], UNCHANGED <<shell, fileWin>>,
         w.pc # "none", w.at >= 1, Len(w.counters) = 1 + FileDepth(w.at - 1),
         w.pc = "box" => w.at <= Len(FileWalk) /\ FileWalk[w.at] = Denied,
         fileRows' \in Seq(FileRow),
         IF modal = "files" /\ fileWin = n THEN ListOf(w)' ELSE fileRows' = fileRows
  PROVE  FileInv'
<1>1. fileWork' \in [1 .. MaxFileLists -> FileWorkers]
  BY DEF FileInv
<1>2. /\ fileWork'[n] = w
      /\ \A m \in 1 .. MaxFileLists : m # n => fileWork'[m] = fileWork[m]
  BY DEF FileInv
<1>3. FolderCounters'
  <2> SUFFICES ASSUME NEW m \in 1 .. MaxFileLists, fileWork'[m].pc # "none"
               PROVE  /\ fileWork'[m].at >= 1
                      /\ Len(fileWork'[m].counters) = 1 + FileDepth(fileWork'[m].at - 1)
                      /\ fileWork'[m].pc = "box" => fileWork'[m].at <= Len(FileWalk)
                           /\ FileWalk[fileWork'[m].at] = Denied
    BY DEF FolderCounters, Here
  <2>1. CASE m = n
    BY <1>2, <2>1
  <2>2. CASE m # n
    BY <1>2, <2>2 DEF FileInv, FolderCounters, Here
  <2>. QED
    BY <2>1, <2>2
<1>4. ASSUME modal' = "files" PROVE fileWin' \in 1 .. MaxFileLists /\ ListOf(fileWork[fileWin])'
  <2>1. modal = "files" /\ fileWin' = fileWin /\ fileWin \in 1 .. MaxFileLists
        /\ ListOf(fileWork[fileWin])
    BY <1>4 DEF FileInv, shell
  <2>2. CASE fileWin = n
    <3>1. ListOf(w)' /\ fileWork'[fileWin'] = w
      BY <1>2, <2>1, <2>2
    <3>. QED
      BY <2>1, <3>1 DEF ListOf
  <2>3. CASE fileWin # n
    <3>1. fileWork'[fileWin'] = fileWork[fileWin] /\ fileRows' = fileRows
      BY <1>2, <2>1, <2>3
    <3>. QED
      BY <2>1, <3>1 DEF ListOf
  <2>. QED
    BY <2>2, <2>3
<1>. QED
  BY <1>1, <1>3, <1>4 DEF FileInv

\* A worker on its way: what its record holds.
LEMMA WorkerHere ==
  ASSUME FileInv, NEW n \in 1 .. MaxFileLists, fileWork[n].pc # "none"
  PROVE  /\ fileWork[n] \in FileWorkers
         /\ fileWork[n].at \in Nat /\ fileWork[n].at >= 1 /\ fileWork[n].at <= Len(FileWalk) + 1
         /\ fileWork[n].counters \in Seq(Nat)
         /\ Len(fileWork[n].counters) = 1 + FileDepth(fileWork[n].at - 1)
         /\ fileWork[n].at \in DOMAIN FileWalk =>
              /\ FileDepth(fileWork[n].at - 1) \in Int /\ FileDepth(fileWork[n].at) >= 0
              /\ Here(n) = In => FileDepth(fileWork[n].at) = FileDepth(fileWork[n].at - 1) + 1
              /\ Here(n) = Out => FileDepth(fileWork[n].at) = FileDepth(fileWork[n].at - 1) - 1
              /\ Here(n) \notin {In, Out} =>
                   FileDepth(fileWork[n].at) = FileDepth(fileWork[n].at - 1)
<1> DEFINE at == fileWork[n].at
<1>1. fileWork[n] \in FileWorkers
  BY DEF FileInv
<1>2. at \in Nat /\ at >= 1 /\ at <= Len(FileWalk) + 1 /\ fileWork[n].counters \in Seq(Nat)
  BY <1>1, WalkLength DEF FileWorkers, FileInv, FolderCounters
<1>3. Len(fileWork[n].counters) = 1 + FileDepth(at - 1)
  BY DEF FileInv, FolderCounters
<1>4. ASSUME at \in DOMAIN FileWalk
      PROVE  /\ FileDepth(at - 1) \in Int /\ FileDepth(at) >= 0
             /\ FileWalk[at] = In => FileDepth(at) = FileDepth(at - 1) + 1
             /\ FileWalk[at] = Out => FileDepth(at) = FileDepth(at - 1) - 1
             /\ FileWalk[at] \notin {In, Out} => FileDepth(at) = FileDepth(at - 1)
  BY <1>4, DepthHere, WalkAssumption DEF FileDepth
<1>. QED
  BY <1>1, <1>2, <1>3, <1>4 DEF Here

LEMMA RecordFurther ==
  ASSUME NEW r \in FileWorkers, NEW counters, NEW w,
         w = [r EXCEPT !.at = @ + 1, !.counters = counters, !.pc = "walk"]
  PROVE  w = [pc |-> "walk", at |-> r.at + 1, counters |-> counters]
<1>1. r = [pc |-> r.pc, at |-> r.at, counters |-> r.counters] /\ r.at \in Nat
  BY WalkLength DEF FileWorkers
<1>. QED
  BY <1>1

\* The record of a worker that goes on.
LEMMA GoesFurther ==
  ASSUME FileInv, NEW n \in 1 .. MaxFileLists, fileWork[n].pc # "none",
         fileWork[n].at <= Len(FileWalk), NEW counters \in Seq(Nat), Further(n, counters)
  PROVE  LET w == [pc |-> "walk", at |-> fileWork[n].at + 1, counters |-> counters]
         IN w \in FileWorkers /\ fileWork' = [fileWork EXCEPT ![n] = w]
<1> DEFINE w == [pc |-> "walk", at |-> fileWork[n].at + 1, counters |-> counters]
<1>1. fileWork[n].at + 1 \in 0 .. Len(FileWalk) + 1
  BY WorkerHere, WalkLength
<1>2. w \in FileWorkers
  BY <1>1 DEF FileWorkers
<1>3. fileWork' = [fileWork EXCEPT ![n].at = @ + 1, ![n].counters = counters, ![n].pc = "walk"]
  BY DEF Further
<1>4. fileWork \in [1 .. MaxFileLists -> FileWorkers]
  BY DEF FileInv
<1>5. /\ fileWork' \in [1 .. MaxFileLists -> FileWorkers]
      /\ \A m \in 1 .. MaxFileLists : fileWork'[m] = IF m = n THEN w ELSE fileWork[m]
  <2>1. fileWork[n] \in FileWorkers
    BY <1>4
  <2>2. [fileWork[n] EXCEPT !.at = @ + 1, !.counters = counters, !.pc = "walk"] = w
    BY <2>1, RecordFurther
  <2>3. fileWork' = [fileWork EXCEPT ![n] = [fileWork[n] EXCEPT !.at = @ + 1, !.counters = counters,
                                                                !.pc = "walk"]]
    BY <1>3, <1>4, <2>1 DEF FileWorkers
  <2> HIDE DEF w
  <2>. QED
    BY <1>2, <1>4, <2>2, <2>3
<1>6. fileWork' = [fileWork EXCEPT ![n] = w]
  <2> HIDE DEF w
  <2>. QED
    BY <1>4, <1>5
<1>. QED
  BY <1>2, <1>6

LEMMA ShowFileKeeps ==
  ASSUME FileInv, NEW n \in 1 .. MaxFileLists, ShowFile(n)
  PROVE  FileInv'
<1> DEFINE at == fileWork[n].at
           c == fileWork[n].counters
           i == Head(c)
           counters == <<i + 1>> \o Tail(c)
           new == SetItemText(InsertItem(fileRows, i, [file |-> NoIcon, icon |-> NoIcon]),
                              i, "file", FileWalk[at])
<1>1. /\ fileWork[n].pc = "walk" /\ at <= Len(FileWalk) /\ FileWalk[at] \notin Marks
      /\ Changes(n, new) /\ Further(n, counters) /\ UNCHANGED <<shell, fileWin>>
  BY DEF ShowFile, Walking, Here, NameRow
<1>2. /\ at \in Nat /\ at >= 1 /\ c \in Seq(Nat) /\ Len(c) = 1 + FileDepth(at - 1)
      /\ at \in DOMAIN FileWalk
      /\ at \in DOMAIN FileWalk =>
           /\ FileDepth(at - 1) \in Int /\ FileDepth(at) >= 0
           /\ Here(n) \notin {In, Out} => FileDepth(at) = FileDepth(at - 1)
  BY <1>1, WorkerHere, WalkLength
<1>3. FileDepth(at) = FileDepth(at - 1) /\ FileDepth(at) >= 0 /\ FileDepth(at) \in Int
  BY <1>1, <1>2 DEF Here, Marks
<1>4. Len(c) >= 1 /\ Len(c) = 1 + FileDepth(at)
  BY <1>2, <1>3
<1> HIDE DEF c, at
<1>5. /\ i \in Nat /\ i = c[1] /\ counters \in Seq(Nat) /\ Len(counters) = Len(c)
      /\ DOMAIN counters = DOMAIN c
      /\ \A k \in DOMAIN c : counters[k] = IF k = 1 THEN i + 1 ELSE c[k]
  <2>1. i = c[1] /\ i \in Nat
    BY <1>2, <1>4
  <2>2. i + 1 \in Nat
    BY <2>1
  <2> HIDE DEF i
  <2>. QED
    BY <1>2, <1>4, <2>1, <2>2, FirstCounter
<1> HIDE DEF i, counters
<1>6. PICK w \in FileWorkers : /\ w = [pc |-> "walk", at |-> at + 1, counters |-> counters]
                               /\ fileWork' = [fileWork EXCEPT ![n] = w]
  <2>1. counters \in Seq(Nat) /\ fileWork[n].pc # "none" /\ fileWork[n].at <= Len(FileWalk)
    BY <1>1, <1>5 DEF at
  <2>. QED
    BY <1>1, <2>1, GoesFurther DEF at
<1>7. /\ GoneBy(at + 1) = GoneBy(at) \cup {FileWalk[at]}
      /\ FileWalk[at] \notin GoneBy(at)
      /\ FileWalk[at] \in Walked
  BY <1>1, <1>2, PassedNext, WalkAssumption DEF Walked, GoneBy
<1>8. ASSUME modal = "files", fileWin = n PROVE fileRows' \in Seq(FileRow) /\ ListOf(w)'
  <2>1. /\ fileRows \in Seq(FileRow) /\ fileRows' = new
        /\ \A k \in DOMAIN c : c[k] <= Len(fileRows)
        /\ IsFiniteSet(GoneBy(at)) /\ Len(fileRows) = Cardinality(GoneBy(at))
        /\ {fileRows[j].file : j \in DOMAIN fileRows} = GoneBy(at)
    <3>1. fileRows \in Seq(FileRow) /\ ListOf(fileWork[n])
      BY <1>8 DEF FileInv
    <3>2. fileRows' = new
      BY <1>1, <1>8 DEF Changes
    <3> HIDE DEF new
    <3>. QED
      BY <3>1, <3>2, Zenon DEF ListOf, at, c
  <2>2. i \in 0 .. Len(fileRows)
    <3>1. 1 \in DOMAIN c
      BY <1>2, <1>4
    <3>2. c[1] <= Len(fileRows) /\ Len(fileRows) \in Nat
      BY <2>1, <3>1
    <3>. QED
      BY <1>5, <3>2
  <2>3. /\ new \in Seq(FileRow) /\ Len(new) = Len(fileRows) + 1
        /\ {new[j].file : j \in DOMAIN new}
             = {fileRows[j].file : j \in DOMAIN fileRows} \cup {FileWalk[at]}
    <3>1. fileRows \in Seq(FileRow) /\ FileWalk[at] \in Walked
      BY <1>7, <2>1
    <3>. QED
      BY <2>2, <3>1, NamedRow, Zenon
  <2> HIDE DEF new
  <2>4. IsFiniteSet(GoneBy(at + 1)) /\ Cardinality(GoneBy(at + 1)) = Cardinality(GoneBy(at)) + 1
    <3>1. Cardinality(GoneBy(at) \cup {FileWalk[at]}) = Cardinality(GoneBy(at)) + 1
          /\ IsFiniteSet(GoneBy(at) \cup {FileWalk[at]})
      BY <1>7, <2>1, FS_AddElement, Zenon
    <3>. QED
      BY <1>7, <3>1, Zenon
  <2>5. \A k \in DOMAIN counters : counters[k] <= Len(fileRows')
    <3>1. Len(fileRows') = Len(fileRows) + 1 /\ Len(fileRows) \in Nat
      BY <2>1, <2>3
    <3>2. DOMAIN counters = DOMAIN c /\ \A k \in DOMAIN c : c[k] \in Nat
      BY <1>2, <1>5
    <3>3. i <= Len(fileRows)
      BY <2>1, <2>2
    <3>. QED
      BY <1>5, <2>1, <3>1, <3>2, <3>3
  <2>6. /\ w.pc = "walk" /\ w.at = at + 1 /\ w.counters = counters
    BY <1>6
  <2>7. Len(fileRows') = Cardinality(GoneBy(at + 1))
        /\ {fileRows'[j].file : j \in DOMAIN fileRows'} = GoneBy(at + 1)
    <3>1. Len(fileRows') = Len(fileRows) + 1
      BY <2>1, <2>3
    <3>2. {fileRows'[j].file : j \in DOMAIN fileRows'} = GoneBy(at) \cup {FileWalk[at]}
      BY <2>1, <2>3, Zenon
    <3>3. Len(fileRows') = Cardinality(GoneBy(at + 1))
      <4>1. Len(fileRows) = Cardinality(GoneBy(at))
        BY <2>1
      <4>. QED
        BY <2>4, <3>1, <4>1, Zenon
    <3>. QED
      BY <1>7, <3>2, <3>3, Zenon
  <2>. QED
    BY <2>1, <2>3, <2>4, <2>5, <2>6, <2>7 DEF ListOf
<1>9. CASE modal = "files" /\ fileWin = n
  <2>1. w.pc = "walk" /\ w.at = at + 1 /\ Len(w.counters) = 1 + FileDepth(w.at - 1)
        /\ w.at >= 1
    <3>1. w.pc = "walk" /\ w.at = at + 1 /\ w.counters = counters
      BY <1>6
    <3>2. (at + 1) - 1 = at /\ at + 1 >= 1
      BY <1>2
    <3>3. Len(counters) = 1 + FileDepth(at)
      BY <1>4, <1>5
    <3>4. w.at - 1 = at
      BY <3>1, <3>2, Zenon
    <3>. QED
      BY <3>1, <3>2, <3>3, <3>4, Zenon
  <2>. QED
    BY <1>1, <1>6, <1>8, <1>9, <2>1, WorkerKeeps
<1>10. CASE ~(modal = "files" /\ fileWin = n)
  <2>1. w.pc = "walk" /\ w.at = at + 1 /\ Len(w.counters) = 1 + FileDepth(w.at - 1)
        /\ w.at >= 1
    <3>1. w.pc = "walk" /\ w.at = at + 1 /\ w.counters = counters
      BY <1>6
    <3>2. (at + 1) - 1 = at /\ at + 1 >= 1
      BY <1>2
    <3>3. Len(counters) = 1 + FileDepth(at)
      BY <1>4, <1>5
    <3>4. w.at - 1 = at
      BY <3>1, <3>2, Zenon
    <3>. QED
      BY <3>1, <3>2, <3>3, <3>4, Zenon
  <2>2. fileRows' = fileRows /\ fileRows \in Seq(FileRow)
    BY <1>1, <1>10 DEF Changes, FileInv
  <2>. QED
    BY <1>1, <1>6, <1>10, <2>1, <2>2, WorkerKeeps
<1>. QED
  BY <1>9, <1>10

\* Steps that insert no row: the counters that stay are some of those there were.
LEMMA RowsStay ==
  ASSUME FileInv, NEW n \in 1 .. MaxFileLists, fileWork[n].pc # "none",
         NEW w \in FileWorkers,
         fileWork' = [fileWork EXCEPT ![n] = w], UNCHANGED <<shell, fileWin>>,
         w.pc # "none", w.at >= 1, Len(w.counters) = 1 + FileDepth(w.at - 1),
         w.pc = "box" => w.at <= Len(FileWalk) /\ FileWalk[w.at] = Denied,
         GoneBy(w.at) = GoneBy(fileWork[n].at),
         \A k \in DOMAIN w.counters :
           \/ w.counters[k] = 0
           \/ \E j \in DOMAIN fileWork[n].counters : w.counters[k] = fileWork[n].counters[j],
         fileRows' = fileRows \/ Changes(n, WithIcons(fileRows)),
         w.pc = "done" => w.at = Len(FileWalk) + 1 /\ Changes(n, WithIcons(fileRows))
  PROVE  FileInv'
<1>1. fileRows \in Seq(FileRow)
  BY DEF FileInv
<1>2. CASE modal = "files" /\ fileWin = n
  <2>1. ListOf(fileWork[n])
    BY <1>2 DEF FileInv
  <2>2. fileRows' = fileRows \/ fileRows' = WithIcons(fileRows)
    BY <1>2 DEF Changes
  <2>3. /\ fileRows' \in Seq(FileRow) /\ Len(fileRows') = Len(fileRows)
        /\ {fileRows'[i].file : i \in DOMAIN fileRows'} = {fileRows[i].file : i \in DOMAIN fileRows}
    BY <1>1, <2>2, IconsGiven
  <2>4. \A k \in DOMAIN w.counters : w.counters[k] <= Len(fileRows')
    <3>1. Len(fileRows) \in Nat
      BY <1>1
    <3>2. \A j \in DOMAIN fileWork[n].counters : fileWork[n].counters[j] <= Len(fileRows)
      BY <2>1 DEF ListOf
    <3>. QED
      BY <2>3, <3>1, <3>2
  <2>5. w.pc = "done" => \A i \in DOMAIN fileRows' : fileRows'[i].icon = fileRows'[i].file
    <3>1. ASSUME w.pc = "done" PROVE fileRows' = WithIcons(fileRows)
      BY <1>2, <3>1 DEF Changes
    <3>2. DOMAIN WithIcons(fileRows) = DOMAIN fileRows
      BY DEF WithIcons
    <3>. QED
      BY <1>1, <3>1, <3>2, IconsGiven
  <2>6. /\ IsFiniteSet(GoneBy(w.at)) /\ Len(fileRows') = Cardinality(GoneBy(w.at))
        /\ {fileRows'[i].file : i \in DOMAIN fileRows'} = GoneBy(w.at)
    <3>1. /\ IsFiniteSet(GoneBy(fileWork[n].at))
          /\ Len(fileRows) = Cardinality(GoneBy(fileWork[n].at))
          /\ {fileRows[i].file : i \in DOMAIN fileRows} = GoneBy(fileWork[n].at)
      BY <2>1 DEF ListOf
    <3>. QED
      BY <2>3, <3>1, Zenon
  <2>7. ListOf(w)'
    BY <2>4, <2>5, <2>6 DEF ListOf
  <2>. QED
    BY <1>2, <2>3, <2>7, WorkerKeeps
<1>3. CASE ~(modal = "files" /\ fileWin = n)
  <2>1. fileRows' = fileRows
    BY <1>3 DEF Changes
  <2>. QED
    BY <1>1, <1>3, <2>1, WorkerKeeps
<1>. QED
  BY <1>2, <1>3

\* A worker passes a mark.
LEMMA MarkKeeps ==
  ASSUME FileInv, NEW n \in 1 .. MaxFileLists, fileWork[n].pc \in {"walk", "box"},
         fileWork[n].at <= Len(FileWalk), Here(n) \in Marks, UNCHANGED <<shell, fileWin>>,
         NEW counters \in Seq(Nat), Further(n, counters),
         Len(counters) = 1 + FileDepth(fileWork[n].at),
         \A k \in DOMAIN counters :
           \/ counters[k] = 0
           \/ \E j \in DOMAIN fileWork[n].counters : counters[k] = fileWork[n].counters[j],
         fileRows' = fileRows \/ Changes(n, WithIcons(fileRows))
  PROVE  FileInv'
<1>1. PICK w \in FileWorkers :
        /\ w = [pc |-> "walk", at |-> fileWork[n].at + 1, counters |-> counters]
        /\ fileWork' = [fileWork EXCEPT ![n] = w]
  <2>1. fileWork[n].pc # "none"
    OBVIOUS
  <2> DEFINE v == [pc |-> "walk", at |-> fileWork[n].at + 1, counters |-> counters]
  <2>2. v \in FileWorkers /\ fileWork' = [fileWork EXCEPT ![n] = v]
    BY <2>1, GoesFurther
  <2>. QED
    BY <2>2
<1>2. fileWork[n].at \in Nat /\ fileWork[n].at \in DOMAIN FileWalk
  BY WorkerHere, WalkLength
<1>3. w.pc = "walk" /\ w.at = fileWork[n].at + 1 /\ w.counters = counters
  BY <1>1
<1>4. w.at >= 1 /\ w.at - 1 = fileWork[n].at
  BY <1>2, <1>3
<1>5. GoneBy(w.at) = GoneBy(fileWork[n].at)
  BY <1>2, <1>3, PassedNext, WalkAssumption DEF Here, GoneBy
<1>6. Len(w.counters) = 1 + FileDepth(w.at - 1)
  BY <1>3, <1>4
<1>7. \A k \in DOMAIN w.counters :
        \/ w.counters[k] = 0
        \/ \E j \in DOMAIN fileWork[n].counters : w.counters[k] = fileWork[n].counters[j]
  BY <1>3
<1>. QED
  BY <1>1, <1>3, <1>4, <1>5, <1>6, <1>7, RowsStay

LEMMA OnMark ==
  ASSUME FileInv, NEW n \in 1 .. MaxFileLists, fileWork[n].pc # "none",
         fileWork[n].at <= Len(FileWalk)
  PROVE  /\ fileWork[n].at \in DOMAIN FileWalk
         /\ fileWork[n].counters \in Seq(Nat) /\ Len(fileWork[n].counters) \in Nat
         /\ Here(n) = In => Len(fileWork[n].counters) + 1 = 1 + FileDepth(fileWork[n].at)
         /\ Here(n) = Out => /\ Len(fileWork[n].counters) - 1 = 1 + FileDepth(fileWork[n].at)
                             /\ Len(fileWork[n].counters) >= 1
         /\ Here(n) = Denied => Len(fileWork[n].counters) = 1 + FileDepth(fileWork[n].at)
<1> DEFINE at == fileWork[n].at
<1>1. at \in DOMAIN FileWalk /\ fileWork[n].counters \in Seq(Nat)
      /\ Len(fileWork[n].counters) = 1 + FileDepth(at - 1)
  BY WorkerHere, WalkLength
<1>2. /\ FileDepth(at - 1) \in Int /\ FileDepth(at) >= 0
      /\ Here(n) = In => FileDepth(at) = FileDepth(at - 1) + 1
      /\ Here(n) = Out => FileDepth(at) = FileDepth(at - 1) - 1
      /\ Here(n) \notin {In, Out} => FileDepth(at) = FileDepth(at - 1)
  BY <1>1, WorkerHere
<1>3. Here(n) = Denied => Here(n) \notin {In, Out}
  BY MarksAssumption
<1>4. Len(fileWork[n].counters) \in Nat
  BY <1>1
<1> HIDE DEF at
<1>5. /\ Here(n) = In => Len(fileWork[n].counters) + 1 = 1 + FileDepth(at)
      /\ Here(n) = Out => /\ Len(fileWork[n].counters) - 1 = 1 + FileDepth(at)
                          /\ Len(fileWork[n].counters) >= 1
      /\ Here(n) = Denied => Len(fileWork[n].counters) = 1 + FileDepth(at)
  BY <1>1, <1>2, <1>3, <1>4
<1>. QED
  BY <1>1, <1>4, <1>5 DEF at

LEMMA FileWorkerKeeps ==
  ASSUME FileInv, NEW n \in 1 .. MaxFileLists, FileWorker(n)
  PROVE  FileInv'
<1>1. CASE ShowFile(n)
  BY <1>1, ShowFileKeeps
<1>2. CASE EnterFolder(n)
  <2>1. /\ fileWork[n].pc = "walk" /\ fileWork[n].at <= Len(FileWalk) /\ Here(n) = In
        /\ Further(n, <<0>> \o fileWork[n].counters) /\ UNCHANGED <<shell, fileWin, fileRows>>
    BY <1>2 DEF EnterFolder, Walking
  <2>2. fileWork[n].counters \in Seq(Nat)
        /\ Len(fileWork[n].counters) + 1 = 1 + FileDepth(fileWork[n].at)
    BY <2>1, OnMark
  <2> DEFINE counters == <<0>> \o fileWork[n].counters
  <2>3. /\ counters \in Seq(Nat) /\ Len(counters) = 1 + FileDepth(fileWork[n].at)
        /\ \A k \in DOMAIN counters :
             \/ counters[k] = 0
             \/ \E j \in DOMAIN fileWork[n].counters : counters[k] = fileWork[n].counters[j]
    BY <2>2, ZeroInFront
  <2> HIDE DEF counters
  <2>4. Further(n, counters)
    BY <2>1 DEF counters
  <2>. QED
    BY <2>1, <2>3, <2>4, MarkKeeps DEF Marks
<1>3. CASE LeaveFolder(n)
  <2>1. /\ fileWork[n].pc = "walk" /\ fileWork[n].at <= Len(FileWalk) /\ Here(n) = Out
        /\ Further(n, Tail(fileWork[n].counters)) /\ UNCHANGED <<shell, fileWin>>
        /\ Changes(n, WithIcons(fileRows))
    BY <1>3 DEF LeaveFolder, Walking
  <2>2. fileWork[n].counters \in Seq(Nat) /\ Len(fileWork[n].counters) >= 1
        /\ Len(fileWork[n].counters) - 1 = 1 + FileDepth(fileWork[n].at)
    BY <2>1, OnMark
  <2> DEFINE counters == Tail(fileWork[n].counters)
  <2>3. /\ counters \in Seq(Nat) /\ Len(counters) = 1 + FileDepth(fileWork[n].at)
        /\ \A k \in DOMAIN counters :
             \E j \in DOMAIN fileWork[n].counters : counters[k] = fileWork[n].counters[j]
    BY <2>2, WithoutFirst
  <2> HIDE DEF counters
  <2>4. Further(n, counters)
    BY <2>1 DEF counters
  <2>. QED
    BY <2>1, <2>3, <2>4, MarkKeeps DEF Marks
<1>4. CASE FolderDenied(n)
  <2>1. /\ fileWork[n].pc = "walk" /\ fileWork[n].at <= Len(FileWalk) /\ Here(n) = Denied
        /\ fileWork' = [fileWork EXCEPT ![n].pc = "box"]
        /\ UNCHANGED <<shell, fileWin, fileRows>>
    BY <1>4 DEF FolderDenied, Walking
  <2>2. /\ fileWork[n] \in FileWorkers /\ fileWork[n].at >= 1
        /\ Len(fileWork[n].counters) = 1 + FileDepth(fileWork[n].at - 1)
    BY <2>1, WorkerHere
  <2>3. PICK w : w = [fileWork[n] EXCEPT !.pc = "box"]
    OBVIOUS
  <2>4. w \in FileWorkers /\ w.pc = "box" /\ w.at = fileWork[n].at
        /\ w.counters = fileWork[n].counters
    BY <2>2, <2>3 DEF FileWorkers
  <2>5. fileWork' = [fileWork EXCEPT ![n] = w]
    BY <2>1, <2>3 DEF FileInv
  <2>. QED
    BY <2>1, <2>2, <2>4, <2>5, RowsStay DEF Here
<1>5. CASE AnswerFileBox(n)
  <2>1. /\ fileWork[n].pc = "box" /\ fileWork[n].at <= Len(FileWalk) /\ Here(n) = Denied
        /\ Further(n, fileWork[n].counters) /\ UNCHANGED <<shell, fileWin>>
        /\ Changes(n, WithIcons(fileRows))
    BY <1>5 DEF AnswerFileBox, FileInv, FolderCounters
  <2>2. fileWork[n].counters \in Seq(Nat)
        /\ Len(fileWork[n].counters) = 1 + FileDepth(fileWork[n].at)
    BY <2>1, OnMark
  <2>. QED
    BY <2>1, <2>2, MarkKeeps DEF Marks
<1>6. CASE EndWalk(n)
  <2>1. /\ fileWork[n].pc = "walk" /\ fileWork[n].at > Len(FileWalk)
        /\ fileWork' = [fileWork EXCEPT ![n].pc = "done"]
        /\ UNCHANGED <<shell, fileWin>> /\ Changes(n, WithIcons(fileRows))
    BY <1>6 DEF EndWalk
  <2>2. /\ fileWork[n] \in FileWorkers /\ fileWork[n].at >= 1
        /\ Len(fileWork[n].counters) = 1 + FileDepth(fileWork[n].at - 1)
        /\ fileWork[n].at \in Nat /\ fileWork[n].at <= Len(FileWalk) + 1
    BY <2>1, WorkerHere
  <2>3. fileWork[n].at = Len(FileWalk) + 1
    BY <2>1, <2>2, WalkLength
  <2>4. PICK w : w = [fileWork[n] EXCEPT !.pc = "done"]
    OBVIOUS
  <2>5. w \in FileWorkers /\ w.pc = "done" /\ w.at = fileWork[n].at
        /\ w.counters = fileWork[n].counters
    BY <2>2, <2>4 DEF FileWorkers
  <2>6. fileWork' = [fileWork EXCEPT ![n] = w]
    BY <2>1, <2>4 DEF FileInv
  <2>. QED
    BY <2>1, <2>2, <2>3, <2>5, <2>6, RowsStay
<1>. QED
  BY <1>1, <1>2, <1>3, <1>4, <1>5, <1>6 DEF FileWorker

LEMMA FileStepInv ==
  ASSUME FileInv, FileStep
  PROVE  FileInv'
<1>1. ASSUME NEW n \in DOMAIN fileWork, FileWorker(n) PROVE FileInv'
  BY <1>1, FileWorkerKeeps DEF FileInv
<1>2. CASE OpenFiles
  <2> DEFINE busy == {k \in DOMAIN fileWork : fileWork[k].pc # "none"}
             n == Cardinality(busy) + 1
             fresh == [pc |-> "walk", at |-> 1, counters |-> <<0>>]
  <2>1. /\ n <= MaxFileLists /\ modal' = "files" /\ fileWin' = n /\ fileRows' = <<>>
        /\ fileWork' = [fileWork EXCEPT ![n] = fresh]
    BY <1>2 DEF OpenFiles, MoveTo
  <2>2. Cardinality(busy) \in Nat
    <3>1. busy \subseteq 1 .. MaxFileLists /\ IsFiniteSet(1 .. MaxFileLists)
      BY WalkAssumption, FS_Interval DEF FileInv
    <3>. QED
      BY <3>1, FS_Subset, FS_CardinalityType
  <2>3. n \in 1 .. MaxFileLists
    BY <2>1, <2>2, WalkAssumption
  <2> HIDE DEF n, busy
  <2>4. PICK w : w = fresh
    OBVIOUS
  <2>5. w \in FileWorkers /\ w.pc = "walk" /\ w.at = 1 /\ w.counters = <<0>>
    <3>1. 1 \in 0 .. Len(FileWalk) + 1 /\ <<0>> \in Seq(Nat)
      BY WalkLength
    <3>. QED
      BY <2>4, <3>1 DEF FileWorkers
  <2> HIDE DEF fresh
  <2>6. /\ fileWork' \in [1 .. MaxFileLists -> FileWorkers] /\ fileWork'[n] = w
        /\ \A m \in 1 .. MaxFileLists : m # n => fileWork'[m] = fileWork[m]
    BY <2>1, <2>3, <2>4, <2>5 DEF FileInv
  <2>7. Len(w.counters) = 1 + FileDepth(w.at - 1)
    <3>1. Len(<<0>>) = 1 /\ 1 - 1 = 0
      OBVIOUS
    <3>. QED
      BY <2>5, <3>1, DepthStarts DEF FileDepth
  <2>8. FolderCounters'
    <3> SUFFICES ASSUME NEW m \in 1 .. MaxFileLists, fileWork'[m].pc # "none"
                 PROVE  /\ fileWork'[m].at >= 1
                        /\ Len(fileWork'[m].counters) = 1 + FileDepth(fileWork'[m].at - 1)
                        /\ fileWork'[m].pc = "box" => fileWork'[m].at <= Len(FileWalk)
                             /\ FileWalk[fileWork'[m].at] = Denied
      BY DEF FolderCounters, Here
    <3>1. CASE m = n
      <4>1. fileWork'[m] = w
        BY <2>6, <3>1
      <4>2. w.at >= 1 /\ w.pc # "box"
        BY <2>5
      <4>. QED
        BY <2>7, <4>1, <4>2
    <3>2. CASE m # n
      BY <2>6, <3>2 DEF FileInv, FolderCounters, Here
    <3>. QED
      BY <3>1, <3>2
  <2>9. ListOf(w)'
    <3>1. GoneBy(w.at) = {} /\ IsFiniteSet({}) /\ Cardinality({}) = 0
      BY <2>5, PassedAll, FS_EmptySet
    <3>2. fileRows' = <<>> /\ Len(<<>>) = 0 /\ {fileRows'[i].file : i \in DOMAIN fileRows'} = {}
      BY <2>1
    <3>3. \A k \in DOMAIN w.counters : w.counters[k] <= Len(fileRows')
      BY <2>5, <3>2
    <3>. QED
      BY <2>5, <3>1, <3>2, <3>3 DEF ListOf
  <2>10. ListOf(fileWork[fileWin])'
    BY <2>1, <2>6, <2>9 DEF ListOf
  <2>11. fileRows' \in Seq(FileRow) /\ fileWin' \in 0 .. MaxFileLists
         /\ fileWin' \in 1 .. MaxFileLists
    BY <2>1, <2>3
  <2>. QED
    BY <2>6, <2>8, <2>10, <2>11 DEF FileInv
<1>3. CASE CloseFiles
  <2>1. modal' = "main" /\ fileWin' = 0 /\ fileRows' = <<>> /\ fileWork' = fileWork
    BY <1>3 DEF CloseFiles, MoveTo
  <2>2. 0 \in 0 .. MaxFileLists
    BY WalkAssumption, WalkLen
  <2>. QED
    BY <2>1, <2>2 DEF FileInv, FolderCounters, Here
<1>. QED
  BY <1>1, <1>2, <1>3 DEF FileStep

LEMMA FileUnmoved ==
  ASSUME FileInv, UNCHANGED fileVars, Still(FileDialogs)
  PROVE  FileInv'
<1>1. modal' = "files" => modal = "files"
  BY DEF Still, FileDialogs
<1>2. FolderCounters'
  BY DEF FileInv, FolderCounters, Here, fileVars
<1>3. modal = "files" => ListOf(fileWork[fileWin])'
  BY DEF FileInv, ListOf, fileVars
<1>. QED
  BY <1>1, <1>2, <1>3 DEF FileInv, fileVars

LEMMA FilesHold == Spec => []FileInv
<1>1. ASSUME FileInv, Next PROVE FileInv'
  BY <1>1, OneTool, FileStepInv, FileUnmoved
<1>2. FileInv /\ UNCHANGED vars => FileInv'
  BY NoStep, FileUnmoved
<1>. QED
  BY FileInitInv, <1>1, <1>2, PTL DEF Spec

LEMMA FileTypeCorrect == FileInv => FileTypeOK
<1> SUFFICES ASSUME FileInv PROVE FileTypeOK
  OBVIOUS
<1>1. \A i \in DOMAIN fileRows : fileRows[i].file \in Walked
  <2>1. \A i \in DOMAIN fileRows : fileRows[i] \in FileRow
    BY DEF FileInv
  <2>2. \A r \in FileRow : r.file \in Walked
    BY DEF FileRow
  <2>. QED
    BY <2>1, <2>2
<1>2. \A n \in DOMAIN fileWork : fileWork[n] \in FileWorkers
  BY DEF FileInv
<1>3. \A w \in FileWorkers : w.pc \in {"none", "walk", "box", "done"}
                               /\ w.at \in 0 .. Len(FileWalk) + 1
  BY DEF FileWorkers
<1>. QED
  BY <1>1, <1>2, <1>3 DEF FileInv, FileTypeOK

\* When the worker of the files dialog is done the window lists every file of the walk
\* once, each with its own icon (CFilesDialog.cpp, 78 to 143), for any walk that leaves
\* only folders it has entered and comes by no file twice.
THEOREM ListsAllFiles == Spec => []AllFilesListed
<1>1. FileInv => AllFilesListed
  <2> SUFFICES ASSUME FileInv, modal = "files", fileWork[fileWin].pc = "done"
               PROVE  /\ Len(fileRows) = Cardinality(Walked)
                      /\ {fileRows[i].file : i \in DOMAIN fileRows} = Walked
                      /\ \A i \in DOMAIN fileRows : fileRows[i].icon = fileRows[i].file
    BY DEF AllFilesListed
  <2>1. ListOf(fileWork[fileWin])
    BY DEF FileInv
  <2>2. fileWork[fileWin].at = Len(FileWalk) + 1 /\ GoneBy(fileWork[fileWin].at) = Walked
    BY <2>1, PassedAll DEF ListOf
  <2>. QED
    BY <2>1, <2>2 DEF ListOf
<1>. QED
  BY FilesHold, <1>1, PTL

-----------------------------------------------------------------------------
(* The processes, the main window's menu and the blacklist.                 *)

IdRow == [id : Ids]

\* The menu's id is that of the row it was opened on; the counter of the blacklist is
\* the number of its rows in every state.
ListsInv ==
  /\ starts \in 1 .. MaxStarts + 1 /\ process \in [Pids -> 0 .. starts] /\ procID \in Ids
  /\ mainRows \in Seq(IdRow) /\ procRows \in Seq(IdRow) /\ blackRows \in Seq(IdRow)
  /\ modal = "menu" => procID = GetItemText(mainRows, nRow, "id", 0)
  /\ blackCount = Len(blackRows) /\ blackCount <= MaxListed

\* A finite set is enumerated by SetToSeq.
LEMMA SetToSeqRange ==
  ASSUME NEW S, IsFiniteSet(S)
  PROVE  /\ SetToSeq(S) \in Seq(S)
         /\ \A x \in S : \E i \in DOMAIN SetToSeq(S) : SetToSeq(S)[i] = x
<1> DEFINE n == Cardinality(S)
<1>1. n \in Nat
  BY FS_CardinalityType
<1>2. PICK f : f \in Bijection(1 .. n, S)
  BY FS_CardinalityType, <1>1, Zenon DEF ExistsBijection
<1>3. f \in [1 .. n -> S] /\ IsInjective(f)
  BY <1>2, Zenon DEF Bijection, Injection
<1>4. SetToSeq(S) \in [1 .. n -> S] /\ IsInjective(SetToSeq(S))
  <2> HIDE DEF n
  <2>1. SetToSeq(S) = CHOOSE g \in [1 .. n -> S] : IsInjective(g)
    BY Zenon DEF SetToSeq, n
  <2>. QED
    BY <1>3, <2>1, Zenon
<1>5. SetToSeq(S) \in Injection(1 .. n, S)
  BY <1>4, Zenon DEF Injection
<1>6. Cardinality(1 .. n) = n
  BY <1>1, FS_Interval
<1>7. SetToSeq(S) \in Surjection(1 .. n, S)
  <2> HIDE DEF n
  <2>. QED
    BY <1>5, <1>6, FS_Injection, Zenon DEF n
<1>8. \A x \in S : \E i \in 1 .. n : SetToSeq(S)[i] = x
  BY <1>7, Zenon DEF Surjection
<1> HIDE DEF n
<1>. QED
  BY <1>1, <1>4, <1>8

LEMMA IdRows ==
  /\ \A x \in Ids : [id |-> x] \in IdRow /\ [id |-> x].id = x
  /\ \A r \in IdRow : r.id \in Ids
  /\ 0 \in Ids /\ Ids \subseteq Nat
BY ProcessAssumption DEF IdRow, Ids

\* The rows of the blacklist are counted right whatever is removed.
LEMMA WithoutCounted ==
  ASSUME NEW rows \in Seq(IdRow), NEW ticked, blackCount = Len(rows)
  PROVE  /\ Without(rows, ticked).rows \in Seq(IdRow)
         /\ Without(rows, ticked).count = Len(Without(rows, ticked).rows)
         /\ Without(rows, ticked).count <= Len(rows)
<1> DEFINE n == Len(rows)
           T == [rows : Seq(IdRow), count : Int]
           base == [rows |-> rows, count |-> blackCount]
           Tried(k, t) == IF n - k + 1 \in ticked
                           THEN [rows |-> DeleteItem(t.rows, n - k), count |-> t.count - 1]
                           ELSE t
           step == [k \in 1 .. n |-> [t \in T |-> Tried(k, t)]]
           left == CHOOSE g : g = [k \in 0 .. n |-> IF k = 0 THEN base ELSE Tried(k, g[k - 1])]
<1>1. Without(rows, ticked) = left[n]
  BY Zenon DEF Without
<1>2. n \in Nat /\ base \in T
  OBVIOUS
<1>3. ASSUME NEW k \in 1 .. n, NEW t \in T PROVE Tried(k, t) \in T
  <2>1. t.rows \in Seq(IdRow) /\ t.count \in Int
    OBVIOUS
  <2>2. DeleteItem(t.rows, n - k) \in Seq(IdRow)
    BY <2>1, DeleteItemShrinks DEF DeleteItem
  <2>. QED
    BY <2>1, <2>2
<1>5. \A k \in 1 .. n, t \in T : step[k][t] = Tried(k, t)
  <2> SUFFICES ASSUME NEW k \in 1 .. n, NEW t \in T PROVE step[k][t] = Tried(k, t)
    OBVIOUS
  <2> HIDE DEF Tried, T, n
  <2>1. step[k] = [u \in T |-> Tried(k, u)]
    BY Zenon
  <2> HIDE DEF step
  <2>. QED
    BY <2>1, Zenon
<1>6. \E g : g = [k \in 0 .. n |-> IF k = 0 THEN base ELSE Tried(k, g[k - 1])]
  <2> HIDE DEF n, T, base, step, Tried
  <2>0. IsStep(T, base, n, step)
    BY <1>2, <1>3, <1>5 DEF IsStep
  <2>1. PICK g : Follows(g, T, base, n, step)
    BY <2>0, Recursion
  <2>2. \A k \in 1 .. n : g[k] = Tried(k, g[k - 1])
    BY <1>2, <1>5, <2>1 DEF Follows
  <2>3. \A k \in 0 .. n : g[k] = IF k = 0 THEN base ELSE Tried(k, g[k - 1])
    BY <2>1, <2>2 DEF Follows
  <2>4. DOMAIN g = 0 .. n /\ g = [k \in DOMAIN g |-> g[k]]
    BY <2>1 DEF Follows
  <2>. QED
    BY <2>3, <2>4
<1>7. left = [k \in 0 .. n |-> IF k = 0 THEN base ELSE Tried(k, left[k - 1])]
  <2> HIDE DEF n, base, Tried
  <2>. QED
    BY <1>6
<1> DEFINE Counted(k, t) == t \in T /\ t.count = Len(t.rows) /\ t.count \in n - k .. n
           P == {k \in 0 .. n : Counted(k, left[k])}
<1>8. left[0] = base /\ \A k \in 1 .. n : left[k] = Tried(k, left[k - 1])
  <2> HIDE DEF n, base, Tried, left
  <2>. QED
    BY <1>2, <1>7
<1> HIDE DEF left
<1>9. 0 \in P
  BY <1>2, <1>8
<1>10. ASSUME NEW k \in 1 .. n, k - 1 \in P PROVE k \in P
  <2>1. PICK t \in T : t = left[k - 1]
    BY <1>10
  <2>2. t.rows \in Seq(IdRow) /\ t.count = Len(t.rows) /\ t.count \in n - k + 1 .. n
    BY <1>10, <2>1
  <2>3. Tried(k, t) \in T
    BY <1>3
  <2>4. CASE n - k + 1 \in ticked
    <3>1. HasRow(t.rows, n - k)
      BY <2>2 DEF HasRow
    <3>2. Len(DeleteItem(t.rows, n - k)) = Len(t.rows) - 1
      BY <2>2, <3>1, DeleteItemShrinks
    <3>3. Tried(k, t).rows = DeleteItem(t.rows, n - k) /\ Tried(k, t).count = t.count - 1
      BY <2>4
    <3> HIDE DEF Tried
    <3>4. Tried(k, t).count = Len(Tried(k, t).rows)
      BY <2>2, <3>2, <3>3
    <3>5. Tried(k, t).count \in n - k .. n
      BY <2>2, <3>3
    <3> HIDE DEF T
    <3>. QED
      BY <1>8, <2>1, <2>3, <3>4, <3>5
  <2>5. CASE n - k + 1 \notin ticked
    <3>1. left[k] = t
      BY <1>8, <2>1, <2>5
    <3>2. t.count \in n - k .. n
      BY <2>2
    <3>. QED
      BY <2>1, <2>2, <3>1, <3>2
  <2>. QED
    BY <2>4, <2>5
<1>11. n \in P
  <2> HIDE DEF P, n
  <2>. QED
    <3>1. n \in Nat
      BY <1>2
    <3>2. \A k \in 1 .. n : k - 1 \in P => k \in P
      BY <1>10, Zenon
    <3>3. \A k \in 0 .. n : k \in P
      BY <1>9, <3>1, <3>2, Induction, Zenon
    <3>. QED
      BY <3>1, <3>3
<1>. QED
  BY <1>1, <1>11

LEMMA RowsTyped ==
  ASSUME NEW ids \in Seq(Ids)
  PROVE  Rows(ids) \in Seq(IdRow)
<1>1. \A i \in 1 .. Len(ids) : ids[i] \in Ids
  OBVIOUS
<1>2. \A i \in 1 .. Len(ids) : [id |-> ids[i]] \in IdRow
  BY <1>1, IdRows, Zenon
<1>. QED
  BY <1>2 DEF Rows

\* A snapshot is a list of ids that has every process that runs.
LEMMA SnapshotFacts ==
  ASSUME process \in [Pids -> Nat]
  PROVE  /\ Snapshot \in Seq(Ids)
         /\ \A p \in Pids : process[p] # 0 => \E i \in DOMAIN Snapshot : Snapshot[i] = p
<1>1. Running \subseteq Pids /\ IsFiniteSet(Running)
  BY FS_Subset, ProcessAssumption DEF Running
<1>2. PICK q : q = SetToSeq(Running)
  OBVIOUS
<1>3. q \in Seq(Running) /\ \A x \in Running : \E i \in DOMAIN q : q[i] = x
  BY <1>1, <1>2, SetToSeqRange
<1>4. q \in Seq(Ids) /\ <<0>> \in Seq(Ids) /\ Len(<<0>>) = 1
  BY <1>1, <1>3, IdRows DEF Ids
<1>5. PICK s : s = <<0>> \o q
  OBVIOUS
<1>6. s \in Seq(Ids) /\ Len(s) = 1 + Len(q) /\ \A i \in 1 .. Len(q) : s[i + 1] = q[i]
  BY <1>4, <1>5
<1>7. ASSUME NEW p \in Pids, process[p] # 0 PROVE \E i \in DOMAIN s : s[i] = p
  <2>1. PICK i \in DOMAIN q : q[i] = p
    BY <1>3, <1>7 DEF Running
  <2>2. i + 1 \in DOMAIN s /\ s[i + 1] = p
    BY <1>4, <1>6, <2>1
  <2>. QED
    BY <2>2
<1>. QED
  BY <1>2, <1>5, <1>6, <1>7 DEF Snapshot

LEMMA DeleteTyped ==
  ASSUME NEW rows \in Seq(IdRow), NEW i
  PROVE  DeleteItem(rows, i) \in Seq(IdRow)
BY DeleteItemShrinks DEF DeleteItem

LEMMA TextTyped ==
  ASSUME NEW rows \in Seq(IdRow), NEW i
  PROVE  GetItemText(rows, i, "id", 0) \in Ids
<1>1. HasRow(rows, i) => i + 1 \in DOMAIN rows
  BY DEF HasRow
<1>. QED
  BY <1>1, IdRows DEF GetItemText

LEMMA IdSetTyped ==
  ASSUME NEW rows \in Seq(IdRow), NEW i, NEW x \in Ids
  PROVE  SetItemText(rows, i, "id", x) \in Seq(IdRow)
<1>1. CASE HasRow(rows, i)
  <2> DEFINE r == [rows[i + 1] EXCEPT !["id"] = x]
  <2>1. rows[i + 1] \in IdRow
    BY <1>1 DEF HasRow
  <2>2. r \in IdRow
    BY <2>1 DEF IdRow
  <2>3. SetItemText(rows, i, "id", x) = [rows EXCEPT ![i + 1] = r]
    BY <1>1 DEF SetItemText
  <2> HIDE DEF r
  <2>. QED
    BY <2>2, <2>3, ReplaceRow
<1>2. CASE ~HasRow(rows, i)
  BY <1>2 DEF SetItemText
<1>. QED
  BY <1>1, <1>2

LEMMA EndedTyped ==
  ASSUME NEW id, process \in [Pids -> 0 .. starts], starts \in Nat
  PROVE  Ended(id) \in [Pids -> 0 .. starts]
BY DEF Ended

LEMMA ListsInit == Init => ListsInv
<1> SUFFICES ASSUME Init PROVE ListsInv
  OBVIOUS
<1>1. process = [p \in Pids |-> 1] /\ starts = 1 /\ procID = 0
      /\ mainRows = Rows(Snapshot) /\ procRows = <<>> /\ blackRows = <<>> /\ blackCount = 0
      /\ modal = "main"
  BY DEF Init, ProcInit, AppInit
<1>2. MaxStarts \in Nat /\ MaxListed \in Nat
  BY ProcessAssumption
<1>3. mainRows \in Seq(IdRow)
  BY <1>1, SnapshotFacts, RowsTyped
<1>4. process \in [Pids -> 0 .. starts]
  BY <1>1
<1>. QED
  BY <1>1, <1>2, <1>3, <1>4, IdRows DEF ListsInv

LEMMA ListsStep ==
  ASSUME ListsInv, ProcStep
  PROVE  ListsInv'
<1> USE DEF ListsInv
<1>0. MaxStarts \in Nat /\ MaxListed \in Nat /\ starts \in Nat /\ Len(blackRows) \in Nat
  BY ProcessAssumption
<1>1. ASSUME NEW p \in Pids, Starts(p) PROVE ListsInv'
  <2>1. starts' \in 1 .. MaxStarts + 1 /\ starts' = starts + 1
    BY <1>0, <1>1 DEF Starts
  <2>2. process' \in [Pids -> 0 .. starts']
    BY <1>0, <1>1, <2>1 DEF Starts
  <2>. QED
    BY <1>1, <2>1, <2>2 DEF Starts, shell, mainVars, blackVars, GetItemText
<1>2. ASSUME NEW p \in Pids, Exits(p) PROVE ListsInv'
  <2>1. process' \in [Pids -> 0 .. starts]
    BY <1>0, <1>2 DEF Exits
  <2>. QED
    BY <1>2, <2>1 DEF Exits, shell, mainVars, blackVars, GetItemText
<1>3. ASSUME NEW r \in Clickable(mainRows), RightClickProcess(r) PROVE ListsInv'
  <2>1. procID' \in Ids
    BY <1>3, TextTyped DEF RightClickProcess
  <2>2. UNCHANGED <<starts, process, mainRows, procRows, blackRows, blackCount>>
        /\ nRow' = r /\ procID' = GetItemText(mainRows, r, "id", 0)
    BY <1>3 DEF RightClickProcess, worldVars, blackVars
  <2>3. GetItemText(mainRows, nRow, "id", 0)' = GetItemText(mainRows, r, "id", 0)
    BY <2>2 DEF GetItemText
  <2>. QED
    BY <2>1, <2>2, <2>3
<1>4. CASE DismissMenu
  BY <1>4 DEF DismissMenu, MoveTo, procVars
<1>5. CASE EndProcess
  <2>1. mainRows' \in Seq(IdRow) /\ process' \in [Pids -> 0 .. starts]
    BY <1>0, <1>5, DeleteTyped, EndedTyped DEF EndProcess
  <2>2. modal' # "menu" /\ UNCHANGED <<starts, procID, procRows, blackRows, blackCount>>
    BY <1>5 DEF EndProcess, Survives, blackVars
  <2>. QED
    BY <2>1, <2>2
<1>6. CASE OpenBlacklist
  <2>1. process \in [Pids -> Nat]
    BY <1>0
  <2>2. procRows' \in Seq(IdRow)
    BY <1>6, <2>1, SnapshotFacts, RowsTyped DEF OpenBlacklist
  <2>3. modal' # "menu" /\ blackRows' = <<>> /\ blackCount' = 0
        /\ UNCHANGED <<starts, process, procID, mainRows>>
    BY <1>6 DEF OpenBlacklist, MoveTo, worldVars, mainVars
  <2>. QED
    BY <1>0, <2>2, <2>3
<1>7. CASE CloseBlacklist
  BY <1>0, <1>7 DEF CloseBlacklist, MoveTo, worldVars, mainVars
<1>8. CASE ClickKill
  BY <1>8 DEF ClickKill, MoveTo, worldVars, mainVars
<1>9. CASE AnswerBox
  <2>1. process' \in [Pids -> 0 .. starts]
    BY <1>0, <1>9, EndedTyped DEF AnswerBox
  <2>. QED
    BY <1>9, <2>1 DEF AnswerBox, Survives, mainVars
<1>10. ASSUME NEW r \in Clickable(procRows), DoubleClick(r) PROVE ListsInv'
  <2> DEFINE grown == InsertItem(blackRows, blackCount, [id |-> 0])
             text == GetItemText(procRows, r, "id", 0)
  <2>1. grown \in Seq(IdRow) /\ Len(grown) = Len(blackRows) + 1
    BY <1>0, InsertItemGrows, IdRows
  <2>2. text \in Ids
    BY TextTyped
  <2>3. blackRows' = SetItemText(grown, blackCount, "id", text)
    BY <1>10 DEF DoubleClick
  <2> HIDE DEF grown, text
  <2>4. blackRows' \in Seq(IdRow) /\ Len(blackRows') = Len(blackRows) + 1
    <3>1. SetItemText(grown, blackCount, "id", text) \in Seq(IdRow)
      BY <2>1, <2>2, IdSetTyped
    <3>2. Len(SetItemText(grown, blackCount, "id", text)) = Len(grown)
      BY <2>1, SetItemTextKeepsLength
    <3>. QED
      BY <2>1, <2>3, <3>1, <3>2
  <2>5. blackCount' = blackCount + 1 /\ blackCount' <= MaxListed
    BY <1>0, <1>10 DEF DoubleClick
  <2>. QED
    BY <1>10, <2>4, <2>5 DEF DoubleClick, shell, worldVars, mainVars, GetItemText
<1>11. ASSUME NEW ticked \in SUBSET DOMAIN blackRows, RemoveTicked(ticked) PROVE ListsInv'
  <2>1. blackRows' = Without(blackRows, ticked).rows
        /\ blackCount' = Without(blackRows, ticked).count
    BY <1>11 DEF RemoveTicked
  <2>2. blackRows' \in Seq(IdRow) /\ blackCount' = Len(blackRows') /\ blackCount' <= blackCount
    BY <2>1, WithoutCounted
  <2>3. blackCount' <= MaxListed
    BY <1>0, <2>2
  <2>. QED
    BY <1>11, <2>2, <2>3 DEF RemoveTicked, shell, worldVars, mainVars, GetItemText
<1>12. CASE OpenHeap
  BY <1>12 DEF OpenHeap, MoveTo, worldVars, mainVars, blackVars
<1>13. ASSUME NEW ends \in BOOLEAN, CloseHeap(ends) PROVE ListsInv'
  BY <1>13 DEF CloseHeap, MoveTo, worldVars, mainVars, blackVars
<1>14. ASSUME NEW n \in DOMAIN heapWork, HeapWorker(n) PROVE ListsInv'
  <2>1. UNCHANGED <<shell, worldVars, mainVars, blackVars>>
    BY <1>14 DEF HeapWorker, HeapStart, HeapSnapshot, HeapRow, HeapEnd
  <2>. QED
    BY <2>1 DEF shell, worldVars, mainVars, blackVars, GetItemText
<1>. QED
  BY <1>1, <1>2, <1>3, <1>4, <1>5, <1>6, <1>7, <1>8, <1>9, <1>10, <1>11, <1>12, <1>13, <1>14
  DEF ProcStep

LEMMA ListsUnmoved ==
  ASSUME ListsInv, UNCHANGED procVars, Still(ProcDialogs)
  PROVE  ListsInv'
<1>1. modal' = "menu" => modal = "menu" /\ nRow' = nRow
  BY DEF Still, ProcDialogs
<1>2. GetItemText(mainRows, nRow, "id", 0)' = GetItemText(mainRows, nRow', "id", 0)
  BY DEF procVars, GetItemText
<1>. QED
  BY <1>1, <1>2 DEF ListsInv, procVars

LEMMA ListsHold == Spec => []ListsInv
<1>1. ASSUME ListsInv, Next PROVE ListsInv'
  BY <1>1, OneTool, ListsStep, ListsUnmoved
<1>2. ListsInv /\ UNCHANGED vars => ListsInv'
  BY NoStep, ListsUnmoved
<1>. QED
  BY ListsInit, <1>1, <1>2, PTL DEF Spec

\* The counter the blacklist inserts at and compares up to is the number of its rows,
\* through blank rows, repeated ids and removals (CBlacklistDialog.cpp, 79 and 154), for
\* any ids and any rows ticked.
THEOREM BlacklistCounted == Spec => []BlackCountRight
<1>1. ListsInv => BlackCountRight
  BY DEF ListsInv, BlackCountRight
<1>. QED
  BY ListsHold, <1>1, PTL

-----------------------------------------------------------------------------
(* The kill handler.                                                        *)

Matched(m) ==
  /\ m[1] \in DOMAIN kill.ids /\ m[2] + 1 \in DOMAIN blackRows
  /\ blackRows[m[2] + 1].id = kill.ids[m[1]]

\* Process p of the snapshot still has a match to answer.
Awaited(p) == \E m \in kill.left : kill.ids[m[1]] = p

IsListed(p) == \E i \in DOMAIN blackRows : blackRows[i].id = p

KillType == [ids : Seq(Ids), snap : [Pids -> 0 .. starts], left : SUBSET (Nat \X Nat)]

\* The kill handler: what is left to answer are matches, and no process of the snapshot
\* that is listed and still there has had all its matches answered.
KillInv ==
  /\ kill \in KillType
  /\ modal = "killbox" =>
       /\ \A m \in kill.left : Matched(m)
       /\ \A p \in Pids \ Protected :
            kill.snap[p] # 0 /\ IsListed(p) => process[p] # kill.snap[p] \/ Awaited(p)

LEMMA NoKillTyped ==
  ASSUME NEW n \in Nat
  PROVE  NoKill \in [ids : Seq(Ids), snap : [Pids -> 0 .. n], left : SUBSET (Nat \X Nat)]
<1>1. [p \in Pids |-> 0] \in [Pids -> 0 .. n] /\ <<>> \in Seq(Ids)
  OBVIOUS
<1>. QED
  BY <1>1 DEF NoKill

\* What an answered box leaves.
LEMMA AnswerKeeps ==
  ASSUME ListsInv, KillInv, AnswerBox
  PROVE  /\ kill' \in KillType /\ kill'.ids = kill.ids /\ kill'.snap = kill.snap
         /\ kill'.left \subseteq kill.left
         /\ \A p \in Pids \ Protected :
              kill.snap[p] # 0 /\ IsListed(p) => process'[p] # kill.snap[p] \/ Awaited(p)'
<1>1. PICK m \in kill.left :
        process' = Ended(kill.ids[m[1]]) /\ kill' = [kill EXCEPT !.left = @ \ {m}]
  BY DEF AnswerBox
<1>2. kill \in KillType
  BY DEF KillInv
<1>3. kill'.ids = kill.ids /\ kill'.snap = kill.snap /\ kill'.left = kill.left \ {m}
  BY <1>1, <1>2 DEF KillType
<1>4. kill' \in KillType
  BY <1>1, <1>2 DEF KillType
<1>5. ASSUME NEW p \in Pids \ Protected, kill.snap[p] # 0, IsListed(p)
      PROVE  process'[p] # kill.snap[p] \/ Awaited(p)'
  <2>1. process[p] # kill.snap[p] \/ Awaited(p)
    BY <1>5 DEF KillInv, AnswerBox
  <2>2. process'[p] \in {0, process[p]}
    BY <1>1 DEF Ended, ListsInv
  <2>3. CASE process[p] # kill.snap[p]
    BY <1>5, <2>2, <2>3
  <2>4. CASE Awaited(p)
    <3>1. PICK n \in kill.left : kill.ids[n[1]] = p
      BY <2>4 DEF Awaited
    <3>2. CASE n = m
      <4>1. process'[p] = 0
        BY <1>1, <3>1, <3>2 DEF Ended, ListsInv
      <4>. QED
        BY <1>5, <4>1
    <3>3. CASE n # m
      BY <1>3, <3>1, <3>3 DEF Awaited
    <3>. QED
      BY <3>2, <3>3
  <2>. QED
    BY <2>1, <2>3, <2>4
<1>. QED
  BY <1>3, <1>4, <1>5

\* The handler starts with a match for every process that is listed and runs.
LEMMA ClickMatches ==
  ASSUME ListsInv, ClickKill
  PROVE  KillInv'
<1>1. kill' = [ids |-> Snapshot, snap |-> process, left |-> Matches(Snapshot)]
      /\ UNCHANGED <<starts, process, blackRows, blackCount>>
  BY DEF ClickKill, worldVars
<1>2. process \in [Pids -> 0 .. starts] /\ starts \in Nat /\ blackRows \in Seq(IdRow)
      /\ blackCount = Len(blackRows)
  BY DEF ListsInv
<1>3. PICK s : s = Snapshot
  OBVIOUS
<1>4. s \in Seq(Ids) /\ \A p \in Pids : process[p] # 0 => \E i \in DOMAIN s : s[i] = p
  BY <1>2, <1>3, SnapshotFacts
<1>5. PICK found : found = Matches(s)
  OBVIOUS
<1>6. kill'.ids = s /\ kill'.snap = process /\ kill'.left = found
  BY <1>1, <1>3, <1>5
<1>7. \A m : m \in found <=> /\ m \in (DOMAIN s) \X (0 .. blackCount - 1)
                             /\ GetItemText(blackRows, m[2], "id", 0) = s[m[1]]
  BY <1>5 DEF Matches, Listed
<1>8. kill' \in KillType'
  <2>1. found \subseteq Nat \X Nat
    BY <1>2, <1>4, <1>7
  <2>. QED
    BY <1>1, <1>2, <1>3, <1>4, <1>5, <2>1 DEF KillType
<1>9. ASSUME NEW m \in found PROVE Matched(m)'
  <2>1. m[1] \in DOMAIN s /\ m[2] \in 0 .. Len(blackRows) - 1
    BY <1>2, <1>7
  <2>2. GetItemText(blackRows, m[2], "id", 0) = blackRows[m[2] + 1].id /\ m[2] + 1 \in DOMAIN blackRows
    BY <1>2, <2>1 DEF GetItemText, HasRow
  <2>. QED
    BY <1>1, <1>6, <1>7, <2>1, <2>2 DEF Matched
<1>10. ASSUME NEW p \in Pids, process[p] # 0, IsListed(p) PROVE Awaited(p)'
  <2>1. PICK k \in DOMAIN s : s[k] = p
    BY <1>4, <1>10
  <2>2. PICK i \in DOMAIN blackRows : blackRows[i].id = p
    BY <1>10 DEF IsListed
  <2>3. PICK m : m = <<k, i - 1>>
    OBVIOUS
  <2>4. m[1] = k /\ m[2] = i - 1 /\ m \in (DOMAIN s) \X (0 .. blackCount - 1)
    BY <1>2, <2>1, <2>2, <2>3
  <2>5. GetItemText(blackRows, m[2], "id", 0) = p
    BY <1>2, <2>2, <2>4 DEF GetItemText, HasRow
  <2>6. m \in found
    BY <1>7, <2>1, <2>4, <2>5
  <2>. QED
    BY <1>6, <2>1, <2>4, <2>6 DEF Awaited
<1>11. \A p : IsListed(p)' <=> IsListed(p)
  BY <1>1 DEF IsListed
<1>. QED
  BY <1>1, <1>6, <1>8, <1>9, <1>10, <1>11 DEF KillInv

\* Steps that leave the handler alone.
LEMMA KillUnmoved ==
  ASSUME KillInv, starts \in Nat, starts' \in Nat, starts <= starts',
         UNCHANGED kill, modal' = "killbox" => modal = "killbox",
         modal = "killbox" => UNCHANGED blackRows,
         modal = "killbox" => \A p \in Pids : process'[p] = process[p] \/ process'[p] = 0
                                                \/ process'[p] > starts
  PROVE  KillInv'
<1>1. kill \in KillType /\ kill \in KillType'
  <2>1. kill \in KillType
    BY DEF KillInv
  <2>2. kill.ids \in Seq(Ids) /\ kill.snap \in [Pids -> 0 .. starts] /\ kill.left \in SUBSET (Nat \X Nat)
        /\ kill = [ids |-> kill.ids, snap |-> kill.snap, left |-> kill.left]
    BY <2>1 DEF KillType
  <2>3. kill.snap \in [Pids -> 0 .. starts']
    BY <2>2
  <2>. QED
    BY <2>1, <2>2, <2>3 DEF KillType
<1>2. ASSUME modal' = "killbox" PROVE \A m \in kill.left : Matched(m)'
  BY <1>2 DEF KillInv, Matched
<1>3. ASSUME modal' = "killbox", NEW p \in Pids \ Protected, kill.snap[p] # 0, IsListed(p)'
      PROVE  process'[p] # kill.snap[p] \/ Awaited(p)'
  <2>1. IsListed(p)
    BY <1>3 DEF IsListed
  <2>2. process[p] # kill.snap[p] \/ Awaited(p)
    BY <1>3, <2>1 DEF KillInv
  <2>3. Awaited(p) => Awaited(p)'
    BY DEF Awaited
  <2>4. kill.snap[p] \in 0 .. starts
    BY <1>1 DEF KillType
  <2>5. process'[p] = process[p] \/ process'[p] = 0 \/ process'[p] > starts
    BY <1>3
  <2>. QED
    BY <1>3, <2>2, <2>3, <2>4, <2>5
<1>. QED
  BY <1>1, <1>2, <1>3 DEF KillInv

LEMMA KillStep ==
  ASSUME ListsInv, KillInv, ProcStep
  PROVE  KillInv'
<1>0. starts \in Nat /\ process \in [Pids -> 0 .. starts]
  BY DEF ListsInv
<1>1. ASSUME NEW p \in Pids, Starts(p) PROVE KillInv'
  <2>1. starts' = starts + 1 /\ UNCHANGED <<kill, modal, blackRows>>
    BY <1>1 DEF Starts, shell, blackVars
  <2>2. \A q \in Pids : process'[q] = process[q] \/ process'[q] > starts
    BY <1>0, <1>1, <2>1 DEF Starts
  <2>. QED
    BY <1>0, <2>1, <2>2, KillUnmoved
<1>2. ASSUME NEW p \in Pids, Exits(p) PROVE KillInv'
  <2>1. UNCHANGED <<starts, kill, modal, blackRows>>
    BY <1>2 DEF Exits, shell, blackVars
  <2>2. \A q \in Pids : process'[q] = process[q] \/ process'[q] = 0
    BY <1>0, <1>2 DEF Exits
  <2>. QED
    BY <1>0, <2>1, <2>2, KillUnmoved
<1>3. ASSUME UNCHANGED <<kill, starts>>, modal # "killbox", modal' # "killbox" PROVE KillInv'
  BY <1>0, <1>3, KillUnmoved
<1>4. ASSUME NEW r, RightClickProcess(r) PROVE KillInv'
  BY <1>3, <1>4 DEF RightClickProcess, worldVars, blackVars
<1>5. CASE DismissMenu
  BY <1>3, <1>5 DEF DismissMenu, MoveTo, procVars
<1>6. CASE EndProcess
  BY <1>3, <1>6 DEF EndProcess, Survives, blackVars
<1>7. CASE OpenBlacklist \/ CloseBlacklist
  <2>1. kill' = NoKill /\ modal' # "killbox" /\ starts' = starts
    BY <1>7 DEF OpenBlacklist, CloseBlacklist, MoveTo, worldVars
  <2>2. kill' \in KillType'
    BY <1>0, <2>1, NoKillTyped DEF KillType
  <2>. QED
    BY <2>1, <2>2 DEF KillInv
<1>8. CASE ClickKill
  BY <1>8, ClickMatches
<1>9. CASE AnswerBox
  <2>1. starts' = starts /\ blackRows' = blackRows /\ kill' \in KillType
        /\ kill'.ids = kill.ids /\ kill'.snap = kill.snap /\ kill'.left \subseteq kill.left
        /\ modal = "killbox"
    BY <1>9, AnswerKeeps DEF AnswerBox
  <2>2. kill' \in KillType'
    BY <2>1 DEF KillType
  <2>3. \A m \in kill'.left : Matched(m)'
    BY <2>1 DEF KillInv, Matched
  <2>4. \A p : IsListed(p)' <=> IsListed(p)
    BY <2>1 DEF IsListed
  <2>5. \A p \in Pids \ Protected :
          kill'.snap[p] # 0 /\ IsListed(p)' => process'[p] # kill'.snap[p] \/ Awaited(p)'
    BY <1>9, <2>1, <2>4, AnswerKeeps
  <2>. QED
    BY <2>2, <2>3, <2>5 DEF KillInv
<1>10. ASSUME NEW r, DoubleClick(r) PROVE KillInv'
  BY <1>3, <1>10 DEF DoubleClick, shell, worldVars
<1>11. ASSUME NEW ticked, RemoveTicked(ticked) PROVE KillInv'
  BY <1>3, <1>11 DEF RemoveTicked, shell, worldVars
<1>12. CASE OpenHeap
  BY <1>3, <1>12 DEF OpenHeap, MoveTo, worldVars, blackVars
<1>13. ASSUME NEW ends, CloseHeap(ends) PROVE KillInv'
  BY <1>3, <1>13 DEF CloseHeap, MoveTo, worldVars, blackVars
<1>14. ASSUME NEW n, HeapWorker(n) PROVE KillInv'
  <2>1. UNCHANGED <<shell, worldVars, mainVars, blackVars>>
    BY <1>14 DEF HeapWorker, HeapStart, HeapSnapshot, HeapRow, HeapEnd
  <2>. QED
    BY <1>0, <2>1, KillUnmoved DEF shell, worldVars, blackVars
<1>. QED
  BY <1>1, <1>2, <1>4, <1>5, <1>6, <1>7, <1>8, <1>9, <1>10, <1>11, <1>12, <1>13, <1>14
  DEF ProcStep

LEMMA KillStill ==
  ASSUME ListsInv, KillInv, UNCHANGED procVars, Still(ProcDialogs)
  PROVE  KillInv'
<1>1. modal' = "killbox" => modal = "killbox"
  BY DEF Still, ProcDialogs
<1>2. starts \in Nat
  BY DEF ListsInv
<1>. QED
  BY <1>1, <1>2, KillUnmoved DEF procVars

LEMMA KillHolds == Spec => [](ListsInv /\ KillInv)
<1>1. Init => KillInv
  <2> SUFFICES ASSUME Init PROVE KillInv
    OBVIOUS
  <2>1. kill = NoKill /\ modal = "main" /\ starts = 1
    BY DEF Init, AppInit, ProcInit
  <2>. QED
    BY <2>1, NoKillTyped DEF KillInv, KillType
<1>2. ASSUME ListsInv, KillInv, Next PROVE KillInv'
  BY <1>2, OneTool, KillStep, KillStill
<1>3. ListsInv /\ KillInv /\ UNCHANGED vars => KillInv'
  BY NoStep, KillStill
<1>. QED
  BY ListsHold, <1>1, <1>2, <1>3, PTL DEF Spec

\* When the kill handler returns, every process of its snapshot with an id in the
\* blacklist is gone, unless it is protected, whatever started and exited while the
\* boxes were up (CBlacklistDialog.cpp, 100 to 111), for any processes and rows.
THEOREM KillsAllListed == Spec => KillReachesAll
<1>1. ListsInv /\ KillInv /\ [Next]_vars
        => [modal = "killbox" /\ modal' = "blacklist" =>
              \A p \in Pids \ Protected :
                kill.snap[p] # 0 /\ (\E i \in DOMAIN blackRows : blackRows[i].id = p) =>
                  process'[p] # kill.snap[p]]_<<shell, procVars>>
  <2> SUFFICES ASSUME ListsInv, KillInv, Next, modal = "killbox", modal' = "blacklist",
                      NEW p \in Pids \ Protected, kill.snap[p] # 0, IsListed(p)
               PROVE  process'[p] # kill.snap[p]
    BY DEF vars, IsListed
  <2>1. ProcStep
    BY OneTool DEF Still, ProcDialogs
  <2>2. AnswerBox
    <3>1. \A n : ~HeapWorker(n)
      BY DEF HeapWorker, HeapStart, HeapSnapshot, HeapRow, HeapEnd, shell
    <3>2. \A r : ~RightClickProcess(r) /\ ~DoubleClick(r) /\ ~Starts(r) /\ ~Exits(r) /\ ~RemoveTicked(r)
      BY DEF RightClickProcess, DoubleClick, Starts, Exits, RemoveTicked, shell
    <3>3. ~DismissMenu /\ ~EndProcess /\ ~OpenBlacklist /\ ~CloseBlacklist /\ ~ClickKill /\ ~OpenHeap
          /\ \A e : ~CloseHeap(e)
      BY DEF DismissMenu, EndProcess, OpenBlacklist, CloseBlacklist, ClickKill, OpenHeap, CloseHeap
    <3>. QED
      BY <2>1, <3>1, <3>2, <3>3 DEF ProcStep
  <2>3. kill'.left = {}
    BY <2>2 DEF AnswerBox, Survives
  <2>. QED
    BY <2>2, <2>3, AnswerKeeps DEF Awaited
<1>. QED
  BY KillHolds, <1>1, PTL DEF Spec, KillReachesAll

\* Whatever the program ends was chosen: it has the id of the row that goes with it,
\* or of a row of the blacklist (ProcessMangerAlphaDlg.cpp, 317; CBlacklistDialog.cpp, 103),
\* for any processes and rows.
THEOREM ProgramEndsChosen == Spec => EndsOnlyChosen
<1> DEFINE Chosen(p) == \/ modal = "menu" /\ mainRows[nRow + 1].id = p
                        \/ modal = "killbox" /\ \E i \in DOMAIN blackRows : blackRows[i].id = p
<1>1. ASSUME ListsInv, KillInv, Next, ~UNCHANGED <<modal, mainRows, kill>>,
             NEW p \in Pids, process[p] # 0, process'[p] = 0
      PROVE  Chosen(p)
  <2>1. ProcStep
    BY <1>1, OneTool DEF procVars
  <2>2. CASE EndProcess
    <3>1. p = procID /\ p # 0 /\ modal = "menu"
      BY <1>1, <2>2, ProcessAssumption DEF EndProcess, Ended, ListsInv
    <3>2. procID = GetItemText(mainRows, nRow, "id", 0)
      BY <1>1, <3>1 DEF ListsInv
    <3>3. mainRows[nRow + 1].id = p
      BY <3>1, <3>2 DEF GetItemText
    <3>. QED
      BY <3>1, <3>3
  <2>3. CASE AnswerBox
    <3>1. PICK m \in kill.left : process' = Ended(kill.ids[m[1]])
      BY <2>3 DEF AnswerBox
    <3>2. p = kill.ids[m[1]]
      BY <1>1, <3>1 DEF Ended, ListsInv
    <3>3. modal = "killbox" /\ Matched(m)
      BY <1>1, <2>3, <3>1 DEF AnswerBox, KillInv
    <3>. QED
      BY <3>2, <3>3 DEF Matched
  <2>4. CASE \E q \in Pids : Starts(q) \/ Exits(q)
    BY <1>1, <2>4 DEF Starts, Exits, shell, mainVars, blackVars
  <2>5. \A n : HeapWorker(n) => process' = process
    BY DEF HeapWorker, HeapStart, HeapSnapshot, HeapRow, HeapEnd, worldVars
  <2>6. \A r : RightClickProcess(r) \/ DoubleClick(r) \/ RemoveTicked(r) \/ CloseHeap(r)
                 => process' = process
    BY DEF RightClickProcess, DoubleClick, RemoveTicked, CloseHeap, worldVars
  <2>7. DismissMenu \/ OpenBlacklist \/ CloseBlacklist \/ ClickKill \/ OpenHeap => process' = process
    BY DEF DismissMenu, OpenBlacklist, CloseBlacklist, ClickKill, OpenHeap, worldVars, procVars
  <2>. QED
    BY <1>1, <2>1, <2>2, <2>3, <2>4, <2>5, <2>6, <2>7 DEF ProcStep
<1>2. ListsInv /\ KillInv /\ [Next]_vars
        => [<<modal, mainRows, kill>>' # <<modal, mainRows, kill>> =>
              \A p \in Pids : process[p] # 0 /\ process'[p] = 0 =>
                \/ modal = "menu" /\ mainRows[nRow + 1].id = p
                \/ modal = "killbox" /\ \E i \in DOMAIN blackRows : blackRows[i].id = p]_<<shell, procVars>>
  BY <1>1 DEF vars
<1>. QED
  BY KillHolds, <1>2, PTL DEF Spec, EndsOnlyChosen

-----------------------------------------------------------------------------
(* The heap dialog.                                                         *)

WorkType == [pc : {"none", "start", "copy", "rows", "done", "killed"}, id : Ids,
             blocks : 0 .. MaxBlocks, shown : 0 .. MaxBlocks]

\* The rows of a window opened for an id, when n blocks have been shown.
Blocks(id, n) == [i \in 1 .. n |-> [id |-> id, block |-> i]]

\* The worker of the window in front, for an id, with the rows of the window: it has not
\* ended, found what it shows for the window's id, and shows it from the first block on.
InFront(w, id, rows) ==
  /\ w.pc \in {"start", "copy", "rows", "done"}
  /\ w.pc \in {"start", "copy"} => w.shown = 0
  /\ w.pc \in {"rows", "done"} => w.id = id /\ w.shown <= w.blocks
  /\ w.pc = "done" => w.shown = w.blocks
  /\ rows = Blocks(id, w.shown)

\* The workers are numbered as their windows were opened, and the window in front is for
\* the id that the worker will read, or has read.
HeapInv ==
  /\ heapWork \in [1 .. MaxHeaps -> WorkType]
  /\ \E m \in 0 .. MaxHeaps : \A k \in 1 .. MaxHeaps :
       IF k <= m THEN heapWork[k].pc # "none" ELSE heapWork[k] = Unstarted
  /\ modal = "heap" =>
       /\ heapWin.number \in 1 .. MaxHeaps /\ heapWin.id = procID
       /\ InFront(heapWork[heapWin.number], heapWin.id, heapRows)

LEMMA WorkFields ==
  ASSUME NEW w \in WorkType
  PROVE  /\ w = [pc |-> w.pc, id |-> w.id, blocks |-> w.blocks, shown |-> w.shown]
         /\ w.id \in Ids /\ w.blocks \in 0 .. MaxBlocks /\ w.shown \in 0 .. MaxBlocks
BY DEF WorkType

LEMMA WorkMoves ==
  ASSUME NEW w \in WorkType, NEW pc \in {"none", "start", "copy", "rows", "done", "killed"}
  PROVE  LET new == [w EXCEPT !.pc = pc]
         IN new \in WorkType /\ new.pc = pc /\ new.id = w.id /\ new.blocks = w.blocks
            /\ new.shown = w.shown
BY DEF WorkType

LEMMA WorkShows ==
  ASSUME NEW w \in WorkType, w.shown < w.blocks
  PROVE  LET new == [w EXCEPT !.shown = w.shown + 1]
         IN new \in WorkType /\ new.pc = w.pc /\ new.id = w.id /\ new.blocks = w.blocks
            /\ new.shown = w.shown + 1
<1>1. MaxBlocks \in Nat
  BY ProcessAssumption
<1>2. w.shown + 1 \in 0 .. MaxBlocks
  BY <1>1, WorkFields
<1>. QED
  BY <1>2 DEF WorkType

\* A block is shown behind those before it.
LEMMA BlockAdded ==
  ASSUME NEW id, NEW n \in Nat
  PROVE  InsertItem(Blocks(id, n), n, [id |-> id, block |-> n + 1]) = Blocks(id, n + 1)
<1>1. PICK rows : rows = Blocks(id, n)
  OBVIOUS
<1>2. rows \in Seq([id : {id}, block : Nat]) /\ Len(rows) = n
      /\ \A i \in 1 .. n : rows[i] = [id |-> id, block |-> i]
  BY <1>1 DEF Blocks
<1>3. InsertItem(rows, n, [id |-> id, block |-> n + 1])
        = [j \in 1 .. n + 1 |-> IF j <= n THEN rows[j] ELSE IF j = n + 1 THEN [id |-> id, block |-> n + 1]
                                ELSE rows[j - 1]]
  BY <1>2 DEF InsertItem
<1>4. \A j \in 1 .. n + 1 : (IF j <= n THEN rows[j] ELSE IF j = n + 1 THEN [id |-> id, block |-> n + 1]
                             ELSE rows[j - 1]) = [id |-> id, block |-> j]
  BY <1>2
<1>. QED
  BY <1>1, <1>3, <1>4 DEF Blocks

LEMMA HeapInitInv == Init => HeapInv
<1> SUFFICES ASSUME Init PROVE HeapInv
  OBVIOUS
<1>1. heapWork = [n \in 1 .. MaxHeaps |-> Unstarted] /\ modal = "main"
  BY DEF Init, AppInit, ProcInit
<1>2. Unstarted \in WorkType /\ MaxHeaps \in Nat
  BY IdRows, ProcessAssumption DEF Unstarted, WorkType
<1>3. \A k \in 1 .. MaxHeaps : IF k <= 0 THEN heapWork[k].pc # "none" ELSE heapWork[k] = Unstarted
  BY <1>1
<1>. QED
  BY <1>1, <1>2, <1>3 DEF HeapInv

\* A worker's step on the others' count, and on the window in front.
LEMMA WorkerMoved ==
  ASSUME HeapInv, NEW n \in 1 .. MaxHeaps, NEW new \in WorkType,
         heapWork[n].pc # "none", new.pc # "none",
         heapWork' = [heapWork EXCEPT ![n] = new], UNCHANGED <<modal, heapWin, procID>>,
         heapWin.number # n => heapRows' = heapRows,
         modal = "heap" /\ heapWin.number = n => InFront(new, heapWin.id, heapRows')
  PROVE  HeapInv'
<1>0. heapWork \in [1 .. MaxHeaps -> WorkType] /\ MaxHeaps \in Nat
  BY ProcessAssumption DEF HeapInv
<1>1. heapWork' \in [1 .. MaxHeaps -> WorkType]
  BY <1>0
<1>2. \E m \in 0 .. MaxHeaps : \A k \in 1 .. MaxHeaps :
        IF k <= m THEN heapWork'[k].pc # "none" ELSE heapWork'[k] = Unstarted
  <2>1. PICK m \in 0 .. MaxHeaps : \A k \in 1 .. MaxHeaps :
          IF k <= m THEN heapWork[k].pc # "none" ELSE heapWork[k] = Unstarted
    BY DEF HeapInv
  <2>2. n <= m
    BY <2>1 DEF Unstarted
  <2>. QED
    BY <1>0, <2>1, <2>2
<1>3. ASSUME modal = "heap"
      PROVE  heapWin.number \in 1 .. MaxHeaps /\ heapWin.id = procID
             /\ InFront(heapWork'[heapWin.number], heapWin.id, heapRows')
  <2>1. CASE heapWin.number = n
    BY <1>0, <1>3, <2>1 DEF HeapInv
  <2>2. CASE heapWin.number # n
    BY <1>0, <1>3, <2>2 DEF HeapInv
  <2>. QED
    BY <2>1, <2>2
<1>. QED
  BY <1>1, <1>2, <1>3 DEF HeapInv


\* The window that is opened gets the first number without a worker.
LEMMA HeapOpened ==
  ASSUME HeapInv, ListsInv, OpenHeap
  PROVE  HeapInv'
<1> DEFINE started == {k \in DOMAIN heapWork : heapWork[k].pc # "none"}
<1>0. heapWork \in [1 .. MaxHeaps -> WorkType] /\ MaxHeaps \in Nat
  BY ProcessAssumption DEF HeapInv
<1>1. PICK m \in 0 .. MaxHeaps : \A k \in 1 .. MaxHeaps :
        IF k <= m THEN heapWork[k].pc # "none" ELSE heapWork[k] = Unstarted
  BY DEF HeapInv
<1>2. Cardinality(started) = m
  <2>1. DOMAIN heapWork = 1 .. MaxHeaps
    BY <1>0
  <2>2. \A k \in 1 .. MaxHeaps : heapWork[k].pc # "none" <=> k <= m
    BY <1>1 DEF Unstarted
  <2>3. started = {k \in 1 .. MaxHeaps : k <= m}
    BY <2>1, <2>2
  <2>4. started = 1 .. m
    BY <1>0, <2>3
  <2> HIDE DEF started
  <2>. QED
    BY <2>4, FS_Interval
<1>3. PICK n : n = Cardinality(started) + 1
  OBVIOUS
<1>4. n = m + 1
  BY <1>2, <1>3
<1>5. /\ n <= MaxHeaps /\ modal = "menu" /\ modal' = "heap"
      /\ heapWin' = [number |-> n, id |-> procID] /\ heapRows' = <<>>
      /\ heapWork' = [heapWork EXCEPT ![n].pc = "start"] /\ procID' = procID
  BY <1>3 DEF OpenHeap, MoveTo, mainVars
<1>6. n \in 1 .. MaxHeaps /\ heapWork[n] = Unstarted
  BY <1>0, <1>1, <1>4, <1>5
<1>7. PICK new \in WorkType : new = [heapWork[n] EXCEPT !.pc = "start"] /\ new.pc = "start"
                                /\ new.shown = heapWork[n].shown
  <2>1. PICK w \in WorkType : w = heapWork[n]
    BY <1>0, <1>6
  <2>2. PICK new \in WorkType : new = [w EXCEPT !.pc = "start"] /\ new.pc = "start"
                                  /\ new.shown = w.shown
    BY WorkMoves
  <2>. QED
    BY <2>1, <2>2
<1>8. heapWork' = [heapWork EXCEPT ![n] = new]
  BY <1>0, <1>5, <1>6, <1>7
<1>9. heapWork' \in [1 .. MaxHeaps -> WorkType]
  BY <1>0, <1>8
<1>10. \A k \in 1 .. MaxHeaps :
         IF k <= n THEN heapWork'[k].pc # "none" ELSE heapWork'[k] = Unstarted
  BY <1>0, <1>1, <1>4, <1>6, <1>7, <1>8
<1>11. heapRows' = Blocks(procID, 0)
  BY <1>5 DEF Blocks
<1>12. InFront(new, procID, heapRows')
  BY <1>6, <1>7, <1>11 DEF InFront, Unstarted
<1>13. heapWin'.number = n /\ heapWin'.id = procID /\ heapWork'[n] = new
  BY <1>0, <1>5, <1>6, <1>8
<1>. QED
  BY <1>4, <1>5, <1>6, <1>9, <1>10, <1>12, <1>13 DEF HeapInv

LEMMA HeapWorkerStep ==
  ASSUME HeapInv, ListsInv, NEW n \in DOMAIN heapWork, HeapWorker(n)
  PROVE  HeapInv'
<1>0. heapWork \in [1 .. MaxHeaps -> WorkType] /\ n \in 1 .. MaxHeaps
      /\ UNCHANGED <<modal, heapWin, procID>>
  BY DEF HeapInv, HeapWorker, HeapStart, HeapSnapshot, HeapRow, HeapEnd, shell, mainVars
<1>1. PICK w \in WorkType : w = heapWork[n]
  BY <1>0
<1>2. modal = "heap" /\ heapWin.number = n => InFront(w, heapWin.id, heapRows) /\ heapWin.id = procID
  BY <1>1 DEF HeapInv
<1>3. CASE HeapStart(n)
  <2>1. PICK new \in WorkType : new = [w EXCEPT !.pc = "copy"] /\ new.pc = "copy"
                                  /\ new.shown = w.shown
    BY WorkMoves
  <2>2. w.pc = "start" /\ heapRows' = heapRows
    BY <1>1, <1>3 DEF HeapStart
  <2>3. heapWork' = [heapWork EXCEPT ![n] = new]
    BY <1>0, <1>1, <1>3, <2>1 DEF HeapStart
  <2>4. modal = "heap" /\ heapWin.number = n => InFront(new, heapWin.id, heapRows')
    BY <1>2, <2>1, <2>2 DEF InFront
  <2>. QED
    BY <1>0, <1>1, <2>1, <2>2, <2>3, <2>4, WorkerMoved
<1>4. CASE HeapSnapshot(n)
  <2>1. PICK found \in 0 .. MaxBlocks :
          heapWork' = [heapWork EXCEPT ![n] = [pc |-> "rows", id |-> procID, blocks |-> found, shown |-> 0]]
    BY <1>4 DEF HeapSnapshot
  <2>2. PICK new : new = [pc |-> "rows", id |-> procID, blocks |-> found, shown |-> 0]
    OBVIOUS
  <2>3. new \in WorkType /\ new.pc = "rows" /\ new.id = procID /\ new.shown = 0 /\ new.blocks = found
    BY <2>2, ProcessAssumption DEF WorkType, ListsInv
  <2>4. w.pc = "copy" /\ heapRows' = heapRows
    BY <1>1, <1>4 DEF HeapSnapshot
  <2>5. heapWork' = [heapWork EXCEPT ![n] = new]
    BY <2>1, <2>2
  <2>6. modal = "heap" /\ heapWin.number = n => InFront(new, heapWin.id, heapRows')
    BY <1>2, <2>3, <2>4 DEF InFront
  <2>. QED
    BY <1>0, <1>1, <2>3, <2>4, <2>5, <2>6, WorkerMoved
<1>5. CASE HeapRow(n)
  <2>1. w.pc = "rows" /\ w.shown < w.blocks
        /\ heapWork' = [heapWork EXCEPT ![n].shown = w.shown + 1]
        /\ heapRows' = IF modal = "heap" /\ heapWin.number = n
                       THEN InsertItem(heapRows, w.shown, [id |-> w.id, block |-> w.shown + 1])
                       ELSE heapRows
    BY <1>1, <1>5 DEF HeapRow
  <2>2. PICK new \in WorkType :
          /\ new = [w EXCEPT !.shown = w.shown + 1] /\ new.pc = w.pc /\ new.id = w.id
          /\ new.blocks = w.blocks /\ new.shown = w.shown + 1
    BY <2>1, WorkShows
  <2>3. heapWork' = [heapWork EXCEPT ![n] = new]
    BY <1>0, <1>1, <2>1, <2>2
  <2>4. ASSUME modal = "heap", heapWin.number = n PROVE InFront(new, heapWin.id, heapRows')
    <3>1. InFront(w, heapWin.id, heapRows)
      BY <1>2, <2>4
    <3>2. w.id = heapWin.id /\ heapRows = Blocks(w.id, w.shown)
      BY <2>1, <3>1 DEF InFront
    <3>3. w.shown \in Nat /\ w.blocks \in Nat
      BY WorkFields, ProcessAssumption
    <3>4. heapRows' = Blocks(w.id, w.shown + 1)
      BY <2>1, <2>4, <3>2, <3>3, BlockAdded
    <3>. QED
      BY <2>1, <2>2, <3>2, <3>3, <3>4 DEF InFront
  <2>5. heapWin.number # n => heapRows' = heapRows
    BY <2>1
  <2>. QED
    BY <1>0, <1>1, <2>1, <2>2, <2>3, <2>4, <2>5, WorkerMoved
<1>6. CASE HeapEnd(n)
  <2>1. PICK new \in WorkType : new = [w EXCEPT !.pc = "done"] /\ new.pc = "done" /\ new.id = w.id
                                  /\ new.shown = w.shown /\ new.blocks = w.blocks
    BY WorkMoves
  <2>2. w.pc = "rows" /\ w.shown = w.blocks /\ heapRows' = heapRows
    BY <1>1, <1>6 DEF HeapEnd
  <2>3. heapWork' = [heapWork EXCEPT ![n] = new]
    BY <1>0, <1>1, <1>6, <2>1 DEF HeapEnd
  <2>4. modal = "heap" /\ heapWin.number = n => InFront(new, heapWin.id, heapRows')
    BY <1>2, <2>1, <2>2 DEF InFront
  <2>. QED
    BY <1>0, <1>1, <2>1, <2>2, <2>3, <2>4, WorkerMoved
<1>. QED
  BY <1>3, <1>4, <1>5, <1>6 DEF HeapWorker

\* Steps that leave the workers alone and open no window.
LEMMA HeapUnmoved ==
  ASSUME HeapInv, UNCHANGED heapVars, modal' = "heap" => modal = "heap" /\ procID' = procID
  PROVE  HeapInv'
BY DEF HeapInv, heapVars

LEMMA HeapClosed ==
  ASSUME HeapInv, NEW ends \in BOOLEAN, CloseHeap(ends)
  PROVE  HeapInv'
<1>0. heapWork \in [1 .. MaxHeaps -> WorkType] /\ modal = "heap" /\ modal' = "main"
      /\ heapWin.number \in 1 .. MaxHeaps
  BY DEF HeapInv, CloseHeap, MoveTo
<1>1. PICK m \in 0 .. MaxHeaps : \A k \in 1 .. MaxHeaps :
        IF k <= m THEN heapWork[k].pc # "none" ELSE heapWork[k] = Unstarted
  BY DEF HeapInv
<1>2. PICK n \in 1 .. MaxHeaps : n = heapWin.number
  BY <1>0
<1>3. heapWork[n].pc # "none"
  BY <1>0, <1>2 DEF HeapInv, InFront
<1>4. heapWork' = heapWork \/ heapWork' = [heapWork EXCEPT ![n].pc = "killed"]
  BY <1>2 DEF CloseHeap
<1>5. CASE heapWork' = heapWork
  BY <1>0, <1>1, <1>5 DEF HeapInv
<1>6. CASE heapWork' = [heapWork EXCEPT ![n].pc = "killed"]
  <2>1. PICK new \in WorkType : new = [heapWork[n] EXCEPT !.pc = "killed"] /\ new.pc = "killed"
    BY <1>0, WorkMoves
  <2>2. heapWork' = [heapWork EXCEPT ![n] = new]
    BY <1>0, <1>6, <2>1
  <2>3. \A k \in 1 .. MaxHeaps :
          IF k <= m THEN heapWork'[k].pc # "none" ELSE heapWork'[k] = Unstarted
    BY <1>0, <1>1, <1>3, <2>1, <2>2 DEF Unstarted
  <2>4. heapWork' \in [1 .. MaxHeaps -> WorkType]
    BY <1>0, <2>2
  <2>. QED
    BY <1>0, <2>3, <2>4 DEF HeapInv
<1>. QED
  BY <1>4, <1>5, <1>6

LEMMA HeapStepInv ==
  ASSUME HeapInv, ListsInv, ProcStep
  PROVE  HeapInv'
<1>1. CASE OpenHeap
  BY <1>1, HeapOpened
<1>2. ASSUME NEW ends \in BOOLEAN, CloseHeap(ends) PROVE HeapInv'
  BY <1>2, HeapClosed
<1>3. ASSUME NEW n \in DOMAIN heapWork, HeapWorker(n) PROVE HeapInv'
  BY <1>3, HeapWorkerStep
<1>4. ASSUME NEW p, Starts(p) \/ Exits(p) PROVE HeapInv'
  BY <1>4, HeapUnmoved DEF Starts, Exits, shell, mainVars
<1>5. ASSUME NEW r, RightClickProcess(r) \/ DoubleClick(r) \/ RemoveTicked(r) PROVE HeapInv'
  BY <1>5, HeapUnmoved DEF RightClickProcess, DoubleClick, RemoveTicked, shell, mainVars
<1>6. CASE DismissMenu \/ EndProcess
  BY <1>6, HeapUnmoved DEF DismissMenu, EndProcess, MoveTo, Survives, procVars, heapVars
<1>7. CASE OpenBlacklist \/ CloseBlacklist \/ ClickKill
  BY <1>7, HeapUnmoved DEF OpenBlacklist, CloseBlacklist, ClickKill, MoveTo, mainVars
<1>8. CASE AnswerBox
  BY <1>8, HeapUnmoved DEF AnswerBox, Survives, mainVars
<1>. QED
  BY <1>1, <1>2, <1>3, <1>4, <1>5, <1>6, <1>7, <1>8 DEF ProcStep

LEMMA HeapStill ==
  ASSUME HeapInv, UNCHANGED procVars, Still(ProcDialogs)
  PROVE  HeapInv'
<1>1. modal' = "heap" => modal = "heap"
  BY DEF Still, ProcDialogs
<1>. QED
  BY <1>1, HeapUnmoved DEF procVars, heapVars

\* The inductive invariant of the process tools.
ProcInv == ListsInv /\ KillInv /\ HeapInv

LEMMA ProcessesHold == Spec => []ProcInv
<1>1. ASSUME HeapInv, ListsInv, Next PROVE HeapInv'
  BY <1>1, OneTool, HeapStepInv, HeapStill
<1>2. HeapInv /\ UNCHANGED vars => HeapInv'
  BY NoStep, HeapStill
<1>. QED
  BY KillHolds, HeapInitInv, <1>1, <1>2, PTL DEF Spec, ProcInv

\* The variables of the process tools keep their types (ProcessMangerAlphaDlg.cpp,
\* CBlacklistDialog.cpp, CHeapDialog.cpp), for any processes and bounds.
LEMMA ProcTypeCorrect == ProcInv => ProcTypeOK
<1> SUFFICES ASSUME ProcInv PROVE ProcTypeOK
  OBVIOUS
<1>1. starts \in 1 .. MaxStarts + 1 /\ process \in [Pids -> 0 .. starts] /\ procID \in Ids
      /\ MaxStarts \in Nat
  BY ProcessAssumption DEF ProcInv, ListsInv
<1>2. process \in [Pids -> 0 .. MaxStarts + 1]
  BY <1>1
<1>3. blackCount \in 0 .. MaxListed /\ kill.ids \in Seq(Ids)
  BY ProcessAssumption DEF ProcInv, ListsInv, KillInv, KillType
<1>4. \A rows \in Seq(IdRow) : \A i \in DOMAIN rows : rows[i].id \in Ids
  <2> SUFFICES ASSUME NEW rows \in Seq(IdRow), NEW i \in DOMAIN rows PROVE rows[i].id \in Ids
    OBVIOUS
  <2>1. rows[i] \in IdRow
    OBVIOUS
  <2>. QED
    BY <2>1, IdRows
<1>5. mainRows \in Seq(IdRow) /\ blackRows \in Seq(IdRow)
  BY DEF ProcInv, ListsInv
<1>6. \A n \in DOMAIN heapWork : heapWork[n] \in WorkType
  BY DEF ProcInv, HeapInv
<1>. QED
  BY <1>1, <1>2, <1>3, <1>4, <1>5, <1>6 DEF ProcTypeOK, WorkType

\* An open heap window shows the blocks of the process it was opened for, in their
\* order, and all of them when its worker is done, whatever an earlier window's worker
\* does (CHeapDialog.cpp, 66 to 97), for any processes, blocks and number of windows.
THEOREM HeapWindowRight == Spec => []HeapShown
<1>1. ProcInv => HeapShown
  BY DEF ProcInv, HeapInv, HeapShown, InFront, Blocks
<1>. QED
  BY ProcessesHold, <1>1, PTL

-----------------------------------------------------------------------------
(* The start-up entries: the registry.                                      *)

\* A key's values are any values, none of them twice.
LEMMA OrdersAre == \A q : q \in Orders <=> q \in Seq(Values) /\ IsInjective(q)
<1>1. ASSUME NEW q \in Orders PROVE q \in Seq(Values) /\ IsInjective(q)
  BY DEF Orders, SeqOf
<1>2. ASSUME NEW q \in Seq(Values), IsInjective(q) PROVE q \in Orders
  <2>1. PICK n \in Nat : n = Len(q)
    OBVIOUS
  <2>2. q \in [1 .. n -> Values]
    BY <2>1
  <2>3. q \in Injection(1 .. n, Values)
    BY <1>2, <2>2, Zenon DEF Injection
  <2>4. Cardinality(1 .. n) <= Cardinality(Values) /\ Cardinality(Values) \in Nat
    BY <2>3, FS_Injection, FS_CardinalityType, ValueAssumption, Zenon
  <2>5. Cardinality(1 .. n) = n
    BY FS_Interval
  <2>6. n \in 0 .. Cardinality(Values)
    BY <2>4, <2>5
  <2>. QED
    BY <1>2, <2>2, <2>6, Zenon DEF Orders, SeqOf
<1>. QED
  BY <1>1, <1>2

LEMMA NoValues == <<>> \in Orders
<1>1. <<>> \in Seq(Values) /\ DOMAIN <<>> = {}
  OBVIOUS
<1>. QED
  BY <1>1, OrdersAre DEF IsInjective

\* RegDeleteValue takes the value out of the key and leaves the others.
LEMMA RemoveFirstRemoves ==
  ASSUME NEW q \in Orders, NEW v
  PROVE  /\ RemoveFirst(q, v) \in Orders
         /\ v \notin ToSet(RemoveFirst(q, v))
<1>0. q \in Seq(Values) /\ IsInjective(q)
  BY OrdersAre
<1>1. CASE \E i \in 1 .. Len(q) : q[i] = v
  <2>1. PICK i \in 1 .. Len(q) : q[i] = v
    BY <1>1
  <2>2. {k \in 1 .. Len(q) : q[k] = v} = {i}
    BY <1>0, <2>1 DEF IsInjective
  <2>3. \A x \in Int : Min({x}) = x
    BY DEF Min
  <2>4. RemoveFirst(q, v) = RemoveAt(q, i)
    BY <1>1, <2>2, <2>3 DEF RemoveFirst, SelectInSeq
  <2>5. PICK n \in Nat : n = Len(q)
    BY <1>0
  <2>6. q \in [1 .. n -> Values] /\ i \in 1 .. n
    BY <1>0, <2>5
  <2>7. PICK front : front = SubSeq(q, 1, i - 1)
    OBVIOUS
  <2>8. front \in Seq(Values) /\ Len(front) = i - 1 /\ \A k \in 1 .. i - 1 : front[k] = q[k]
    <3>1. \A k \in 1 .. i - 1 : q[k] \in Values
      BY <2>6
    <3>2. 1 \in Int /\ i - 1 \in Int
      BY <2>6
    <3>3. /\ SubSeq(q, 1, i - 1) \in Seq(Values)
          /\ Len(SubSeq(q, 1, i - 1)) = IF 1 <= i - 1 THEN i - 1 - 1 + 1 ELSE 0
          /\ \A k \in 1 .. i - 1 - 1 + 1 : SubSeq(q, 1, i - 1)[k] = q[1 + k - 1]
      BY <3>1, <3>2, SubSeqProperties
    <3>. QED
      BY <2>6, <2>7, <3>3
  <2>9. PICK back : back = SubSeq(q, i + 1, n)
    OBVIOUS
  <2>10. back \in Seq(Values) /\ Len(back) = n - i /\ \A k \in 1 .. n - i : back[k] = q[i + k]
    <3>1. \A k \in i + 1 .. n : q[k] \in Values
      BY <2>6
    <3>2. i + 1 \in Int /\ n \in Int
      BY <2>6
    <3>3. /\ SubSeq(q, i + 1, n) \in Seq(Values)
          /\ Len(SubSeq(q, i + 1, n)) = IF i + 1 <= n THEN n - (i + 1) + 1 ELSE 0
          /\ \A k \in 1 .. n - (i + 1) + 1 : SubSeq(q, i + 1, n)[k] = q[i + 1 + k - 1]
      BY <3>1, <3>2, SubSeqProperties
    <3>. QED
      BY <2>6, <2>9, <3>3
  <2>11. PICK r : r = front \o back
    OBVIOUS
  <2>12. /\ r \in Seq(Values) /\ Len(r) = Len(front) + Len(back)
         /\ \A k \in 1 .. Len(front) + Len(back) :
               r[k] = IF k <= Len(front) THEN front[k] ELSE back[k - Len(front)]
    BY <2>8, <2>10, <2>11, ConcatProperties, Zenon
  <2>13. \A k \in 1 .. n - 1 : r[k] = IF k < i THEN q[k] ELSE q[k + 1]
    BY <2>6, <2>8, <2>10, <2>12
  <2>14. DOMAIN r = 1 .. n - 1 /\ DOMAIN q = 1 .. n /\ r \in Seq(Values)
    BY <2>6, <2>8, <2>10, <2>12
  <2>15. \A a, b \in 1 .. n : q[a] = q[b] => a = b
    BY <1>0, <2>14 DEF IsInjective
  <2>16. \A a, b \in 1 .. n - 1 : r[a] = r[b] => a = b
    <3> SUFFICES ASSUME NEW a \in 1 .. n - 1, NEW b \in 1 .. n - 1, r[a] = r[b] PROVE a = b
      OBVIOUS
    <3>1. PICK c \in 1 .. n : c = (IF a < i THEN a ELSE a + 1) /\ r[a] = q[c]
      BY <2>13
    <3>2. PICK d \in 1 .. n : d = (IF b < i THEN b ELSE b + 1) /\ r[b] = q[d]
      BY <2>13
    <3>3. c = d
      BY <2>15, <3>1, <3>2
    <3>. QED
      BY <2>6, <3>1, <3>2, <3>3
  <2>17. \A a \in 1 .. n - 1 : r[a] # v
    <3> SUFFICES ASSUME NEW a \in 1 .. n - 1 PROVE r[a] # v
      OBVIOUS
    <3>1. PICK c \in 1 .. n : c = (IF a < i THEN a ELSE a + 1) /\ r[a] = q[c]
      BY <2>13
    <3>2. c # i
      BY <2>6, <3>1
    <3>. QED
      BY <2>1, <2>6, <2>15, <3>1, <3>2
  <2>18. r \in Orders
    BY <2>14, <2>16, OrdersAre DEF IsInjective
  <2>19. RemoveFirst(q, v) = r
    BY <2>4, <2>5, <2>7, <2>9, <2>11 DEF RemoveAt
  <2>. QED
    BY <2>14, <2>17, <2>18, <2>19 DEF ToSet
<1>2. CASE ~\E i \in 1 .. Len(q) : q[i] = v
  BY <1>0, <1>2 DEF RemoveFirst, ToSet
<1>. QED
  BY <1>1, <1>2

LEMMA AppendOrder ==
  ASSUME NEW q \in Orders, NEW v \in Values, v \notin ToSet(q)
  PROVE  /\ Append(q, v) \in Orders
         /\ \A x \in ToSet(Append(q, v)) : x \in ToSet(q) \/ x = v
<1>1. q \in Seq(Values) /\ IsInjective(q)
  BY OrdersAre
<1>2. PICK r : r = Append(q, v)
  OBVIOUS
<1>3. r \in Seq(Values) /\ Len(r) = Len(q) + 1 /\ r[Len(q) + 1] = v
      /\ \A i \in 1 .. Len(q) : r[i] = q[i]
  BY <1>1, <1>2
<1>4. \A i \in 1 .. Len(q) : q[i] # v
  BY <1>1 DEF ToSet
<1>5. IsInjective(r)
  BY <1>1, <1>3, <1>4 DEF IsInjective
<1>6. \A x \in ToSet(r) : x \in ToSet(q) \/ x = v
  BY <1>1, <1>3 DEF ToSet
<1>. QED
  BY <1>2, <1>3, <1>5, <1>6, OrdersAre

\* A value the delete handler is done with is not in a key, or was put back.
Gone(h) == h \in writable /\ bootName \in ToSet(registry[h]) => <<h, bootName>> \in added

\* The delete handler: what its first round, and its second, have seen to.
DeleteInv ==
  /\ registry \in [HiveSet -> Orders] /\ granted \subseteq writable /\ writable \subseteq HiveSet /\ round \in 0 .. 2
  /\ modal = "startbox" =>
       /\ round \in {1, 2} /\ Gone("HKCU")
       /\ round = 2 => Gone("HKLM")

LEMMA HivesAre == Hives[1] = "HKCU" /\ Hives[2] = "HKLM" /\ HiveSet = {"HKCU", "HKLM"}
BY DEF Hives, HiveSet

LEMMA DeleteInit == Init => DeleteInv
<1> SUFFICES ASSUME Init PROVE DeleteInv
  OBVIOUS
<1>1. registry = Unread /\ granted = {} /\ writable = {} /\ round = 0 /\ modal = "main"
  BY DEF Init, AppInit, StartInit
<1>2. <<>> \in Orders
  BY NoValues
<1>. QED
  BY <1>1, <1>2 DEF DeleteInv, Unread

\* A round of the delete handler.
LEMMA DeleteRound ==
  ASSUME registry \in [HiveSet -> Orders], NEW h \in HiveSet, DeleteFrom(h),
         UNCHANGED <<writable, bootName>>
  PROVE  /\ registry' \in [HiveSet -> Orders] /\ Gone(h)'
         /\ \A g \in HiveSet \ {h} : registry'[g] = registry[g]
<1>1. CASE h \in writable
  <2>1. registry' = [registry EXCEPT ![h] = RemoveFirst(registry[h], bootName)]
    BY <1>1 DEF DeleteFrom
  <2>2. PICK q : q = RemoveFirst(registry[h], bootName)
    OBVIOUS
  <2>3. q \in Orders /\ bootName \notin ToSet(q)
    BY <2>2, RemoveFirstRemoves
  <2>4. registry' \in [HiveSet -> Orders] /\ registry'[h] = q
        /\ \A g \in HiveSet \ {h} : registry'[g] = registry[g]
    BY <2>1, <2>2, <2>3
  <2>. QED
    BY <2>3, <2>4 DEF Gone
<1>2. CASE h \notin writable
  BY <1>2 DEF DeleteFrom, Gone
<1>. QED
  BY <1>1, <1>2

LEMMA DeleteStepInv ==
  ASSUME DeleteInv, StartStep
  PROVE  DeleteInv'
<1> USE DEF DeleteInv
<1>1. ASSUME NEW h \in HiveSet, NEW v \in Values, OthersAdd(h, v) PROVE DeleteInv'
  <2>1. UNCHANGED <<modal, granted, writable, bootName, round>> /\ added = {} /\ added' = {<<h, v>>}
        /\ v \notin ToSet(registry[h]) /\ registry' = [registry EXCEPT ![h] = Append(registry[h], v)]
    BY <1>1 DEF OthersAdd, shell
  <2>2. PICK q : q = Append(registry[h], v)
    OBVIOUS
  <2>3. q \in Orders /\ \A x \in ToSet(q) : x \in ToSet(registry[h]) \/ x = v
    BY <2>1, <2>2, AppendOrder
  <2>4. registry' \in [HiveSet -> Orders] /\ registry'[h] = q
        /\ \A g \in HiveSet \ {h} : registry'[g] = registry[g]
    BY <2>1, <2>2, <2>3
  <2>5. \A g \in HiveSet : Gone(g) => Gone(g)'
    BY <2>1, <2>3, <2>4 DEF Gone
  <2>. QED
    BY <2>1, <2>4, <2>5, HivesAre
<1>2. CASE OpenStartUp \/ CloseStartUp
  <2>1. Unread \in [HiveSet -> Orders]
    BY NoValues DEF Unread
  <2>. QED
    BY <1>2, <2>1 DEF OpenStartUp, CloseStartUp, MoveTo
<1>3. CASE DismissStartMenu
  BY <1>3 DEF DismissStartMenu, MoveTo, startVars
<1>4. ASSUME NEW r, RightClickValue(r) PROVE DeleteInv'
  BY <1>4 DEF RightClickValue
<1>5. CASE ClickDelete
  <2>1. DeleteFrom("HKCU") /\ round' = 1 /\ UNCHANGED <<granted, writable, bootName>>
    BY <1>5, HivesAre DEF ClickDelete, Delete
  <2>. QED
    BY <2>1, DeleteRound, HivesAre
<1>6. CASE AnswerStartBox
  <2>1. UNCHANGED <<granted, writable, bootName, added>> /\ modal = "startbox"
    BY <1>6 DEF AnswerStartBox
  <2>2. CASE round = 1
    <3>1. DeleteFrom("HKLM") /\ round' = 2
      BY <1>6, <2>2, HivesAre DEF AnswerStartBox, Delete
    <3>2. registry' \in [HiveSet -> Orders] /\ Gone("HKLM")' /\ registry'["HKCU"] = registry["HKCU"]
      BY <2>1, <3>1, DeleteRound, HivesAre
    <3>3. Gone("HKCU")'
      BY <2>1, <3>2 DEF Gone
    <3>. QED
      BY <2>1, <3>1, <3>2, <3>3
  <2>3. CASE round # 1
    BY <1>6, <2>1, <2>3 DEF AnswerStartBox, MoveTo
  <2>. QED
    BY <2>2, <2>3
<1>. QED
  BY <1>1, <1>2, <1>3, <1>4, <1>5, <1>6 DEF StartStep

LEMMA DeleteUnmoved ==
  ASSUME DeleteInv, UNCHANGED startVars, Still(StartDialogs)
  PROVE  DeleteInv'
<1>1. modal' = "startbox" => modal = "startbox"
  BY DEF Still, StartDialogs
<1>. QED
  BY <1>1 DEF DeleteInv, Gone, startVars

LEMMA DeleteHolds == Spec => []DeleteInv
<1>1. ASSUME DeleteInv, Next PROVE DeleteInv'
  BY <1>1, OneTool, DeleteStepInv, DeleteUnmoved
<1>2. DeleteInv /\ UNCHANGED vars => DeleteInv'
  BY NoStep, DeleteUnmoved
<1>. QED
  BY DeleteInit, <1>1, <1>2, PTL DEF Spec

\* When the delete handler returns the value is in neither key that could be written,
\* unless another program has put it back, although the handler's box lets others run
\* and its refill changes the globals it works with (CStartUpDialog.cpp, 160 to 180), for
\* any values and any order of them.
THEOREM DeletesFromBoth == Spec => DeleteReachesBoth
<1>1. DeleteInv /\ [Next]_vars
        => [modal = "startbox" /\ modal' = "startup" =>
              \A h \in writable : bootName \in ToSet(registry'[h]) => <<h, bootName>> \in added]_<<shell, startVars>>
  <2> SUFFICES ASSUME DeleteInv, Next, modal = "startbox", modal' = "startup",
                      NEW h \in writable, bootName \in ToSet(registry'[h])
               PROVE  <<h, bootName>> \in added
    BY DEF vars
  <2>1. StartStep
    BY OneTool DEF Still, StartDialogs
  <2>2. AnswerStartBox
    BY <2>1 DEF StartStep, OthersAdd, OpenStartUp, CloseStartUp, DismissStartMenu, ClickDelete, RightClickValue, shell
  <2>3. round = 2 /\ registry' = registry
    BY <2>2 DEF AnswerStartBox, Delete, MoveTo, DeleteInv
  <2>. QED
    BY <2>3, HivesAre DEF DeleteInv, Gone
<1>. QED
  BY DeleteHolds, <1>1, PTL DEF Spec, DeleteReachesBoth

-----------------------------------------------------------------------------
(* The start-up entries: the list.                                          *)

StartData == Values \cup {Rubbish}
StartRow == [name : Values, data : StartData, hive : HiveSet \cup {"none"}]
StartEntry == [name : Values, key : {1, 2}, index : Nat]
Filling == [data : StartData, rows : Seq(StartRow)]

\* A row for a value of a key.
Shows(row, v) == row.name = v.name /\ row.hive = Hives[v.key] /\ (v.name \in Fits => row.data = v.name)

\* All the columns of a row are set, if there is such a row.
LEMMA ColumnsSet ==
  ASSUME NEW rows \in Seq(StartRow), NEW i, NEW new \in StartRow
  PROVE  SetItemText(SetItemText(SetItemText(rows, i, "name", new.name), i, "data", new.data),
                     i, "hive", new.hive)
           = IF HasRow(rows, i) THEN [rows EXCEPT ![i + 1] = new] ELSE rows
<1>1. CASE HasRow(rows, i)
  <2>1. i \in Nat /\ i + 1 \in DOMAIN rows
    BY <1>1 DEF HasRow
  <2>2. PICK r0 \in StartRow : r0 = rows[i + 1]
    BY <2>1
  <2> new.name \in Values /\ new.data \in StartData /\ new.hive \in HiveSet \cup {"none"}
    BY DEF StartRow
  <2>3. PICK r1 : r1 = [r0 EXCEPT !["name"] = new.name]
    OBVIOUS
  <2>3a. r1 \in StartRow /\ r1.name = new.name
    BY <2>3 DEF StartRow
  <2>4. PICK r2 : r2 = [r1 EXCEPT !["data"] = new.data]
    OBVIOUS
  <2>4a. r2 \in StartRow /\ r2.name = new.name /\ r2.data = new.data
    BY <2>3a, <2>4 DEF StartRow
  <2>5. PICK r3 \in StartRow : r3 = [r2 EXCEPT !["hive"] = new.hive] /\ r3.name = new.name
                               /\ r3.data = new.data /\ r3.hive = new.hive
    BY <2>4a DEF StartRow
  <2>6. r3 = new
    BY <2>5 DEF StartRow
  <2>7. PICK rows1 : rows1 = [rows EXCEPT ![i + 1] = r1]
    OBVIOUS
  <2>8. rows1 \in Seq(StartRow) /\ Len(rows1) = Len(rows) /\ rows1[i + 1] = r1
    BY <2>1, <2>3a, <2>7, ReplaceRow
  <2>9. SetItemText(rows, i, "name", new.name) = rows1
    BY <1>1, <2>2, <2>3, <2>3a, <2>7 DEF SetItemText
  <2>10. PICK rows2 : rows2 = [rows1 EXCEPT ![i + 1] = r2]
    OBVIOUS
  <2>11. rows2 \in Seq(StartRow) /\ Len(rows2) = Len(rows) /\ rows2[i + 1] = r2
    BY <2>1, <2>4a, <2>8, <2>10, ReplaceRow
  <2>12. SetItemText(rows1, i, "data", new.data) = rows2
    BY <1>1, <2>4, <2>8, <2>10 DEF SetItemText, HasRow
  <2>13. SetItemText(rows2, i, "hive", new.hive) = [rows2 EXCEPT ![i + 1] = new]
    BY <1>1, <2>5, <2>6, <2>11 DEF SetItemText, HasRow
  <2>14. [rows2 EXCEPT ![i + 1] = new] = [rows EXCEPT ![i + 1] = new]
    BY <2>7, <2>10
  <2>. QED
    BY <1>1, <2>9, <2>12, <2>13, <2>14
<1>2. CASE ~HasRow(rows, i)
  BY <1>2 DEF SetItemText
<1>. QED
  BY <1>1, <1>2

\* A value is added in the row of its key's number, if the list is long enough.
LEMMA ValueAdded ==
  ASSUME NEW list \in Filling, NEW v \in StartEntry
  PROVE  /\ AddValue(list, v) \in Filling
         /\ Len(AddValue(list, v).rows) = Len(list.rows) + 1
         /\ v.key <= Len(list.rows) + 1 =>
              \A j \in 1 .. Len(list.rows) + 1 :
                IF j = v.key THEN Shows(AddValue(list, v).rows[j], v)
                ELSE AddValue(list, v).rows[j] = list.rows[IF j < v.key THEN j ELSE j - 1]
<1>1. list.data \in StartData /\ list.rows \in Seq(StartRow) /\ Len(list.rows) \in Nat
  BY DEF Filling
<1>2. v.name \in Values /\ v.key \in {1, 2} /\ Hives[v.key] \in HiveSet
  BY HivesAre DEF StartEntry
<1>3. PICK data \in StartData : data = IF v.name \in Fits THEN v.name ELSE list.data
  BY <1>1, <1>2 DEF StartData
<1>4. PICK new \in StartRow : new.name = v.name /\ new.data = data /\ new.hive = Hives[v.key]
  <2>1. [name |-> v.name, data |-> data, hive |-> Hives[v.key]] \in StartRow
    BY <1>2 DEF StartRow
  <2>. QED
    BY <2>1
<1>5. PICK grown : grown = InsertItem(list.rows, v.key - 1, BlankRow)
  OBVIOUS
<1>6. BlankRow \in StartRow /\ v.key - 1 \in Nat
  BY <1>2, ValueAssumption DEF BlankRow, StartRow, StartData
<1>7. grown \in Seq(StartRow) /\ Len(grown) = Len(list.rows) + 1
  BY <1>1, <1>5, <1>6, InsertItemGrows
<1>8. PICK rows : rows = IF HasRow(grown, v.key - 1) THEN [grown EXCEPT ![v.key - 1 + 1] = new] ELSE grown
  OBVIOUS
<1>9. AddValue(list, v) = [data |-> data, rows |-> rows]
  <2>1. SetItemText(SetItemText(SetItemText(grown, v.key - 1, "name", new.name),
                      v.key - 1, "data", new.data), v.key - 1, "hive", new.hive) = rows
    BY <1>7, <1>8, ColumnsSet
  <2>. QED
    BY <1>3, <1>4, <1>5, <2>1 DEF AddValue, TextRow
<1>10. rows \in Seq(StartRow) /\ Len(rows) = Len(list.rows) + 1
  BY <1>7, <1>8, ReplaceRow
<1>11. [data |-> data, rows |-> rows] \in Filling
  BY <1>10 DEF Filling
<1>12. ASSUME v.key <= Len(list.rows) + 1, NEW j \in 1 .. Len(list.rows) + 1
       PROVE  IF j = v.key THEN Shows(rows[j], v)
              ELSE rows[j] = list.rows[IF j < v.key THEN j ELSE j - 1]
  <2>1. HasRow(grown, v.key - 1) /\ v.key - 1 + 1 = v.key
    <3>1. v.key \in Int /\ v.key >= 1 /\ Len(list.rows) \in Nat
      BY <1>1, <1>2
    <3>2. Len(grown) = Len(list.rows) + 1
      BY <1>7
    <3>3. v.key - 1 \in 0 .. Len(list.rows) /\ v.key - 1 + 1 = v.key
      BY <1>12, <3>1
    <3>4. Len(grown) - 1 = Len(list.rows)
      BY <3>1, <3>2
    <3>. QED
      BY <3>3, <3>4 DEF HasRow
  <2>2. rows = [grown EXCEPT ![v.key] = new] /\ j \in DOMAIN grown
    <3>1. j \in DOMAIN grown
      BY <1>7
    <3>2. rows = [grown EXCEPT ![v.key - 1 + 1] = new]
      BY <1>8, <2>1, Zenon
    <3>. QED
      BY <2>1, <3>1, <3>2, Zenon
  <2>3. CASE j = v.key
    <3>1. rows[j] = new
      BY <2>2, <2>3
    <3>. QED
      BY <1>3, <1>4, <2>3, <3>1 DEF Shows
  <2>4. CASE j # v.key
    <3>1. rows[j] = grown[j]
      BY <2>2, <2>4
    <3>2. grown[j] = list.rows[IF j < v.key THEN j ELSE j - 1]
      BY <1>1, <1>2, <1>5, <1>12, <2>4 DEF InsertItem
    <3>. QED
      BY <2>4, <3>1, <3>2
  <2>. QED
    BY <2>3, <2>4
<1>. QED
  BY <1>9, <1>10, <1>11, <1>12

\* How many values of a key are read.
Size(reg, open, h) == IF h \in open THEN Len(reg[h]) ELSE 0

Entry(reg, k, i) == [name |-> reg[Hives[k]][i], key |-> k, index |-> i]

\* What is read of a key.
LEMMA ValuesRead ==
  ASSUME NEW reg \in [HiveSet -> Orders], NEW open, NEW k \in {1, 2}
  PROVE  /\ ValuesOf(reg, open, k) \in Seq(StartEntry)
         /\ Len(ValuesOf(reg, open, k)) = Size(reg, open, Hives[k])
         /\ \A i \in 1 .. Size(reg, open, Hives[k]) : ValuesOf(reg, open, k)[i] = Entry(reg, k, i)
<1>1. PICK h \in HiveSet : h = Hives[k]
  BY HivesAre
<1>2. PICK q \in Seq(Values) : q = reg[h]
  BY OrdersAre
<1>3. CASE h \in open
  <2>1. ValuesOf(reg, open, k) = [i \in 1 .. Len(q) |-> [name |-> q[i], key |-> k, index |-> i]]
    BY <1>1, <1>2, <1>3 DEF ValuesOf
  <2>2. \A i \in 1 .. Len(q) : [name |-> q[i], key |-> k, index |-> i] \in StartEntry
    BY DEF StartEntry
  <2>3. Len(q) \in Nat /\ Size(reg, open, Hives[k]) = Len(q)
    BY <1>1, <1>2, <1>3 DEF Size
  <2>. QED
    BY <1>1, <1>2, <2>1, <2>2, <2>3 DEF Entry
<1>4. CASE h \notin open
  BY <1>1, <1>4 DEF ValuesOf, Size
<1>. QED
  BY <1>3, <1>4

LEMMA AllRead ==
  ASSUME NEW reg \in [HiveSet -> Orders], NEW open,
         NEW a, a = Size(reg, open, "HKCU"), NEW b, b = Size(reg, open, "HKLM")
  PROVE  /\ AllValues(reg, open) \in Seq(StartEntry) /\ Len(AllValues(reg, open)) = a + b
         /\ a \in Nat /\ b \in Nat
         /\ \A i \in 1 .. a + b : AllValues(reg, open)[i] = IF i <= a THEN Entry(reg, 1, i)
                                                            ELSE Entry(reg, 2, i - a)
<1>1. PICK s : s = ValuesOf(reg, open, 1)
  OBVIOUS
<1>2. PICK t : t = ValuesOf(reg, open, 2)
  OBVIOUS
<1>3. s \in Seq(StartEntry) /\ Len(s) = a /\ \A i \in 1 .. a : s[i] = Entry(reg, 1, i)
  BY <1>1, ValuesRead, HivesAre
<1>4. t \in Seq(StartEntry) /\ Len(t) = b /\ \A i \in 1 .. b : t[i] = Entry(reg, 2, i)
  BY <1>2, ValuesRead, HivesAre
<1>5. a \in Nat /\ b \in Nat
  BY <1>3, <1>4
<1>6. AllValues(reg, open) = s \o t
  BY <1>1, <1>2 DEF AllValues
<1>7. /\ s \o t \in Seq(StartEntry) /\ Len(s \o t) = Len(s) + Len(t)
      /\ \A i \in 1 .. Len(s) + Len(t) : (s \o t)[i] = IF i <= Len(s) THEN s[i] ELSE t[i - Len(s)]
  BY <1>3, <1>4, ConcatProperties, Zenon
<1>. QED
  BY <1>3, <1>4, <1>5, <1>6, <1>7


\* The list is filled a value at a time.
LEMMA FilledBySteps ==
  ASSUME NEW reg \in [HiveSet -> Orders], NEW open
  PROVE  \E list :
           /\ \A k \in 0 .. Len(AllValues(reg, open)) : list[k] \in Filling
           /\ list[0] = [rows |-> <<>>, data |-> Rubbish]
           /\ \A k \in 1 .. Len(AllValues(reg, open)) :
                list[k] = AddValue(list[k - 1], AllValues(reg, open)[k])
           /\ Filled(reg, open) = list[Len(AllValues(reg, open))].rows
<1> DEFINE read == AllValues(reg, open)
           n == Len(read)
           base == [rows |-> <<>>, data |-> Rubbish]
           step == [k \in 1 .. n |-> [t \in Filling |-> AddValue(t, read[k])]]
           list == CHOOSE g : g = [i \in 0 .. n |-> IF i = 0 THEN base ELSE AddValue(g[i - 1], read[i])]
<1>1. Filled(reg, open) = list[n].rows
  BY Zenon DEF Filled
<1>2. read \in Seq(StartEntry) /\ n \in Nat
  BY AllRead
<1>3. base \in Filling
  BY DEF Filling, StartData
<1>4. \A k \in 1 .. n : read[k] \in StartEntry
  <2> HIDE DEF read
  <2>. QED
    BY <1>2
<1>5. \A k \in 1 .. n, t \in Filling : AddValue(t, read[k]) \in Filling
  <2> HIDE DEF read, n
  <2>. QED
    BY <1>4, ValueAdded
<1>6. \A k \in 1 .. n, t \in Filling : step[k][t] = AddValue(t, read[k])
  <2> SUFFICES ASSUME NEW k \in 1 .. n, NEW t \in Filling PROVE step[k][t] = AddValue(t, read[k])
    OBVIOUS
  <2> HIDE DEF read, n
  <2>1. step[k] = [u \in Filling |-> AddValue(u, read[k])]
    BY Zenon
  <2> HIDE DEF step
  <2>. QED
    BY <2>1, Zenon
<1>7. \E g : g = [i \in 0 .. n |-> IF i = 0 THEN base ELSE AddValue(g[i - 1], read[i])]
  <2> HIDE DEF n, base, step, read
  <2>1. IsStep(Filling, base, n, step)
    BY <1>2, <1>3, <1>5, <1>6 DEF IsStep
  <2>2. PICK g : Follows(g, Filling, base, n, step)
    BY <2>1, Recursion
  <2>3. \A k \in 1 .. n : g[k - 1] \in Filling
    BY <1>2, <2>2 DEF Follows
  <2>4. \A k \in 1 .. n : g[k] = AddValue(g[k - 1], read[k])
    BY <1>6, <2>2, <2>3 DEF Follows
  <2>5. \A k \in 0 .. n : g[k] = IF k = 0 THEN base ELSE AddValue(g[k - 1], read[k])
    BY <2>2, <2>4 DEF Follows
  <2>6. DOMAIN g = 0 .. n /\ g = [k \in DOMAIN g |-> g[k]]
    BY <2>2 DEF Follows
  <2>. QED
    BY <2>5, <2>6
<1>8. list = [i \in 0 .. n |-> IF i = 0 THEN base ELSE AddValue(list[i - 1], read[i])]
  <2> HIDE DEF n, base, read
  <2>. QED
    BY <1>7
<1>9. list[0] = base /\ \A k \in 1 .. n : list[k] = AddValue(list[k - 1], read[k])
  <2> HIDE DEF n, base, list, read
  <2>. QED
    BY <1>2, <1>8
<1> HIDE DEF list, read
<1> DEFINE P == {k \in 0 .. n : list[k] \in Filling}
<1>10. 0 \in P
  BY <1>2, <1>3, <1>9
<1>11. ASSUME NEW k \in 1 .. n, k - 1 \in P PROVE k \in P
  BY <1>5, <1>9, <1>11
<1>12. \A k \in 0 .. n : k \in P
  <2> HIDE DEF P
  <2>1. \A k \in 1 .. n : k - 1 \in P => k \in P
    BY <1>11, Zenon
  <2> HIDE DEF n
  <2>. QED
    BY <1>2, <1>10, <2>1, Induction, Zenon
<1>13. \A k \in 0 .. n : list[k] \in Filling
  BY <1>12
<1> USE DEF read
<1>. QED
  BY <1>1, <1>9, <1>13

LEMMA FilledTyped ==
  ASSUME NEW reg \in [HiveSet -> Orders], NEW open
  PROVE  Filled(reg, open) \in Seq(StartRow)
<1>1. PICK list : /\ \A k \in 0 .. Len(AllValues(reg, open)) : list[k] \in Filling
                  /\ Filled(reg, open) = list[Len(AllValues(reg, open))].rows
  BY FilledBySteps
<1>2. Len(AllValues(reg, open)) \in Nat
  BY AllRead
<1>3. list[Len(AllValues(reg, open))] \in Filling
  BY <1>1, <1>2
<1>. QED
  BY <1>1, <1>3 DEF Filling

\* When i values have been read, a of them of the first key, row r shows the value with
\* this number: the last of the first key is on top, the others follow backwards.
At(a, i, r) ==
  IF i <= a THEN i + 1 - r
  ELSE IF r = 1 THEN a
  ELSE IF r <= i - a + 1 THEN i + 2 - r
  ELSE i + 1 - r

\* The list that is filled when the first key shows a value.
LEMMA FilledRows ==
  ASSUME NEW reg \in [HiveSet -> Orders], NEW open,
         NEW a, a = Size(reg, open, "HKCU"), a > 0, NEW b, b = Size(reg, open, "HKLM"),
         NEW read, read = AllValues(reg, open)
  PROVE  /\ Filled(reg, open) \in Seq(StartRow) /\ Len(Filled(reg, open)) = a + b
         /\ \A r \in 1 .. a + b : Shows(Filled(reg, open)[r], read[At(a, a + b, r)])
<1>1. PICK n : n = a + b
  OBVIOUS
<1>2. /\ read \in Seq(StartEntry) /\ Len(read) = n /\ a \in Nat /\ b \in Nat /\ n \in Nat
      /\ \A i \in 1 .. n : read[i] = IF i <= a THEN Entry(reg, 1, i) ELSE Entry(reg, 2, i - a)
  BY <1>1, AllRead
<1>3. PICK list : /\ \A k \in 0 .. n : list[k] \in Filling
                  /\ list[0] = [rows |-> <<>>, data |-> Rubbish]
                  /\ \A k \in 1 .. n : list[k] = AddValue(list[k - 1], read[k])
                  /\ Filled(reg, open) = list[n].rows
  BY <1>2, FilledBySteps
<1>4. \A i \in 1 .. n : read[i] \in StartEntry /\ read[i].key = IF i <= a THEN 1 ELSE 2
  BY <1>2 DEF Entry
<1> DEFINE Right(k) == /\ Len(list[k].rows) = k
                       /\ \A r \in 1 .. k : Shows(list[k].rows[r], read[At(a, k, r)])
           P == {k \in 0 .. n : Right(k)}
<1>5. 0 \in P
  BY <1>2, <1>3
<1>6. ASSUME NEW k \in 1 .. n, k - 1 \in P PROVE k \in P
  <2>1. PICK v \in StartEntry : v = read[k] /\ v.key = IF k <= a THEN 1 ELSE 2
    BY <1>4
  <2>2. PICK before \in Filling : before = list[k - 1]
    BY <1>2, <1>3
  <2>3. PICK rows : rows = list[k].rows
    OBVIOUS
  <2>4. Len(before.rows) = k - 1
        /\ \A r \in 1 .. k - 1 : Shows(before.rows[r], read[At(a, k - 1, r)])
    BY <1>6, <2>2
  <2>5. rows = AddValue(before, v).rows
    BY <1>3, <2>1, <2>2, <2>3
  <2>6. v.key <= k
    BY <1>2, <2>1
  <2>7. Len(rows) = k /\ \A j \in 1 .. k :
          IF j = v.key THEN Shows(rows[j], v)
          ELSE rows[j] = before.rows[IF j < v.key THEN j ELSE j - 1]
    BY <2>4, <2>5, <2>6, ValueAdded
  <2>8. ASSUME NEW r \in 1 .. k PROVE Shows(rows[r], read[At(a, k, r)])
    <3>1. CASE r = v.key
      <4>1. At(a, k, r) = k
        BY <1>2, <2>1, <3>1 DEF At
      <4>. QED
        BY <2>1, <2>7, <3>1, <4>1
    <3>2. CASE r # v.key
      <4>1. PICK s \in 1 .. k - 1 : s = IF r < v.key THEN r ELSE r - 1
        BY <1>2, <2>1, <2>6, <3>2
      <4>2. rows[r] = before.rows[s]
        BY <2>7, <3>2, <4>1
      <4>3. At(a, k - 1, s) = At(a, k, r)
        BY <1>2, <2>1, <3>2, <4>1 DEF At
      <4>. QED
        BY <2>4, <4>2, <4>3
    <3>. QED
      BY <3>1, <3>2
  <2>. QED
    BY <2>3, <2>7, <2>8
<1>7. \A k \in 0 .. n : k \in P
  <2> HIDE DEF P
  <2>1. \A k \in 1 .. n : k - 1 \in P => k \in P
    BY <1>6, Zenon
  <2>. QED
    BY <1>2, <1>5, <2>1, Induction, Zenon
<1>8. Right(n)
  BY <1>2, <1>7
<1>. QED
  BY <1>1, <1>3, <1>8, FilledTyped

\* Every number has its row.
LEMMA AtInverse ==
  ASSUME NEW a \in Nat, NEW n \in Nat, a > 0, a <= n
  PROVE  /\ \A r \in 1 .. n : At(a, n, r) \in 1 .. n
         /\ \A r, s \in 1 .. n : At(a, n, r) = At(a, n, s) => r = s
         /\ \A i \in 1 .. n : \E r \in 1 .. n : At(a, n, r) = i
<1>1. \A r \in 1 .. n : At(a, n, r) \in 1 .. n
  BY DEF At
<1>2. \A r, s \in 1 .. n : At(a, n, r) = At(a, n, s) => r = s
  BY DEF At
<1>3. ASSUME NEW i \in 1 .. n PROVE \E r \in 1 .. n : At(a, n, r) = i
  <2>1. CASE a = n
    <3>1. n + 1 - i \in 1 .. n /\ At(a, n, n + 1 - i) = i
      BY <2>1 DEF At
    <3>. QED
      BY <3>1
  <2>2. CASE a # n /\ i = a
    <3>1. 1 \in 1 .. n /\ At(a, n, 1) = i
      BY <2>2 DEF At
    <3>. QED
      BY <3>1
  <2>3. CASE a # n /\ i > a
    <3>1. n + 2 - i \in 1 .. n /\ At(a, n, n + 2 - i) = i
      BY <2>3 DEF At
    <3>. QED
      BY <3>1
  <2>4. CASE a # n /\ i < a
    <3>1. n + 1 - i \in 1 .. n /\ At(a, n, n + 1 - i) = i
      BY <2>4 DEF At
    <3>. QED
      BY <3>1
  <2>. QED
    BY <2>1, <2>2, <2>3, <2>4
<1>. QED
  BY <1>1, <1>2, <1>3


\* While the dialog is open the list is what was filled from the registry as seen then.
StartInv ==
  /\ DeleteInv
  /\ rootKey \in HiveSet \cup {"none"} /\ bootName \in Values /\ startRows \in Seq(StartRow)
  /\ modal \in StartDialogs => seen \in [HiveSet -> Orders] /\ startRows = Filled(seen, granted)

LEMMA StartInitInv == Init => StartInv
BY DeleteInit, ValueAssumption DEF Init, AppInit, StartInit, StartInv, StartDialogs

LEMMA StartStepInv ==
  ASSUME StartInv, StartStep
  PROVE  StartInv'
<1>0. DeleteInv'
  BY DeleteStepInv DEF StartInv
<1>1. registry \in [HiveSet -> Orders] /\ bootName \in Values /\ startRows \in Seq(StartRow)
      /\ rootKey \in HiveSet \cup {"none"}
      /\ (modal \in StartDialogs => seen \in [HiveSet -> Orders] /\ startRows = Filled(seen, granted))
  BY DEF StartInv, DeleteInv
<1> USE DEF StartDialogs
<1>2. ASSUME NEW h, NEW v, OthersAdd(h, v) PROVE StartInv'
  <2>1. UNCHANGED <<modal, granted, rootKey, startRows, bootName, seen>>
    BY <1>2 DEF OthersAdd, shell
  <2>. QED
    BY <1>0, <1>1, <2>1 DEF StartInv
<1>3. CASE OpenStartUp
  <2>1. PICK reg \in [HiveSet -> Orders] : reg = registry'
    BY <1>3 DEF OpenStartUp
  <2>2. PICK open : open = granted'
    OBVIOUS
  <2>3. startRows' = Filled(reg, open) /\ seen' = reg /\ rootKey' = "HKLM" /\ bootName' = bootName
    BY <1>3, <2>1, <2>2 DEF OpenStartUp
  <2>4. Filled(reg, open) \in Seq(StartRow)
    BY <2>1, FilledTyped
  <2>5. (seen \in [HiveSet -> Orders] /\ startRows = Filled(seen, granted))'
    BY <2>1, <2>2, <2>3
  <2>. QED
    BY <1>0, <1>1, <2>3, <2>4, <2>5, HivesAre DEF StartInv
<1>4. CASE CloseStartUp
  BY <1>0, <1>1, <1>4 DEF CloseStartUp, MoveTo, StartInv
<1>5. CASE DismissStartMenu
  <2>1. UNCHANGED startVars /\ modal = "startmenu"
    BY <1>5 DEF DismissStartMenu
  <2>. QED
    BY <1>0, <1>1, <2>1 DEF StartInv, startVars
<1>6. ASSUME NEW r, RightClickValue(r) PROVE StartInv'
  <2>1. UNCHANGED <<granted, rootKey, startRows, seen>> /\ modal = "startup"
        /\ bootName' = GetItemText(startRows, r, "name", NoName)
    BY <1>6 DEF RightClickValue
  <2>2. bootName' \in Values
    <3>1. \A w \in StartRow : w.name \in Values
      BY DEF StartRow
    <3>2. HasRow(startRows, r) => startRows[r + 1] \in StartRow
      BY <1>1 DEF HasRow
    <3>. QED
      BY <2>1, <3>1, <3>2, ValueAssumption DEF GetItemText
  <2>. QED
    BY <1>0, <1>1, <2>1, <2>2 DEF StartInv
<1>7. CASE ClickDelete
  <2>1. UNCHANGED <<granted, startRows, bootName, seen>> /\ modal = "startmenu" /\ rootKey' = "HKCU"
    BY <1>7, HivesAre DEF ClickDelete, Delete
  <2>. QED
    BY <1>0, <1>1, <2>1, HivesAre DEF StartInv
<1>8. CASE AnswerStartBox
  <2>1. UNCHANGED <<granted, bootName>> /\ startRows' = Filled(registry, granted) /\ seen' = registry
        /\ rootKey' = "HKLM"
    BY <1>8, HivesAre DEF AnswerStartBox, Delete
  <2>2. startRows' \in Seq(StartRow)
    BY <1>1, <2>1, FilledTyped
  <2>3. (seen \in [HiveSet -> Orders] /\ startRows = Filled(seen, granted))'
    BY <1>1, <2>1
  <2>. QED
    BY <1>0, <1>1, <2>1, <2>2, <2>3, HivesAre DEF StartInv
<1>. QED
  BY <1>2, <1>3, <1>4, <1>5, <1>6, <1>7, <1>8 DEF StartStep

LEMMA StartUnmoved ==
  ASSUME StartInv, UNCHANGED startVars, Still(StartDialogs)
  PROVE  StartInv'
<1>1. modal' \in StartDialogs => modal \in StartDialogs
  BY DEF Still
<1>2. DeleteInv'
  BY DeleteUnmoved DEF StartInv
<1>. QED
  BY <1>1, <1>2 DEF StartInv, startVars

LEMMA StartUpHolds == Spec => []StartInv
<1>1. ASSUME StartInv, Next PROVE StartInv'
  BY <1>1, OneTool, StartStepInv, StartUnmoved
<1>2. StartInv /\ UNCHANGED vars => StartInv'
  BY NoStep, StartUnmoved
<1>. QED
  BY StartInitInv, <1>1, <1>2, PTL DEF Spec

LEMMA StartTypeCorrect == StartInv => StartTypeOK
<1>1. \A w \in StartRow : w.name \in Values
  BY DEF StartRow
<1>2. StartInv => \A i \in DOMAIN startRows : startRows[i] \in StartRow
  BY DEF StartInv
<1>. QED
  BY <1>1, <1>2 DEF StartInv, DeleteInv, StartTypeOK

\* The list as it was filled has exactly one row for every value of the keys that opened.
LEMMA EachValueOnce ==
  ASSUME StartInv, modal \in StartDialogs, "HKCU" \in granted, seen["HKCU"] # <<>>
  PROVE  /\ \A h \in granted : \A v \in ToSet(seen[h]) : Cardinality(RowsOf(h, v)) = 1
         /\ Len(startRows) = Len(seen["HKCU"]) + (IF "HKLM" \in granted THEN Len(seen["HKLM"]) ELSE 0)
<1>1. PICK reg \in [HiveSet -> Orders] : reg = seen
  BY DEF StartInv
<1>2. PICK open : open = granted
  OBVIOUS
<1>3. PICK a : a = Size(reg, open, "HKCU")
  OBVIOUS
<1>4. PICK b : b = Size(reg, open, "HKLM")
  OBVIOUS
<1>5. PICK read : read = AllValues(reg, open)
  OBVIOUS
<1>6. startRows = Filled(reg, open) /\ "HKCU" \in open /\ open \subseteq HiveSet
      /\ reg["HKCU"] # <<>>
  BY <1>1, <1>2 DEF StartInv, DeleteInv
<1>7. \A h \in HiveSet : reg[h] \in Seq(Values) /\ IsInjective(reg[h])
  BY OrdersAre
<1>8. a \in Nat /\ b \in Nat /\ a > 0 /\ a = Len(reg["HKCU"])
  BY <1>3, <1>6, <1>7, <1>4, AllRead, HivesAre DEF Size
<1>9. /\ startRows \in Seq(StartRow) /\ Len(startRows) = a + b
      /\ \A r \in 1 .. a + b : Shows(startRows[r], read[At(a, a + b, r)])
  BY <1>3, <1>4, <1>5, <1>6, <1>8, FilledRows
<1>10. PICK n \in Nat : n = a + b /\ a <= n
  BY <1>8
<1>11. \A i \in 1 .. n : read[i] = IF i <= a THEN Entry(reg, 1, i) ELSE Entry(reg, 2, i - a)
  BY <1>3, <1>4, <1>5, <1>10, AllRead
<1>12. /\ \A r \in 1 .. n : At(a, n, r) \in 1 .. n
       /\ \A r, s \in 1 .. n : At(a, n, r) = At(a, n, s) => r = s
       /\ \A i \in 1 .. n : \E r \in 1 .. n : At(a, n, r) = i
  <2>1. a \in Nat /\ n \in Nat /\ a > 0 /\ a <= n
    BY <1>8, <1>10
  <2>. QED
    BY <2>1, AtInverse, Zenon
<1>13. ASSUME NEW h \in granted, NEW v \in ToSet(seen[h]) PROVE Cardinality(RowsOf(h, v)) = 1
  <2>1. h \in HiveSet /\ h \in open
    BY <1>2, <1>6
  <2>2. PICK k \in {1, 2} : h = Hives[k]
    BY <2>1, HivesAre
  <2>3. PICK i \in 1 .. Len(reg[h]) : reg[h][i] = v
    BY <1>1, <1>7, <2>1 DEF ToSet
  <2>4. PICK e \in 1 .. n : e = (IF k = 1 THEN i ELSE a + i) /\ read[e] = Entry(reg, k, i)
    <3>1. CASE k = 1
      <4>1. i \in 1 .. a
        BY <1>8, <2>2, <2>3, <3>1, HivesAre
      <4>2. i \in 1 .. n /\ i <= a
        BY <1>8, <1>10, <4>1
      <4>. QED
        BY <1>11, <3>1, <4>2
    <3>2. CASE k = 2
      <4>0. h = "HKLM"
        BY <2>2, <3>2, HivesAre
      <4>1. b = Len(reg[h])
        BY <1>4, <2>1, <4>0 DEF Size
      <4>2. a + i \in 1 .. n /\ ~(a + i <= a) /\ a + i - a = i
        <5>1. a \in Nat /\ b \in Nat /\ n = a + b
          BY <1>8, <1>10
        <5>2. i \in 1 .. b
          BY <2>3, <4>1
        <5>. QED
          BY <5>1, <5>2
      <4>3. read[a + i] = Entry(reg, 2, i)
        <5>1. PICK j \in 1 .. n : j = a + i
          BY <4>2
        <5>2. a \in Nat /\ i \in Nat /\ i > 0
          BY <1>8, <2>3
        <5>3. ~(j <= a) /\ j - a = i
          BY <5>1, <5>2
        <5>4. read[j] = Entry(reg, 2, j - a)
          BY <1>11, <5>3
        <5>. QED
          BY <5>1, <5>3, <5>4
      <4>. QED
        BY <3>2, <4>2, <4>3
    <3>. QED
      BY <3>1, <3>2
  <2>5. PICK r \in 1 .. n : At(a, n, r) = e
    BY <1>12
  <2>6. Shows(startRows[r], Entry(reg, k, i))
    BY <1>9, <1>10, <2>4, <2>5
  <2>7. r \in RowsOf(h, v)
    <3>1. r \in DOMAIN startRows
      BY <1>9, <1>10
    <3>. QED
      BY <2>2, <2>3, <2>6, <3>1 DEF RowsOf, Shows, Entry
  <2>8. ASSUME NEW s \in RowsOf(h, v) PROVE s = r
    <3>1. s \in 1 .. n /\ startRows[s].name = v /\ startRows[s].hive = h
      BY <1>9, <1>10 DEF RowsOf
    <3>2. PICK f \in 1 .. n : f = At(a, n, s)
      BY <1>12, <3>1
    <3>3. Shows(startRows[s], read[f])
      BY <1>9, <1>10, <3>1, <3>2
    <3>4. read[f].name = v /\ Hives[read[f].key] = h
      BY <3>1, <3>3 DEF Shows
    <3>5. CASE f <= a
      <4>1. read[f] = Entry(reg, 1, f)
        BY <1>11, <3>5
      <4>2. h = "HKCU" /\ reg[h][f] = v
        BY <3>4, <4>1, HivesAre DEF Entry
      <4>3. f \in DOMAIN reg[h] /\ i \in DOMAIN reg[h]
        BY <1>7, <1>8, <2>1, <2>3, <3>5, <4>2
      <4>4. f = i
        BY <1>7, <2>1, <2>3, <4>2, <4>3 DEF IsInjective
      <4>5. k = 1
        BY <2>2, <4>2, HivesAre
      <4>. QED
        BY <1>12, <2>4, <2>5, <3>1, <3>2, <4>4, <4>5
    <3>6. CASE ~(f <= a)
      <4>1. read[f] = Entry(reg, 2, f - a)
        BY <1>11, <3>6
      <4>2. h = "HKLM" /\ reg[h][f - a] = v
        BY <3>4, <4>1, HivesAre DEF Entry
      <4>3. b = Len(reg[h])
        BY <1>4, <2>1, <4>2 DEF Size
      <4>4. f - a \in DOMAIN reg[h] /\ i \in DOMAIN reg[h]
        BY <1>7, <1>8, <1>10, <2>1, <2>3, <3>6, <4>3
      <4>5. f - a = i
        BY <1>7, <2>1, <2>3, <4>2, <4>4 DEF IsInjective
      <4>6. k = 2
        BY <2>2, <4>2, HivesAre
      <4>7. e = f
        BY <1>8, <2>4, <4>5, <4>6
      <4>. QED
        BY <1>12, <2>5, <3>1, <3>2, <4>7
    <3>. QED
      BY <3>5, <3>6
  <2>9. RowsOf(h, v) = {r}
    BY <2>7, <2>8
  <2>. QED
    BY <2>9, FS_Singleton
<1>14. Len(startRows) = Len(seen["HKCU"]) + (IF "HKLM" \in granted THEN Len(seen["HKLM"]) ELSE 0)
  BY <1>1, <1>2, <1>4, <1>8, <1>9 DEF Size
<1>. QED
  BY <1>13, <1>14

\* If the first key shows a value, every value of the keys that opened has exactly one
\* row, with its own key and data, and there is no other row, through refills in the
\* middle of a deletion (CStartUpDialog.cpp, 82 to 125), for any values and any order.
THEOREM StartUpListRight == Spec => []StartUpShown
<1>1. StartInv => StartUpShown
  <2> SUFFICES ASSUME StartInv, modal \in {"startup", "startmenu"}, "HKCU" \in granted, seen["HKCU"] # <<>>
               PROVE  /\ \A h \in granted : \A v \in ToSet(seen[h]) : Cardinality(RowsOf(h, v)) = 1
                      /\ Len(startRows) = Len(seen["HKCU"])
                           + (IF "HKLM" \in granted THEN Len(seen["HKLM"]) ELSE 0)
    BY DEF StartUpShown
  <2>. QED
    BY EachValueOnce DEF StartDialogs
<1>. QED
  BY StartUpHolds, <1>1, PTL


-----------------------------------------------------------------------------
(* The software list.                                                       *)

SoftRow == [key : ToSet(Installed), command : ToSet(Installed) \cup {Garbage}]

\* After a sub-key with a command the buffer holds that command, and never anything but
\* the command of a sub-key or what it held first.
LEMMA BufferRead ==
  /\ \A i \in 1 .. Len(Installed) : Buffer[i] \in ToSet(Installed) \cup {Garbage}
  /\ \A i \in 1 .. Len(Installed) : Installed[i] \in HasCommand => Buffer[i] = Installed[i]
<1> DEFINE n == Len(Installed)
           T == ToSet(Installed) \cup {Garbage}
           Read(k, t) == IF Installed[k] \in HasCommand THEN Installed[k] ELSE t
           step == [k \in 1 .. n |-> [t \in T |-> Read(k, t)]]
<1>1. n \in Nat /\ \A k \in 1 .. n : Installed[k] \in ToSet(Installed)
  BY SoftwareAssumption DEF ToSet
<1>2. Garbage \in T /\ \A k \in 1 .. n, t \in T : Read(k, t) \in T
  BY <1>1
<1>3. \A k \in 1 .. n, t \in T : step[k][t] = Read(k, t)
  <2> SUFFICES ASSUME NEW k \in 1 .. n, NEW t \in T PROVE step[k][t] = Read(k, t)
    OBVIOUS
  <2> HIDE DEF Read, T, n
  <2>1. step[k] = [u \in T |-> Read(k, u)]
    BY Zenon
  <2> HIDE DEF step
  <2>. QED
    BY <2>1, Zenon
<1>4. PICK g : Follows(g, T, Garbage, n, step)
  <2> HIDE DEF n, T, step, Read
  <2>1. IsStep(T, Garbage, n, step)
    BY <1>1, <1>2, <1>3 DEF IsStep
  <2>. QED
    BY <2>1, Recursion
<1>5. g = [i \in 0 .. n |-> IF i = 0 THEN Garbage
                            ELSE IF Installed[i] \in HasCommand THEN Installed[i] ELSE g[i - 1]]
  <2> HIDE DEF n, T, step, Read
  <2>1. \A k \in 1 .. n : g[k] = Read(k, g[k - 1])
    BY <1>1, <1>3, <1>4 DEF Follows
  <2>2. \A k \in 0 .. n : g[k] = IF k = 0 THEN Garbage
                                 ELSE IF Installed[k] \in HasCommand THEN Installed[k] ELSE g[k - 1]
    BY <1>4, <2>1 DEF Follows, Read
  <2>3. DOMAIN g = 0 .. n /\ g = [k \in DOMAIN g |-> g[k]]
    BY <1>4 DEF Follows
  <2>. QED
    BY <2>2, <2>3
<1>6. Buffer = [i \in 0 .. n |-> IF i = 0 THEN Garbage
                                 ELSE IF Installed[i] \in HasCommand THEN Installed[i] ELSE Buffer[i - 1]]
  BY <1>5 DEF Buffer
<1>7. /\ Buffer[0] = Garbage
      /\ \A k \in 1 .. n : Buffer[k] = IF Installed[k] \in HasCommand THEN Installed[k] ELSE Buffer[k - 1]
  <2> HIDE DEF n
  <2>. QED
    BY <1>1, <1>6
<1> DEFINE P == {k \in 0 .. n : Buffer[k] \in T}
<1>8. 0 \in P
  BY <1>1, <1>2, <1>7
<1>9. \A k \in 1 .. n : k - 1 \in P => k \in P
  BY <1>1, <1>7
<1>10. P = 0 .. n
  <2> HIDE DEF T
  <2>1. P \subseteq 0 .. n
    OBVIOUS
  <2> HIDE DEF n, P
  <2>. QED
    BY <1>1, <1>8, <1>9, <2>1, Induction
<1>. QED
  BY <1>1, <1>7, <1>10

\* A row whose sub-key has a command shows it; the menu keeps the command of its row.
SoftInv ==
  /\ softRows \in Seq(SoftRow)
  /\ \A i \in DOMAIN softRows : softRows[i].key \in HasCommand => softRows[i].command = softRows[i].key
  /\ SoftTypeOK
  /\ modal = "softmenu" => uniPath = GetItemText(softRows, nRow, "command", NoCommand)
  /\ launched.of \in HasCommand /\ launched.command # NoCommand => launched.command = launched.of

LEMMA SoftRead ==
  ASSUME NEW list \in Seq(SoftRow), NEW r,
         \A i \in DOMAIN list : list[i].key \in HasCommand => list[i].command = list[i].key
  PROVE  /\ GetItemText(list, r, "command", NoCommand) \in ToSet(Installed) \cup {NoCommand, Garbage}
         /\ GetItemText(list, r, "key", NoCommand) \in HasCommand
              => GetItemText(list, r, "command", NoCommand) = GetItemText(list, r, "key", NoCommand)
<1>1. NoCommand \notin HasCommand
  BY SoftwareAssumption
<1>2. CASE HasRow(list, r)
  <2>1. r + 1 \in DOMAIN list
    BY <1>2 DEF HasRow
  <2>2. list[r + 1] \in SoftRow
    BY <2>1
  <2>. QED
    BY <1>2, <2>1, <2>2 DEF GetItemText, SoftRow
<1>3. CASE ~HasRow(list, r)
  BY <1>1, <1>3 DEF GetItemText
<1>. QED
  BY <1>2, <1>3

LEMMA SoftInitInv == Init => SoftInv
<1>1. NoCommand \notin HasCommand
  BY SoftwareAssumption
<1>. QED
  BY <1>1 DEF Init, AppInit, SoftInit, SoftInv, SoftTypeOK, NotLaunched

LEMMA SoftStepInv ==
  ASSUME SoftInv, SoftStep
  PROVE  SoftInv'
<1>1. NoCommand \notin HasCommand
  BY SoftwareAssumption
<1>2. CASE OpenSoftware
  <2>1. PICK rows : rows = softRows'
    OBVIOUS
  <2>2. CASE rows = <<>>
    BY <1>1, <1>2, <2>1, <2>2 DEF OpenSoftware, MoveTo, SoftInv, SoftTypeOK, NotLaunched
  <2>3. CASE rows = [i \in DOMAIN Installed |-> [key |-> Installed[i], command |-> Buffer[i]]]
    <3>1. Len(Installed) \in Nat /\ DOMAIN Installed = 1 .. Len(Installed)
          /\ \A i \in 1 .. Len(Installed) : Installed[i] \in ToSet(Installed)
      BY SoftwareAssumption DEF ToSet
    <3>2. \A i \in 1 .. Len(Installed) : rows[i] \in SoftRow
      BY <2>3, <3>1, BufferRead DEF SoftRow
    <3>3. rows \in Seq(SoftRow) /\ DOMAIN rows = 1 .. Len(Installed)
      BY <2>3, <3>1, <3>2
    <3>4. \A i \in DOMAIN rows : /\ rows[i].key \in ToSet(Installed)
                                 /\ rows[i].key \in HasCommand => rows[i].command = rows[i].key
      BY <2>3, <3>1, <3>3, BufferRead
    <3>5. modal' = "software" /\ launched' = NotLaunched /\ uniPath' = uniPath
      BY <1>2 DEF OpenSoftware, MoveTo
    <3>. QED
      BY <1>1, <2>1, <3>3, <3>4, <3>5 DEF SoftInv, SoftTypeOK, NotLaunched
  <2>. QED
    BY <1>2, <2>1, <2>2, <2>3 DEF OpenSoftware
<1>3. CASE CloseSoftware
  BY <1>1, <1>3 DEF CloseSoftware, MoveTo, SoftInv, SoftTypeOK, NotLaunched
<1>4. CASE DismissSoftMenu
  BY <1>4 DEF DismissSoftMenu, MoveTo, SoftInv, SoftTypeOK, softVars
<1>5. CASE Uninstall
  <2>1. UNCHANGED <<softRows, uniPath>> /\ modal' = "software" /\ modal = "softmenu"
        /\ launched' = [of |-> GetItemText(softRows, nRow, "key", NoCommand), command |-> uniPath]
    BY <1>5 DEF Uninstall, MoveTo
  <2>2. uniPath = GetItemText(softRows, nRow, "command", NoCommand)
    BY <2>1 DEF SoftInv
  <2>3. launched'.of \in HasCommand => launched'.command = launched'.of
    BY <2>1, <2>2, SoftRead DEF SoftInv
  <2>. QED
    BY <2>1, <2>3 DEF SoftInv, SoftTypeOK
<1>6. ASSUME NEW r, RightClickSoftware(r) PROVE SoftInv'
  <2>1. UNCHANGED <<softRows, launched>> /\ nRow' = r
        /\ uniPath' = GetItemText(softRows, r, "command", NoCommand)
    BY <1>6 DEF RightClickSoftware
  <2>2. uniPath' \in ToSet(Installed) \cup {NoCommand, Garbage}
    BY <2>1, SoftRead DEF SoftInv
  <2>. QED
    BY <2>1, <2>2 DEF SoftInv, SoftTypeOK, GetItemText
<1>. QED
  BY <1>2, <1>3, <1>4, <1>5, <1>6 DEF SoftStep

LEMMA SoftUnmoved ==
  ASSUME SoftInv, UNCHANGED softVars, Still(SoftDialogs)
  PROVE  SoftInv'
<1>1. modal' = "softmenu" => modal = "softmenu" /\ nRow' = nRow
  BY DEF Still, SoftDialogs
<1>. QED
  BY <1>1 DEF SoftInv, SoftTypeOK, softVars, GetItemText

LEMMA SoftwareHolds == Spec => []SoftInv
<1>1. ASSUME SoftInv, Next PROVE SoftInv'
  BY <1>1, OneTool, SoftStepInv, SoftUnmoved
<1>2. SoftInv /\ UNCHANGED vars => SoftInv'
  BY NoStep, SoftUnmoved
<1>. QED
  BY SoftInitInv, <1>1, <1>2, PTL DEF Spec

\* A command that was read in full is launched only for its own row: what goes wrong
\* with the shared buffers goes wrong for the sub-keys without such a command, and for
\* these alone (CSoftwareUninstallDialog.cpp, 123 to 149 and 168 to 202).
THEOREM ReadCommandIsOwn ==
  Spec => [](launched.of \in HasCommand /\ launched.command # NoCommand
               => launched.command = launched.of)
<1>1. SoftInv => (launched.of \in HasCommand /\ launched.command # NoCommand
                    => launched.command = launched.of)
  BY DEF SoftInv
<1>. QED
  BY SoftwareHolds, <1>1, PTL

-----------------------------------------------------------------------------
(* All the tools together.                                                  *)

\* The variables of every tool keep their types, whichever tools a run uses and
\* whatever the other programs do meanwhile.
THEOREM TypeCorrect == Spec => []TypeOK
<1>1. Init => tools \in Sessions
  BY DEF Init, AppInit
<1>2. tools \in Sessions /\ [Next]_vars => (tools \in Sessions)'
  BY OneTool, NoStep DEF shell
<1>3. Spec => [](tools \in Sessions)
  BY <1>1, <1>2, PTL DEF Spec
<1>4. /\ tools \in Sessions /\ ProcInv /\ ServInv /\ StartInv /\ SoftInv
      /\ FileInv /\ CleanerInv
      => TypeOK
  BY ProcTypeCorrect, StartTypeCorrect, FileTypeCorrect, CleanTypeCorrect
  DEF TypeOK, ServInv, SoftInv
<1>. QED
  BY <1>3, <1>4, ProcessesHold, ServicesHold, StartUpHolds, SoftwareHolds, FilesHold,
     CleanerHolds, PTL

=============================================================================
