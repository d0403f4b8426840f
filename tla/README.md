# A TLA+ model of ProcessMangerAlpha and TheVirusServer

The repository holds a Windows MFC program, `ProcessMangerAlpha` (a process manager with a PE
viewer, clean-up tools and a small anti-virus client), and a console program,
`TheVirusServer`, that keeps the samples of the anti-virus client in a MySQL table. There is
no README and no test; what the authors say of the program is in comments and message boxes.
`TheVirusServer/include` holds the headers of the MySQL client and is not modelled.

## 1. Inventory

| Part | Source | State | Operations | Hard behaviour |
|---|---|---|---|---|
| Full-disk scan | `CAllKillingDialog` | globals `localVirusVt`, `nIndex`, three thread handles; the list; open file handles | open (load library, start 3 workers), report (3 calls and `nIndex++`), close, Escape | three workers without a lock; workers that outlive their window; globals that are never cleared; handles never closed |
| Scan of a folder | `CByPathKillingDialog` | global `localbyVirusVt`, the list, the open file | open, report, delete ticked rows, close, Escape | rows addressed by signature number while the delete handler removes rows |
| Anti-virus dialog | `CVirusDefenceDialog` | the global socket, `TheVirus.txt` | open (connect), update, upload, open the scans | blocking `recv` on the window's thread, results ignored, streams read in pieces |
| Virus server | `TheVirusServer.cpp` | table, one client socket, reply buffer | accept once, receive, update, payload | one `recv` taken for one message, fixed buffer, closed peers |
| Hash and cipher | `EnDeCrypt.cpp` | none | MD5, 3DES-ECB with padding | key array shorter than the key |
| Blacklist | `CBlacklistDialog` | two lists, `blackListCount` | add, remove, kill | ids reused between snapshot, box and `OpenProcess` |
| Main window | `ProcessMangerAlphaDlg` | process list, globals `g_ProcID` and `nRow`, timers | list once, right click, end process, menus, hot key | rows older than the processes; `nRow` shared with three other lists |
| Threads, modules, heap, windows | `CThreadsDialog` ... | lists; a worker in the heap dialog | suspend, resume, terminate | the worker copies `g_ProcID` when it gets to run; it is terminated on close and outlives Escape |
| Services | `CServListDialog` | list with the shown state, name and state of the clicked row | start, stop | shown state against real state |
| Start-up entries | `CStartUpDialog` | list, globals `RootKey` and `BootName` | list, delete | delete loop that refills the list |
| PE addresses | `GlobalVals`, `CAddCalcDialog` | fields, global mode `isActive`, `sectionName` | RVA/FOA/VA conversion | bounds of sections, missing return value |
| PE viewer | `CPEFileDialog` and 7 more | globals `fileBuff`, `optHead`, `DPMap` | choose a file, open a table, click a row | globals that are about the file before; a map that is never cleared |
| File list, project cleaner | `CFilesDialog`, `CVSCleanerDialog` | lists, suffixes | recursive walk, delete | row numbers per recursion level, worker outlives window |
| Software list | `CSoftwareUninstallDialog` | list, `uniPath`, one buffer per value for all sub-keys | run the uninstaller | buffers that keep the sub-key before |

Interaction: the anti-virus dialog talks to the server over TCP; it opens the two scans and
the blacklist as modal dialogs; update writes `TheVirus.txt`, which the scans read when they
open. A worker reaches its dialog only by messages to the thread of the window, which handles
one message at a time. The main window opens every other tool as a modal dialog; its lists
and those of the services, the start-up entries and the software share the global `nRow`. The
dialogs of the PE viewer share the file in memory and the result of the last conversion.

What makes the parts correct:

- *Full scan*: every match becomes a row with its own path and hash; no file is examined by
  two workers; workers end; closing stops them.
- *Folder scan*: the delete button deletes only what was found infected, handles are closed,
  infected files are listed.
- *Client and server*: the library after an update is what the server holds; what reaches the
  table comes from uploads, in their order, nothing twice; requests come back; streams stay in
  step; what the scans compare with is what the library says.
- *Main window, blacklist*: only what was chosen is ended, and all of it.
- *Lists* (heap, services, start-up, files, cleaner): a list shows what it was filled from,
  each row its own item, also when rows were counted anew or inserted in front.
- *Start-up, cleaner*: a deletion reaches what the user chose and nothing else.
- *PE viewer*: what is shown is about the file chosen last, at the right offsets.

`PROJECT.json` lists the places where each of these can go wrong ("hazards") with the
properties that watch them.

## 2. Modules

| Module | Models | Proofs |
|---|---|---|
| `ListControl` | the list view calls (external) | `ListControlProofs` |
| `FullScan` | `CAllKillingDialog` | `FullScanProofs` |
| `ScanReport` | abstract: what a scan's report promises | `FullScanProofs` |
| `ByPathScan` | `CByPathKillingDialog` | `ByPathScanProofs` |
| `SampleText` | the text of a digest in the upload and in both scans | `SampleTextProofs` |
| `SampleWire` | messages and connections byte by byte, encrypted samples | |
| `VirusServer` | `TheVirusServer.cpp` | |
| `VirusClient` | `CVirusDefenceDialog`, and the library file as the scans use it | |
| `VirusService` | server and client together | `VirusServiceProofs` |
| `PEAddress` | `rvaTofoa`, `foaTorva` | `PEViewerProofs` |
| `PEViewer` | the calculator and all dialogs of the PE viewer | `PEViewerProofs` |
| `AppShell` | what the tools share: the dialog in front, `nRow` | |
| `ProcessTools` | process list, blacklist, heap dialog | |
| `DevicePath` | the path of a process in the list | `DevicePathProofs` |
| `FolderWalk` | the recursive walk of a folder, for the file list and the cleaner | |
| `ServiceList` `StartUp` `SoftwareList` `FileList` | one dialog each | |
| `ProjectCleaner` | `CVSCleanerDialog` | |
| `MainWindow` | all tools together | `MainWindowProofs` |
| `MC...` | instances for TLC | |

### FullScan

Workers are pairs of a drive and an opening, since `nIndex`, `localVirusVt` and the workers
themselves survive the dialog. The walk of a drive is a sequence of entries: files in the
order of `FindNextFile` and recursion, and `Denied` for a directory that `FindFirstFile`
cannot list (lines 119 to 123); hidden entries are left out (131). A drive that is missing is
a walk of one `Denied`.

A report is the four accesses to `nIndex` of lines 169 to 172. For each of the three calls
the worker reads `nIndex` (`SendInsert`, `SendPath`, `SendMD5`) and the window answers in a
later step (`AnswerInsert`, `AnswerPath`, `AnswerMD5`); `nIndex++` is a read and a write
(`ReadForIncrement`, `WriteIncrement`). There is no step for `WaitForSingleObject(g_hEvent)`:
the event is null (`CAllKillingDialog.h:23`) and the call fails at once.

`pc[t]` is `match` in the loop over the signatures, `insert`, `path`, `md5` while the worker
waits for the window, `row`, `text`, `inc` when an answer has come, `store` between the read
and the write of the increment, `box` in the error box. `libFile` is chosen once: without it
the first opening ends the process. A worker of a destroyed window gets answers that do
nothing. Growing the vector while a worker reads it is undefined, so the process may end
(`OpenDialog`).

### ByPathScan

As above with one worker per opening; the row is the signature's number (`Place`). The delete
handler is one step per row (`DeleteRow`, `PassRow`), because files can be opened and closed
by workers meanwhile; workers' messages wait until it is done (`ui`). A folder picker that was
cancelled returns the empty path, whose walk is that of the root. A file that cannot be opened
(`Unreadable`) has the size 0xFFFFFFFF and is passed over like one that is too large; unlike
that, it leaves no handle open.

### SampleWire, VirusServer, VirusClient, VirusService

A stream is a sequence of bytes, each named by its message and its place in it; `IsZero`,
`IsOne` and `Backslashes` say what a byte is worth where the code asks. One `recv` returns any
number of the bytes that have arrived, up to its buffer, so it may end inside the type, inside
the encrypted sample or inside the zeros behind it; without `Splits` it ends only where a
`send` ended. What a chunk is depends on its bytes alone: an update if the first word is zero,
what was not received included (`OfUpdate`), a payload if it is one (`OfPayload`), else
nothing (`RecvOther`), even when the chunk began in the middle of a message. Sizes are those of
the code scaled down (see section 3).

A payload inserts the C string behind the type (`TextEnds`): it is cut by a zero byte of the
sample and by the end of the chunk, where the buffer is zero, so an empty or truncated row is
possible. `Inserted` is what MySQL makes of that text: a backslash that is not escaped itself
is dropped, and one that escapes the closing quote leaves no statement. Any statement may be
refused besides, for a quote or a byte that is no character. `Tidy` is the hypothesis of the
properties of an update: no `recv` ends inside a write (which the limit of 1000 bytes alone
can cause), whole rows, a reply that one `recv` takes, equal keys. `SameKey` says whether the
bytes behind the 16-byte key array agree in encryption and decryption.

The server accepts once (`Accept`), takes what one `recv` returns for one message (`RecvUpdate`,
`RecvPayload`, `RecvOther`, and `RecvNothing` for a peer that has gone), fetches row by row
(`FetchRow`, which ends the process when the buffer is full) and sends (`SendReply`). The client
makes a new socket at each opening (`OpenDialog`), sends and blocks (`ClickUpdate`, `Receive`,
`ReceiveFails`), shows a box, writes the library (`WriteLibrary`), shows a box (`Dismiss`); an
upload is `ClickUpload`. `Restart` stands for a user who ends the program at any point. `Stop`
and `Start` are the server's operator.

A scan opened from the dialog (`OpenScan`) matters to client and server in two ways: it reads
the library into a vector that is never cleared (`learned`), and it never closes the file
(`held`). An update opens the file for writing, which fails while it is open: `fprintf` gets a
null pointer and the program ends (`WriteLibrary`). `SampleText` is apart from the states: it
says which text a digest becomes in the upload and in each scan.

### PEAddress, PEViewer

The conversions are functions from a section table and a word to a *set* of outcomes: a call
that falls off the end of the function returns anything (`Undefined`, bounded by `Leftover`).
Words are taken modulo `Word`. An outcome names the section whose name the call left in
`sectionName`.

In `PEViewer` one dialog is in front. A file is what its headers say (sections, base, data
directories) and what stands at an offset, by kind; reading an offset where nothing of that
kind is known ends the program (`EnterFails`, `Calculate`) or shows rubbish, which is left
out. The globals `fileBuff`, `optHead`, `isActive`, `sectionName`, `DPMap`, `baseRVA` and
`realVA` are variables and survive their dialogs, as they do in the code. A file that
begins like a program but is none may end the viewer, since the place of its headers is taken from
it unchecked (`ChooseFile`). Opening the exports converts the addresses of the directory,
of each function and of its name in the order of the code (`ExportAddresses`): the last one that is
in a section leaves its name in `sectionName`.

### MainWindow and its tools

`AppShell` has the one thread of windows: `modal` is the dialog, menu or box in front, and only
that takes clicks. Each tool is a module with its own variables and a step relation
(`ProcStep`, `ServStep`, ...); `MainWindow` puts them together, so that `nRow` of one list
meets the handlers of the others. `tools` is the set of tools one run of the program uses.

- `ProcessTools`: `process[p]` numbers the process that has an id, so that a reused id is
  another process. A blank text reads as id 0. `kill` is the handler of the blacklist between
  two boxes: its snapshot, the processes that had the ids then, and the pairs of a process
  and a row that match and whose box has not been answered yet, which are taken in the order
  of the two loops. The heap dialog's
  worker runs on when its window is closed by Escape and copies `g_ProcID` only when it
  starts; a right click at that moment assigns the string it copies, which may end the
  program.
  `DevicePath` is apart from the states: what the list shows for a path of the system.
- `ServiceList`: services move by themselves, out of each of the four pending states, and by
  others; `svMoved` are those that others changed, or a command failed on, since the list was
  read.
- `StartUp`: the list is refilled in the middle of the delete handler, once per key, with a box
  after each. Rows of the first key are inserted at 0, those of the second at 1.
  `granted` are the keys that open with all access, as the list asks for, `writable` those that
  open for writing, as the deletion does; the first are among the second.
- `SoftwareList`: `Buffer` is the shared buffer after each sub-key.
- `FileList`: the walk is a sequence of files, `In`/`Out` around a sub-folder and `Denied`;
  a stack of row counters stands for the recursion. Icons are given to all rows at the end of
  every folder.
- `ProjectCleaner`: edit fields and members are two things; `UpdateData` moves one to the other.
  The scan is one step per file, sub-folder and box: a blank row is inserted at the counter of
  the folder, which starts at 0 in each, and the texts are written to the row of that number
  (`ScanFile`). `scan.met` records what the walk came by, whether or not it was given a row. The
  window takes no clicks meanwhile, except on the box of a folder that cannot be listed; other
  programs write files.

## 3. Runs

`tlc -config X.cfg M` in this directory; M and X are in `PROJECT.json`.

| Run | Checks | Shows |
|---|---|---|
| `FullScanRace` | `TypeOK` `RowExists` `RowsAhead` `OneRowPerMatch` | three drives with an infected file each, all interleavings of the unsynchronised reports: rows are never missing |
| `FullScanReopen` | `ExclusiveFile` `InfectedListed` `ReportsOnce` `WorkersEnd` | two openings whose workers overlap after Escape, infected files on one drive: the first opening lists them all and implements `ScanReport` |
| `FullScanMixed` (violation) | `InfectedListed` | two workers mix their texts, against the comment at line 165 |
| `ByPathScan` | `TypeOK` `OnlyInfectedDeleted` `OnlyInfectedListed` `OpenFilesAccounted` `WorkersEnd` | deletion while rows are filled, two openings, a file that cannot be opened |
| `ByPathListed` (violation) | `InfectedListed` | a match shown in no row, against the comment at line 137 |
| `VirusServiceTidy` | `TypeOK` `FirstRowLearned` `NothingLeft` `SignaturesCurrent` `AloneReturns` | what an update does when nothing splits or cuts its data; scans between updates never compare with an older library |
| `VirusServiceSplit` | `TableFromUploads` | a `recv` that ends at any byte, messages run together, samples with a zero byte or a backslash, refused statements: what is in the table are pieces of uploads in order, none twice |
| `VirusServiceLatest` (violation) | `UpToDate` | the success box of an update with an older or shorter library |
| `PEViewer` | `TypeOK` `CalculatorAgrees` `TableRight` `ExportsComplete` `BlockOfRow` | two PE files and one that is none, in any order with every dialog and mode |
| `PERelocAddress` (violation) | `RealRVA` | a block's addresses are counted from the last block's page, against the comment at `CRelocDialog.cpp:147` |
| `MainWindow` | `TypeOK` `BlackCountRight` `HeapShown` `ShownAgrees` `StartUpShown` `AllFilesListed` `ScanListsOnce` `EndsOnlyChosen` `KillReachesAll` `DeleteReachesBoth` `OnlyScannedDeleted` `WorkersEnd` | every tool while processes, services, registry and files change under it |
| `StaleUninstaller` (violation) | `OwnUninstaller` | a row launches the uninstaller of the row before, against the comment at `CSoftwareUninstallDialog.cpp:198` |

Every cfg turns the deadlock check off: the user may stop clicking, the scans end, and the
bounded counters (`MaxOpens`, `MaxSends`, `MaxConns`, `MaxStarts`) run out.

Facts that need no run of their own, because one line shows them: Escape and Enter end the
full scan's dialog without `OnClose`, so its workers run on although the comment at
`CAllKillingDialog.cpp:183` says that closing stops them (`CloseEsc`); an upload whose message
arrives in one piece with another is dropped although the box says it succeeded
(`RecvPayload`); if `HKCU` shows no value, the first value of `HKLM` gets its texts in a row
that does not exist (`TextRow`, hence the condition in `StartUpShown`).

Bounds. *Full scan*: two walk entries per drive are enough for each worker to have one report
and one other entry (an error box, a file too large, a file held by another program); three
workers lose two increments at once. Overlapping openings are checked with two drives. *Folder
scan*: two signatures and two infected files give both orders of rows; a second opening gives a
worker without a window and a library loaded twice. *Client and server*: a row of three blocks,
a receive buffer of two rows and a block (four rows and a block in the code), a server buffer of
three rows (twenty): a fourth row ends the server. Two connections give one served and one
queued; more only add refused ones. A type has two bytes (four), so that a `recv` can end in it.
When streams split, a block is one byte, an upload seven bytes, an update eight, and the server
takes twelve at once, less than two messages; of two uploads one is of a sample with a
backslash, and one of a sample that begins with a one and a zero, which after a split reads as
the type of a payload. The ASSUME `Recognition` evaluates the theorems of `SampleTextProofs` on
digests of two bytes, and `PathsShown` those of `DevicePathProofs` on five drives.

*PE viewer*: words of 7 bits, so that sums pass both the signed and the unsigned limit; two
sections that touch and two with a gap; addresses inside, at the edge, in the gap and behind the
last section are typed. *Main window*: a run uses one tool, or the process list together with
the heap dialog (both use `g_ProcID`) or the blacklist (both end processes); the other tools
share only `nRow`, which each of them sets before it reads it. Two ids and one more start give a
reused id; two openings of the heap dialog and of the file list give a worker without a window
beside one that has one; two rows in the blacklist can hold the same id. Three registry values
give every order of insertion at rows 0 and 1; others add one value per opening and per
deletion; the keys that open are chosen at each opening. Of three sub-keys the second has no
command. The walk of the file list enters and leaves a sub-folder with a folder in it that
cannot be listed. The cleaner has such a folder with a file before, in and behind the
sub-folder, the root a blank path stands for, which cannot be listed, three suffixes and a
locked file. One block per process is enough for a worker that copies a late id; that blocks are
in order is left to the proof.

Fairness. Workers are threads the scheduler runs (`WF_vars(Worker(t))`); the window's thread
pumps messages and the user answers error boxes, which are modal (`WF` on `Window` and
`DismissBox`). In `ByPathScan` the answer to a worker is strongly fair: the user may start the
delete handler again and again, but Windows delivers sent messages before queued input. The
server's loop and the client's handlers are weakly fair; no fairness is assumed of the user's
clicks or the operator. In `MainWindow` the heap workers and the file list's workers are
weakly fair; the error box of a walk is in front of its window and counts as the worker's own
step. `PEViewer` has no fairness: everything in it is a click.

## 4. Proofs

`tlapm FullScanProofs.tla` and the like. All assume only the named ASSUMEs of the modules,
which TLC evaluates in the runs.

- `FullScanProofs!TypeCorrect`: `TypeOK` is inductive by itself. It contains that a worker
  that compares is at a file inside its walk, which the window's answers use.
- `FullScanProofs!FilesAreExclusive`: `ExclusiveFile` needs `ExaminedIsLocked` (the file a
  worker examines is locked); a worker enters `match` only through a file nobody has locked,
  and nothing is ever unlocked.
- `FullScanProofs!TextsHitRows`: `RowExists` is not inductive. The invariant is `RowsAhead`:
  `nIndex` plus the number of reports that have their row and have not written `nIndex` is at
  most the length of the list, and what a worker read is bounded likewise. A lost increment
  only makes `nIndex` smaller, so the argument needs no lock. `RowsStayAhead` states it. The
  proof counts the set `InFlight`, hence the theorems on cardinality.
- `FullScanProofs!CountsEachMatch` (`OneRowPerMatch`): a first scan that ends has one row per
  pair of a file and an equal signature, for any number of workers, whatever they do to
  `nIndex`. The list has as many rows as there are matches in `Reported`, those that were
  given one (`RowsCounted`). That this is every match at the end needs `Bookkeeping`: a file a
  worker has opened comes from a walk, a file behind a worker's place is locked, and what a
  worker has compared so far is what its step says. With `ExaminedIsLocked` no match is
  counted by two workers. `ScanInv` is the conjunction.
- `FullScanProofs!ListsAllInfected` and `ImplementsScanReport`: what each row says. Both have the
  hypothesis `OneDriveInfected`, that no two drives have infected files; without it the run
  `FullScanMixed` violates `InfectedListed`. Then in a first opening only one worker reports
  (`OneReporter`), although all of them run, and `ReportInv` is inductive: the row at `nIndex`
  is the one in progress and the last, and the rows before it are those of the matches whose
  report is over. `StepImplementsReport` maps each action to a step or a stutter of
  `ScanReport`: the first opening to `Show`, `WriteIncrement` to `Report`, closing to `Hide`, all
  others to a stutter. The
  refinement also needs `EachSignatureOnce`, since a file that equals a line written twice
  gets two equal rows, which `ScanReport` forbids. The run `FullScanReopen` satisfies both
  hypotheses.
- `ByPathScanProofs!TypeCorrect`, `ListsOnlyInfected`, `DeletesOnlyInfected`: whatever the
  order of inserts, texts and deletions, the paths in the list are those of infected files.
  The invariant is `OnlyInfectedListed`: the loaded signatures come from the library, what is
  being reported is infected, and rows hold only infected paths; the list operators keep the
  set the paths are from (`AnswerKeepsRows`, on the lemmas of `ListControlProofs`).
- `ByPathScanProofs!AccountsForOpenFiles` (`OpenFilesAccounted`): an open file is too large or
  has a worker that is at it and examines it, or was terminated there. A step moves one worker
  only, and a worker that opens or closes a file is at it (`HoldersStay`, `OthersHold`). An
  opening starts its worker from scratch, so the invariant needs that the workers of later
  openings have done nothing (`NotYetStarted`).
- `ByPathScanProofs!ListsAllOfFirstLine`: the positive side of the run `ByPathListed`. With the
  hypothesis `FirstLineOnly`, that only the first line of the library matches files, a first
  scan lists every infected file. The library an update writes has one line
  (`CVirusDefenceDialog.cpp:134` to 146), so it satisfies the hypothesis; that of the run has two
  lines that match. Every match is then inserted at row 0, and `FirstScanInv` says what the top
  row holds while it is filled (`EntryInv`: a blank path before the path is written, so no
  listed path is overwritten) and that every entry left behind is listed (`LeftListed`). That an
  infected file is never skipped needs `OpenFilesAccounted`: whatever is open is too large.
- `PEViewerProofs!RvaToFoaRight`: for every table a linker writes and every byte of a section
  that is in the file, `rvaTofoa` finds the byte's offset; if it is the first byte of a section
  that touches the one before, by way of that one, which gives the same offset but the wrong
  name. The proof finds the first section that ends the walk: all before the byte's section
  neither hold the address nor lie above it.
- `PEViewerProofs!FoaToRvaRight`: the way back is right exactly when the offset is not below the
  first section, not above its own section's end in memory, and no earlier section reaches it
  with the end that one has in memory: the bound in `foaTorva` is an address where an offset is
  meant. That it is "exactly when" needs, in each other case, the outcome the code gives: a
  failure or the earlier section. The theorem is about any section; the calculator's mode FOA
  is in no property, since it is wrong in those cases.
- `PEViewerProofs!TypeCorrect`, `CalculatorRight`, `TablesRight`, `ExportsListed`: with
  `BlocksRight` below all properties of the run `PEViewer`, for all files that satisfy
  `ImageAssumption` and `LinkedAssumption`. `ViewerInv` adds to the types that `optHead` points
  into `fileBuff` whenever that is a PE file, which the calculator needs. `OffsetFound` and
  `OffsetIs` turn `RvaToFoaRight` into what the properties speak of (`Offset`); `ThereAndBack`
  is that subtracting and adding ImageBase cancel modulo the word. `TableInv` says that the rows
  of the list of modules are the address tables of the descriptors read, so that a click
  converts an address the linker wrote: table and offset advance together within a section
  (`ThunkRight`), and a click below the rows converts address 0, which lies before the first
  section. `ExportRowsRight` is by induction over the functions: after k of them the list has as
  many rows as functions with an address, and the row of one is found by counting those up to
  it.
- `PEViewerProofs!BlocksRight` (`BlockOfRow`): a click on a block shows that block of the file
  in memory although `DPMap` is never cleared. The hypothesis is `PagesLinked(buff)`: sections
  that have bytes in the file do not share them, there is one table of relocations with a block
  per page, the entries that fill a block up are its last, and a page is in a section, at an
  offset that is a positive long, or its conversion fails. Without it two pages can share a key of
  the map. The ASSUME `RelocationsLinked` has TLC check it for both files of the run. Different
  pages have different offsets (`OffsetsDiffer`), hence different keys (`PagesKeyed`), and the
  entries of other files can only be under keys that opening the dialog overwrites or that no
  row has: `RelocInv` says that each row's offset is a key whose value is that block of the
  file in memory. `BlockRowsRight` is by induction over the entries of a block: the row of an
  entry is found by counting the HIGHLOW entries up to it.
- `PEViewerProofs!LastBlockAddresses` (`RealRVA`): the positive side of the run
  `PERelocAddress`. Addresses are counted from `baseRVA`, which is the page of the last block
  read, so those of the last block, and of a table with one block, are right.
- `SampleTextProofs!FolderScanRecognises`, `FullScanMisses`, `ZeroByteMisses`: the folder scan
  writes the text the upload wrote, for digests of any length without a zero byte; the full
  scan writes `%02X` where the upload wrote `%02x`, so a sample with a digit above 9 is never
  recognised by it; a digest with a zero byte is cut by the upload and recognised by neither.
- `DevicePathProofs!PathRight`, `PathOnOtherDrive`: the drives' device names are compared with
  the beginning of a path, so a path is shown right if no name begins another one and every
  drive before tells its name; otherwise it is shown on the drive whose name begins it
  (`...Volume1` for `...Volume10`). Both rest on the fact that of two beginnings of one text
  one begins the other (`PrefixesCompare`).
- `VirusServiceProofs` (server and client). `TypeCorrect` is inductive with the fact that an
  open dialog has a socket. `ScansUpToDate`: `SignaturesCurrent` needs `LearnedHeld`: a scan
  that has read the library holds the file, so no update replaces it. `UploadsInOrder`: the
  bytes in a stream are those of the uploads, in order, from some place on, and the rows of the
  table start at places before it; both are kept by an explicit witness, a function from rows to
  places of uploads. A chunk that is a payload begins in the type or in the sample of an upload,
  and what is inserted of it starts there or, if it is empty, at the place of its type;
  consuming the chunk moves the stream behind it. `LearnsFirstRow`
  and `StreamsEmptied` share `ServiceInv`: in a tidy table what the server has composed is
  the concatenation of the rows before the one to be fetched, an unanswered update is the
  last head of the current socket, and a reply is in a stream only while the client waits.
  `LatestOfOneSample` is the positive side of the run `VirusServiceLatest`: if the server answered
  and all rows of a tidy table are of one sample, the box of success tells the truth. It needs
  `AnswerWritten`, which is `FirstRowLearned` without the case of a failed `recv`: while the box
  is up, a buffer that is not empty was the reply, and its text is that of the first row.
- `MainWindowProofs` (the main window and its tools): all safety properties the run
  `MainWindow` checks. Steps of one tool leave the variables of the others alone and their
  dialogs neither open nor close (`OneTool`), so each tool has an invariant of its own that is
  preserved by its own steps and by steps in which it is `Still`:
  - `BlacklistCounted`: the list of processes and the blacklist are typed lists, the counter
    is the length of the blacklist (`ListsInv`); the removal loop is a recursive function,
    whose value after k rows has a counter equal to its length (`WithoutCounted`).
  - `KillsAllListed` (`KillInv`): a process of the snapshot that is in the blacklist and still
    runs has a pair in `kill.left`; an answer ends it or leaves its pair, and an id used
    again is another process.
  - `ProgramEndsChosen`: what is ended is `g_ProcID`, the id of row `nRow`, which no other list
    changes while the menu is up, or the id of a matching pair.
  - `HeapWindowRight` (`HeapInv`): the window in front is for `g_ProcID`, which
    cannot change while it is open, so its worker copies the same id however late it starts;
    the rows are those this worker has shown, and other workers have no window.
  - `ServicesShownRight` (`ServInv`): name and row of the two globals go together.
  - `DeletesFromBoth` (`DeleteInv`): after round k the value is in none of the first k keys that
    could be written, unless added. `StartUpListRight` (`StartInv`): filling by single values
    puts those of the first key in reverse order around those of the second; `At` is the
    permutation of the rows, and `AtInverse` that it is one.
  - `ListsAllFiles` (`FileInv`): the worker of the window in front has inserted exactly the
    files before its place in the walk; the row counters of its stack do not exceed the rows,
    which needs that a walk leaves only folders it has entered (`IsWalk`).
  - `ScansListOnce` (`ScanInv`): the rows are those of the matching files met so far, each
    once. A row is inserted at the top counter and filled at the same number; that it is there
    needs that no counter exceeds the length of the list, and that there is a counter for
    every folder the walk is in (the lemmas on walks and counters are those of
    `ListsAllFiles`). A file met twice would have two rows, so the walk must come by no file
    twice (`IsWalk`).
  - `DeletesOnlyScanned` (`CleanInv`): the rows are files of the scan that
    filled them (`Wanted` depends on that scan's folder and suffixes alone, and a new scan
    empties the list), and the dialog is in front while the delete handler runs.
  - `ReadCommandIsOwn`: not a property of a run but the positive side of the run
    `StaleUninstaller`: a command that was read is launched for its own row only.
  - `TypeCorrect`: `TypeOK` from the invariants of all tools.

Recursive functions. The backends know no induction over data, and the induction theorems of the
library cannot be instantiated. `ListControlProofs` has what the proofs above need instead:
`LeastNumber` (a non-empty set of numbers has a least one), from it `Induction` over a set, and
`Recursion`: a function whose value at k is computed from that at k - 1 exists. A recursive
function of the model (`Without`, `Filled`, `Buffer`, `ExportRows`, `BlockRows`) is unfolded
once with `Recursion` and its values are bounded with `Induction`.

The ASSUMEs the proofs rest on are those of the code's environment: process ids and registry
values are finitely many, a walk leaves only folders it has entered and comes by no file
twice, services are a list of names, files and suffixes are sets, a PE file is what a linker
writes (sections in order, headers before them, an import address table inside one section and
below the last positive long), and the bounds are numbers.
No theorem needs a bound to be small.

Only model-checked: liveness (`WorkersEnd`, `AloneReturns`), which is out of the prover's reach,
and the expected violations, each a counterexample. Every safety property of a passing run is
a theorem: `InfectedListed` and `ReportsOnce` of the full scan under `OneDriveInfected` (and
`EachSignatureOnce`), `BlockOfRow` under `PagesLinked`, the others without a hypothesis. Each
property that a run violates has a theorem that says when it does hold: `ListsAllInfected`,
`ListsAllOfFirstLine`, `LatestOfOneSample`, `LastBlockAddresses` and `ReadCommandIsOwn`.

## 5. What is not modelled

- File contents, MD5 and cipher mathematics: a hash is a value, an encrypted block names its
  plain block. The two scans compare texts of different case with the library; each scan is
  modelled with a library of its own case, and `SampleText` has the difference.
- The heap, loader and C run-time locks that `TerminateThread` may orphan.
- Failures of the socket set-up and of the database connection.
- Headers and sizes that dialogs copy into text; the characters of names in the PE tables (their
  addresses are converted); the bitmap of a resource. The lists of modules, threads and windows,
  which are filled once; the three commands on a thread, each one call of the system with the id
  of the row.
- In the main window: the timers, which format values of the system; the hot key; the commands
  that call the system and keep no state (clean memory, recycle bin, shut down, lock).
- `TheVirusServer/include` (third-party headers of MySQL) and the shell the wizard
  generated. These headers are most of the repository's lines; the program's own code is
  about a seventh of it, so the share of all lines that the modules translate stays small
  although nearly every handler of the program with state is modelled.

## 6. Plan

Done: the modules of section 2 and the proofs of section 4. What would come next is a model of
the parts that section 5 names, each with a run of its own: a violation run makes room when a
later component needs its place. The steps of those parts that keep state are few, so the
proofs would be of the kind of `SampleTextProofs` and `DevicePathProofs`: facts about values.
