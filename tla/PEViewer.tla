------------------------------ MODULE PEViewer ------------------------------
(***************************************************************************)
(* The PE file viewer: the file dialog (CPEFileDialog), the address         *)
(* calculator (CAddCalcDialog), the list of data directories               *)
(* (CDirListDialog) and the dialogs of the tables.  All of them read the    *)
(* global fileBuff, most set the global optHead, and every conversion may   *)
(* set the global sectionName.  Dialogs are modal: one of them is in front. *)
(* Buffers are never freed, so pointers into an older file stay valid.      *)
(***************************************************************************)
EXTENDS PEAddress, ListControl, FiniteSets, SequencesExt

CONSTANTS
  PE,       \* files that are PE files
  Image,    \* what they hold, see ImageAssumption
  Other,    \* a file that is none
  NoFile,   \* a null pointer
  Typed     \* bound: the numbers a user types

Tables == {"exports", "imports", "resources", "relocs", "tls", "delay"}

\* A file: its size, ImageBase, section table, the addresses of its data
\* directories, and what starts at an offset, by kind: relocation blocks
\* [va, entries], import descriptors [name, iat], thunks, the export directory and the
\* resource types, each the addresses of its leaves.  An export directory has the
\* addresses of the module's name and of three tables, and in these those of the
\* functions and, with the number of its function each, of their names.
Block == [va : Words, entries : Seq([highlow : BOOLEAN, offset : Nat])]
ImportedModule == [name : Words, iat : Words]
ExportDirectory == [heads : Seq(Words), funcs : Seq(Words), ords : Seq(Nat), names : Seq(Words)]
Contents ==
  [relocs |-> Seq(Block), imports |-> Seq(ImportedModule), thunks |-> Seq(Words),
   exports |-> [1 .. 1 -> ExportDirectory], resources |-> Seq(Seq(Words))]

ASSUME ImageAssumption ==
  /\ Typed \subseteq Words /\ Other \notin PE /\ NoFile \notin PE /\ Other # NoFile
  /\ \A f \in PE :
       /\ WellFormed(Image[f].secs) /\ Image[f].secs # <<>>
       /\ Image[f].base \in Words /\ Image[f].size \in Words
       /\ Image[f].dir \in [Tables -> Words]
       /\ \A x \in DOMAIN Image[f].holds :
            x[1] \in DOMAIN Contents /\ Image[f].holds[x] \in Contents[x[1]]

\* A linker puts the headers before the sections and an address table into one section,
\* below the last positive long; the address behind the last byte is no table's.
ASSUME LinkedAssumption ==
  \A f \in PE :
    LET secs == Image[f].secs
        holds == Image[f].holds
    IN /\ secs[1].va > 0 /\ <<"thunks", OutOfRange>> \notin DOMAIN holds
       /\ \A x \in DOMAIN holds : x[1] = "imports" =>
            \A m \in DOMAIN holds[x] : \E i \in DOMAIN secs :
              LET at == OffsetOf(secs, i, holds[x][m].iat)
              IN /\ holds[x][m].iat < Word \div 2 /\ Inside(secs, i, holds[x][m].iat)
                 /\ <<"thunks", at>> \in DOMAIN holds =>
                      \A j \in DOMAIN holds[<<"thunks", at>>] :
                        Inside(secs, i, holds[x][m].iat + 4 * (j - 1))

VARIABLES
  dialog,       \* the dialog in front; "none" when the viewer is closed
  buff,         \* what fileBuff points to
  head,         \* the file optHead points into
  sectionName,  \* <<file, section>> of the last conversion that named one
  isActive,     \* the calculator's mode: 1 VA, 2 RVA, 3 FOA
  shown,        \* the file whose headers and sections are shown
  calc,         \* the calculator's fields
  table,        \* the lists of a table dialog
  dpMap,        \* DPMap: relocation block by the text of its row
  last,         \* baseRVA and realVA
  ended         \* a wild pointer was read: the program is gone

vars == <<dialog, buff, head, sectionName, isActive, shown, calc, table, dpMap, last, ended>>

Blank == Word                          \* an empty field
NoName == <<NoFile, 0>>
Cleared(editable) ==
  [editable |-> editable, va |-> Blank, rva |-> Blank, foa |-> Blank, section |-> NoName, by |-> 0]
Nothing == [at |-> 0, rows |-> <<>>, picked |-> -1, sub |-> <<>>]

Init ==
  /\ dialog = "none" /\ buff = NoFile /\ head = NoFile /\ sectionName = NoName
  /\ isActive = 2 /\ shown = NoFile /\ calc = Cleared(2) /\ table = Nothing
  /\ dpMap = <<>> /\ last = [rva |-> 0, foa |-> 0] /\ ended = FALSE

\* _tcstol(.., 16): what does not fit a long becomes LONG_MAX, nothing becomes 0.
Parsed(text) ==
  IF text = Blank THEN 0 ELSE IF text < Word \div 2 THEN text ELSE Word \div 2 - 1

Secs == Image[buff].secs
ToFoa(rva) == IF buff \in PE THEN RvaToFoa(Secs, rva) ELSE Undefined
ToRva(foa) == IF buff \in PE THEN FoaToRva(Secs, foa) ELSE Undefined
NameAfter(o, name) == IF o.section = 0 THEN name ELSE <<buff, o.section>>

\* One outcome for each of several addresses, and the name the last one leaves.
ToFoas(rvas) ==
  {f \in [DOMAIN rvas -> UNION {ToFoa(rvas[i]) : i \in DOMAIN rvas}] :
     \A i \in DOMAIN rvas : f[i] \in ToFoa(rvas[i])}
NameAfterAll(outs, name) == FoldLeft(LAMBDA n, o : NameAfter(o, n), name, outs)

\* What starts at an offset of the file in memory; nothing known elsewhere, where
\* reading shows rubbish (left out) or ends the program.
Known(kind, foa) == buff \in PE /\ <<kind, foa>> \in DOMAIN Image[buff].holds
Holds(kind, foa) == IF Known(kind, foa) THEN Image[buff].holds[<<kind, foa>>] ELSE <<>>
Crash ==
  /\ ended' = TRUE
  /\ UNCHANGED <<dialog, buff, head, sectionName, isActive, shown, calc, table, dpMap, last>>

-----------------------------------------------------------------------------
(* The file dialog and the list of directories.                             *)

Open ==
  /\ dialog = "none" /\ dialog' = "file" /\ shown' = NoFile
  /\ UNCHANGED <<buff, head, sectionName, isActive, calc, table, dpMap, last, ended>>

\* Mutant of ChooseFile: the optional header of the new file is not looked up.
ChooseFileKeepsHead(f) ==
  /\ dialog = "file" /\ buff' = f
  /\ head' = IF head = NoFile THEN f ELSE head
  /\ shown' = IF f \in PE THEN f ELSE shown
  /\ UNCHANGED <<dialog, sectionName, isActive, calc, table, dpMap, last, ended>>

\* OnBnClickedButton1.  A file that cannot be read (or none chosen) has the size
\* 0xFFFFFFFF, the allocation throws and nothing changes: no action.  A file that is no PE
\* file may begin like one and point anywhere for the rest.
ChooseFile(f) ==
  /\ dialog = "file"
  /\ \/ /\ buff' = f
        /\ IF f \in PE THEN head' = f /\ shown' = f ELSE UNCHANGED <<head, shown>>
        /\ UNCHANGED <<dialog, sectionName, isActive, calc, table, dpMap, last, ended>>
     \/ f = Other /\ Crash

OpenCalculator ==
  /\ dialog = "file" /\ buff # NoFile
  /\ dialog' = "calc" /\ calc' = Cleared(2)
  /\ UNCHANGED <<buff, head, sectionName, isActive, shown, table, dpMap, last, ended>>

\* The count of directories of a file that is no PE file is rubbish: the loop may
\* run past the 16 pairs of fields.
OpenDirectories ==
  /\ dialog = "file" /\ buff # NoFile
  /\ \/ /\ dialog' = "dirs" /\ head' = buff
        /\ UNCHANGED <<buff, sectionName, isActive, shown, calc, table, dpMap, last, ended>>
     \/ buff = Other /\ Crash

Close ==
  /\ dialog # "none"
  /\ dialog' = CASE dialog = "file" -> "none" [] dialog \in {"calc", "dirs"} -> "file"
                 [] OTHER -> "dirs"
  /\ calc' = Cleared(2) /\ table' = Nothing
  /\ UNCHANGED <<buff, head, sectionName, isActive, shown, dpMap, last, ended>>

-----------------------------------------------------------------------------
(* The calculator.                                                          *)

SelectMode(mode) ==
  /\ dialog = "calc" /\ isActive' = mode
  /\ calc' = IF mode = 2 THEN [calc EXCEPT !.editable = 2] ELSE Cleared(mode)
  /\ UNCHANGED <<dialog, buff, head, sectionName, shown, table, dpMap, last, ended>>

Type(text) ==
  /\ dialog = "calc"
  /\ calc' = CASE calc.editable = 1 -> [calc EXCEPT !.va = text, !.by = 0]
               [] calc.editable = 2 -> [calc EXCEPT !.rva = text, !.by = 0]
               [] OTHER -> [calc EXCEPT !.foa = text, !.by = 0]
  /\ UNCHANGED <<dialog, buff, head, sectionName, isActive, shown, table, dpMap, last, ended>>

Bases == IF head \in PE THEN {Image[head].base} ELSE Leftover

\* Mutant of Calculated: the sum of RVA and ImageBase is wider than a DWORD.
CalculatedWide(base) ==
  LET rva == Parsed(calc.rva)
  IN {[calc EXCEPT !.va = rva + base, !.foa = o.value,
                   !.section = NameAfter(o, sectionName), !.by = 2] : o \in ToFoa(rva)}

\* The fields after a click.  The field a mode converts from is not written.
FromVA(base) ==
  LET rva == (Parsed(calc.va) - base) % Word
  IN {[calc EXCEPT !.rva = rva, !.foa = o.value,
                   !.section = NameAfter(o, sectionName), !.by = 1] : o \in ToFoa(rva)}

FromRVA(base) ==
  {[calc EXCEPT !.va = (Parsed(calc.rva) + base) % Word, !.foa = o.value,
                !.section = NameAfter(o, sectionName), !.by = 2] : o \in ToFoa(Parsed(calc.rva))}

FromFOA(base) ==
  {[calc EXCEPT !.rva = o.value, !.va = (o.value + base) % Word,
                !.section = NameAfter(o, sectionName), !.by = 3] : o \in ToRva(Parsed(calc.foa))}

\* The mode is isActive whatever field is editable.
Calculated(base) ==
  CASE isActive = 1 -> FromVA(base) [] isActive = 2 -> FromRVA(base) [] OTHER -> FromFOA(base)

OffsetRead(c) == IF c.by = 3 THEN Parsed(c.foa) ELSE c.foa

\* OnBnClickedButton1.  Eight bytes are read at the offset, wherever that is.
Calculate ==
  /\ dialog = "calc"
  /\ \/ /\ head # NoFile
        /\ \E base \in Bases : calc' \in Calculated(base)
        /\ sectionName' = calc'.section
        /\ UNCHANGED <<dialog, buff, head, isActive, shown, table, dpMap, last, ended>>
     \/ /\ head # NoFile /\ buff \in PE =>
             \E base \in Bases : \E c \in Calculated(base) :
               OffsetRead(c) + 8 > Image[buff].size
        /\ Crash

-----------------------------------------------------------------------------
(* The dialogs of the tables.  Each converts its directory's address and    *)
(* reads what stands at the offset.                                         *)

Directory(kind) == IF buff \in PE THEN ToFoa(Image[buff].dir[kind]) ELSE Undefined

\* What every table dialog does first.
Enter(kind) ==
  /\ dialog = "dirs" /\ dialog' = kind /\ head' = buff
  /\ UNCHANGED <<buff, isActive, shown, calc, ended>>

\* What it reads is not a table.
EnterFails(kind) ==
  /\ dialog = "dirs" /\ \E o \in Directory(kind) : ~Known(kind, o.value)
  /\ Crash

OpenPlain(kind) ==
  /\ Enter(kind)
  /\ \E o \in Directory(kind) :
       /\ table' = [Nothing EXCEPT !.at = o.value]
       /\ sectionName' = NameAfter(o, sectionName)
  /\ UNCHANGED <<dpMap, last>>

\* getImportTableInfo: a row per descriptor.
OpenImports ==
  /\ Enter("imports")
  /\ \E o \in Directory("imports") :
       LET mods == Holds("imports", o.value)
       IN \E outs \in ToFoas([i \in DOMAIN mods |-> mods[i].name]) :
            /\ table' = [Nothing EXCEPT !.at = o.value,
                                         !.rows = [i \in DOMAIN mods |-> mods[i].iat]]
            /\ sectionName' = NameAfterAll(outs, NameAfter(o, sectionName))
  /\ UNCHANGED <<dpMap, last>>

\* A click on a row, or below the rows (-1), takes the address out of the row's text.
RowText(r) == IF HasRow(table.rows, r) THEN table.rows[r + 1] ELSE Blank

\* Mutant of ClickModule: the offset is not advanced with the address.
ClickModuleStays(r) ==
  /\ dialog = "imports"
  /\ \E o \in ToFoa(Parsed(RowText(r))) :
       table' = [table EXCEPT !.picked = r,
                   !.sub = [j \in DOMAIN Holds("thunks", o.value) |->
                              [rva |-> (Parsed(RowText(r)) + 4 * (j - 1)) % Word,
                               foa |-> o.value]]]
  /\ UNCHANGED <<dialog, buff, head, sectionName, isActive, shown, calc, dpMap, last, ended>>

\* OnClickList1 and getFuncInfo: a row per thunk, numbered from the start of the
\* address table; the names of those not imported by ordinal are converted.
ClickModule(r) ==
  /\ dialog = "imports"
  /\ \E o \in ToFoa(Parsed(RowText(r))) :
       LET thunks == Holds("thunks", o.value)
           named == SelectSeq(thunks, LAMBDA t : t < Word \div 2)
       IN \/ \E outs \in ToFoas(named) :
               /\ table' = [table EXCEPT !.picked = r,
                     !.sub = [j \in DOMAIN thunks |->
                                [rva |-> (Parsed(RowText(r)) + 4 * (j - 1)) % Word,
                                 foa |-> (o.value + 4 * (j - 1)) % Word]]]
               /\ sectionName' = NameAfterAll(outs, NameAfter(o, sectionName))
               /\ UNCHANGED <<dialog, buff, head, isActive, shown, calc, dpMap, last, ended>>
          \/ ~Known("thunks", o.value) /\ Crash

\* The number of the first name of a function, 0 for none (exported by ordinal).
NameOf(ords, index) ==
  LET names == {i \in DOMAIN ords : ords[i] = index}
  IN IF names = {} THEN 0 ELSE First(names)

\* Mutant of ExportRows: iCol counts the functions passed over as well.
ExportRowsGaps(funcs, ords, outs) ==
  LET Add(list, k) ==
        IF funcs[k] = 0 THEN list
        ELSE SetItemText(InsertItem(list, k - 1, [text |-> <<>>]), k - 1, "text",
               <<k - 1, funcs[k], outs[k].value, NameOf(ords, k - 1)>>)
  IN FoldLeft(Add, <<>>, [k \in DOMAIN funcs |-> k])

\* Functions are numbered from 0.
ExportRow(funcs, ords, outs, k) == <<k - 1, funcs[k], outs[k].value, NameOf(ords, k - 1)>>

AddRow(list, row) ==
  [rows |-> SetItemText(InsertItem(list.rows, list.iCol, [text |-> <<>>]), list.iCol, "text", row),
   iCol |-> list.iCol + 1]

\* A function without an address is passed over.
AddFunction(list, funcs, ords, outs, k) ==
  IF funcs[k] = 0 THEN list ELSE AddRow(list, ExportRow(funcs, ords, outs, k))

\* getExportTableInfo: iCol counts the rows.
ExportRows(funcs, ords, outs) ==
  LET list[k \in 0 .. Len(funcs)] ==
        IF k = 0 THEN [rows |-> <<>>, iCol |-> 0]
        ELSE AddFunction(list[k - 1], funcs, ords, outs, k)
  IN list[Len(funcs)].rows

\* The addresses getExportTableInfo converts, in its order: the name of a function
\* before the function.
ExportAddresses(x) ==
  LET name(k) == NameOf(x.ords, k - 1)
      of(k) == IF x.funcs[k] = 0 THEN <<>>
               ELSE (IF name(k) = 0 THEN <<>> ELSE <<x.names[name(k)]>>) \o <<x.funcs[k]>>
  IN x.heads \o FlattenSeq([k \in DOMAIN x.funcs |-> of(k)])

\* The outcomes of one conversion name the same section.
NameAt(name, rva) ==
  LET named == {o.section : o \in ToFoa(rva)} \ {0}
  IN IF named = {} THEN name ELSE <<buff, First(named)>>

OpenExports ==
  /\ Enter("exports")
  /\ \E o \in Directory("exports") :
       LET dirs == Holds("exports", o.value)
           funcs == IF dirs = <<>> THEN <<>> ELSE dirs[1].funcs
           ords == IF dirs = <<>> THEN <<>> ELSE dirs[1].ords
           converted == IF dirs = <<>> THEN <<>> ELSE ExportAddresses(dirs[1])
       IN /\ \E outs \in ToFoas(funcs) :
               table' = [Nothing EXCEPT !.at = o.value, !.rows = ExportRows(funcs, ords, outs)]
          /\ sectionName' = FoldLeft(NameAt, NameAfter(o, sectionName), converted)
  /\ UNCHANGED <<dpMap, last>>

\* Mutant of Keyed: insert, which keeps what the map has under a number.
KeyedOnce(blocks, outs) ==
  [key \in {outs[i].value : i \in DOMAIN blocks} \cup DOMAIN dpMap |->
     IF key \in DOMAIN dpMap THEN dpMap[key]
     ELSE <<buff, CHOOSE i \in DOMAIN blocks : outs[i].value = key>>]

\* getRelocTableInfo: a row per block, whose text is the offset of the page; DPMap
\* keeps the block under that number, baseRVA and realVA those of the last one.
Keyed(blocks, outs) ==
  LET keys == {outs[i].value : i \in DOMAIN blocks}
      at(key) == {i \in DOMAIN blocks : outs[i].value = key}
      block(key) == CHOOSE i \in at(key) : \A j \in at(key) : j <= i
  IN [key \in keys \cup DOMAIN dpMap |->
        IF key \in keys THEN <<buff, block(key)>> ELSE dpMap[key]]

OpenRelocs ==
  /\ Enter("relocs")
  /\ \E o \in Directory("relocs") :
       LET blocks == Holds("relocs", o.value)
           n == Len(blocks)
       IN \E outs \in ToFoas([i \in DOMAIN blocks |-> blocks[i].va]) :
            /\ table' = [Nothing EXCEPT !.at = o.value,
                                         !.rows = [i \in 1 .. n |-> outs[i].value]]
            /\ dpMap' = Keyed(blocks, outs)
            /\ last' = IF n = 0 THEN last
                       ELSE [rva |-> blocks[n].va, foa |-> outs[n].value]
            /\ sectionName' = NameAfterAll(outs, NameAfter(o, sectionName))

\* The blocks of a file, where its directory says they are.
Blocks(f) ==
  LET there == {x \in DOMAIN Image[f].holds : x[1] = "relocs"}
  IN Image[f].holds[CHOOSE x \in there : TRUE]

\* The address and the offset shown for an entry are counted from a page.
EntryRow(page, entry) ==
  <<(page.rva + entry.offset) % Word, (page.foa + entry.offset) % Word>>

\* Entry i gets row i - 1; an entry of another type than HIGHLOW gets none.
AddEntry(list, page, entries, i) ==
  IF ~entries[i].highlow THEN list
  ELSE SetItemText(InsertItem(list, i - 1, [text |-> <<>>]), i - 1, "text",
         EntryRow(page, entries[i]))

\* getBlocksInfo: the rows of a block.
BlockRows(page, entries) ==
  LET list[i \in 0 .. Len(entries)] ==
        IF i = 0 THEN <<>> ELSE AddEntry(list[i - 1], page, entries, i)
  IN list[Len(entries)]

\* OnClickList1: a number DPMap does not have gets a null pointer, which is read.  The
\* page is that of the last block of the table, whatever block was clicked.
ClickBlock(r) ==
  LET key == Parsed(RowText(r))
  IN /\ dialog = "relocs"
     /\ IF key \in DOMAIN dpMap
        THEN LET b == dpMap[key]
             IN /\ table' = [table EXCEPT !.picked = r,
                                !.sub = BlockRows(last, Blocks(b[1])[b[2]].entries)]
                /\ UNCHANGED <<dialog, buff, head, sectionName, isActive, shown, calc, dpMap, last, ended>>
        ELSE Crash

\* A node of the resource tree: a type (leaf 0) or a leaf of it, whose address is
\* converted.
SelectNode(type, leaf) ==
  /\ dialog = "resources"
  /\ LET types == Holds("resources", table.at)
     IN /\ type \in DOMAIN types /\ leaf \in 0 .. Len(types[type])
        /\ IF leaf = 0
           THEN table' = [table EXCEPT !.picked = 0, !.sub = <<>>] /\ UNCHANGED sectionName
           ELSE \E o \in ToFoa(types[type][leaf]) :
                  /\ table' = [table EXCEPT !.picked = leaf,
                                 !.sub = <<[rva |-> types[type][leaf], foa |-> o.value]>>]
                  /\ sectionName' = NameAfter(o, sectionName)
  /\ UNCHANGED <<dialog, buff, head, isActive, shown, calc, dpMap, last, ended>>

Step ==
  \/ Open \/ Close \/ OpenCalculator \/ OpenDirectories
  \/ \E f \in PE \cup {Other} : ChooseFile(f)
  \/ \E mode \in 1 .. 3 : SelectMode(mode)
  \/ \E text \in Typed : Type(text)
  \/ Calculate
  \/ OpenImports \/ OpenExports \/ OpenRelocs \/ \E kind \in Tables : EnterFails(kind)
  \/ \E kind \in {"resources", "tls", "delay"} : OpenPlain(kind)
  \/ \E r \in -1 .. Len(table.rows) - 1 : ClickModule(r) \/ ClickBlock(r)
  \/ \E type, leaf \in 0 .. 3 : SelectNode(type, leaf)

Next == ~ended /\ Step

Spec == Init /\ [][Next]_vars

-----------------------------------------------------------------------------
(* Properties.                                                              *)

Files == PE \cup {Other, NoFile}

TypeOK ==
  /\ dialog \in {"none", "file", "calc", "dirs"} \cup Tables
  /\ buff \in Files /\ head \in Files /\ shown \in PE \cup {NoFile}
  /\ isActive \in 1 .. 3 /\ calc.editable \in 1 .. 3
  /\ \A field \in {"va", "rva", "foa"} : calc[field] \in Words \cup {Blank}
  /\ last \in [rva : Words, foa : Words] /\ DOMAIN dpMap \subseteq Words
  /\ ended \in BOOLEAN

\* Addresses a byte of the file has, and where the byte is in the file.
InFile(f, rva) == \E i \in DOMAIN Image[f].secs : Inside(Image[f].secs, i, rva)
Offset(f, rva) ==
  LET i == CHOOSE i \in DOMAIN Image[f].secs : Inside(Image[f].secs, i, rva)
  IN OffsetOf(Image[f].secs, i, rva)

\* What the calculator shows after a click in mode VA or RVA is about the file chosen
\* last, and the four fields agree, if the address is one of a byte of the file and a
\* positive long: VA is RVA and ImageBase, the offset is that byte's, and the section
\* is the byte's or ends at it (CAddCalcDialog.cpp, 122 to 170), whatever other
\* files, tables, modes and failed conversions came before.
CalculatorAgrees ==
  LET typed == IF calc.by = 1 THEN calc.va ELSE calc.rva
  IN dialog = "calc" /\ calc.by \in {1, 2} /\ buff \in PE /\ typed < Word \div 2
       /\ InFile(buff, calc.rva) =>
     /\ calc.va = (calc.rva + Image[buff].base) % Word
     /\ calc.foa = Offset(buff, calc.rva)
     /\ calc.section[1] = buff
     /\ \/ Inside(Secs, calc.section[2], calc.rva)
        \/ calc.rva = Secs[calc.section[2]].va + Secs[calc.section[2]].raw

\* A table is read where the linker put it, and the addresses shown for what was
\* clicked in it are those of bytes of the file and of their offsets: the thunks of
\* an import, a leaf of the resource tree (CImportTableDialog.cpp, 129 to 160;
\* CResTableDialog.cpp, 198 to 210).
TableRight ==
  dialog \in Tables /\ buff \in PE /\ InFile(buff, Image[buff].dir[dialog]) =>
    /\ table.at = Offset(buff, Image[buff].dir[dialog])
    /\ head = buff
    /\ dialog \in {"imports", "resources"} =>
         \A j \in DOMAIN table.sub : InFile(buff, table.sub[j].rva) =>
           table.sub[j].foa = Offset(buff, table.sub[j].rva)
    /\ dialog = "imports" /\ table.picked >= 0 /\ InFile(buff, table.rows[table.picked + 1]) =>
         Len(table.sub) = Len(Holds("thunks", Offset(buff, table.rows[table.picked + 1])))

\* The functions an export table gives an address.
WithAddress(funcs) == {k \in DOMAIN funcs : funcs[k] # 0}

\* The rows of a file's export directory x, each with a name of its own function if
\* there is one.
Complete(f, rows, x) ==
  LET real == WithAddress(x.funcs)
  IN /\ Len(rows) = Cardinality(real)
     /\ \A k \in real :
          LET row == rows[Cardinality({j \in real : j <= k})].text
              named == \E n \in DOMAIN x.ords : x.ords[n] = k - 1
          IN /\ row # <<>> /\ row[1] = k - 1 /\ row[2] = x.funcs[k]
             /\ InFile(f, row[2]) => row[3] = Offset(f, row[2])
             /\ IF named THEN x.ords[row[4]] = k - 1 ELSE row[4] = 0

\* The export list has one full row per function with an address, in their order, each
\* with a name of its own function (CExportTableDialog.cpp, 136 to 178).
ExportsComplete ==
  dialog = "exports" /\ Known("exports", table.at) =>
    Complete(buff, table.rows, Holds("exports", table.at)[1])

\* Sections that have bytes in the file do not share them.
SectionsApart(secs) ==
  \A i, j \in DOMAIN secs :
    i < j /\ secs[i].raw > 0 /\ secs[j].raw > 0 => secs[i].ptr + secs[i].raw <= secs[j].ptr

\* The entries that fill a block up are its last ones.
PaddedAtEnd(entries) ==
  \A m, n \in DOMAIN entries : m < n /\ entries[n].highlow => entries[m].highlow

\* A linker writes one table of relocations, a block per page; a page is in a section,
\* at an offset that is a positive long, or the conversion of its address fails.
PagesLinked(f) ==
  LET secs == Image[f].secs
      holds == Image[f].holds
  IN /\ SectionsApart(secs)
     /\ \A x, y \in DOMAIN holds : x[1] = "relocs" /\ y[1] = "relocs" => x = y
     /\ \A x \in DOMAIN holds : x[1] = "relocs" =>
          /\ \A i, j \in DOMAIN holds[x] : holds[x][i].va = holds[x][j].va => i = j
          /\ \A i \in DOMAIN holds[x] :
               /\ PaddedAtEnd(holds[x][i].entries)
               /\ IF InFile(f, holds[x][i].va) THEN Offset(f, holds[x][i].va) < Word \div 2
                  ELSE RvaToFoa(secs, holds[x][i].va) = {Failed}

\* A click on a relocation block shows the entries of that block of this file, one
\* full row each, although DPMap keeps the blocks of every file looked at before.
BlockOfRow ==
  dialog = "relocs" /\ Known("relocs", table.at) /\ table.picked >= 0
    /\ InFile(buff, Blocks(buff)[table.picked + 1].va) =>
  LET entries == Blocks(buff)[table.picked + 1].entries
      highlow == {i \in DOMAIN entries : entries[i].highlow}
  IN /\ Len(table.sub) = Cardinality(highlow)
     /\ \A i \in highlow :
          table.sub[Cardinality({j \in highlow : j <= i})].text =
            <<(last.rva + entries[i].offset) % Word, (last.foa + entries[i].offset) % Word>>

\* "Compute the RVA that really needs relocation" (comment, CRelocDialog.cpp, 147):
\* the addresses shown are the block's page and the entries' offsets.
RealRVA ==
  dialog = "relocs" /\ Known("relocs", table.at) /\ table.picked >= 0 =>
    LET block == Blocks(buff)[table.picked + 1]
    IN \A i \in DOMAIN table.sub :
         table.sub[i].text # <<>> =>
           table.sub[i].text[1] = (block.va + block.entries[i].offset) % Word

=============================================================================
