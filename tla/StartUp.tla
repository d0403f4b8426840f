------------------------------ MODULE StartUp ------------------------------
(***************************************************************************)
(* The start-up dialog (CStartUpDialog): a list of the values of two run    *)
(* keys, and a menu that deletes the named value from both, with a box and  *)
(* a refill after each.  Others write the registry meanwhile.               *)
(***************************************************************************)
EXTENDS AppShell

CONSTANTS
  Values,     \* names of values; the unnamed default value is NoName
  NoName,     \* the blank text
  Fits,       \* values whose data fits the buffer of 255 bytes
  Rubbish     \* what is in the buffer before the first value

Hives == <<"HKCU", "HKLM">>
HiveSet == {"HKCU", "HKLM"}

ASSUME ValueAssumption ==
  Fits \subseteq Values /\ NoName \in Values /\ Rubbish \notin Values /\ IsFiniteSet(Values)

VARIABLES
  registry,     \* the values of each run key, in the order they are enumerated
  granted,      \* the keys that open with all rights, to be listed
  writable,     \* the keys that open to delete a value
  rootKey,      \* RootKey
  startRows,    \* the list
  bootName,     \* BootName
  seen,         \* the registry as the list was filled
  round,        \* the rounds the delete handler has made
  added         \* what others added since the handler began

startVars == <<registry, granted, writable, rootKey, startRows, bootName, seen, round, added>>

\* No value twice in a key.
Orders == {q \in SeqOf(Values, Cardinality(Values)) : IsInjective(q)}
Unread == [h \in HiveSet |-> <<>>]

StartInit ==
  /\ registry = Unread /\ granted = {} /\ writable = {}
  /\ rootKey = "none" /\ startRows = <<>> /\ bootName = NoName
  /\ seen = Unread /\ round = 0 /\ added = {}

BlankRow == [name |-> NoName, data |-> NoName, hive |-> "none"]

\* The values getStartUpList reads, with the number of their key and their index.
ValuesOf(reg, open, k) ==
  IF Hives[k] \in open
  THEN [i \in DOMAIN reg[Hives[k]] |-> [name |-> reg[Hives[k]][i], key |-> k, index |-> i]]
  ELSE <<>>
AllValues(reg, open) == ValuesOf(reg, open, 1) \o ValuesOf(reg, open, 2)

\* Mutant of TextRow: the index of the value is taken for the row.
TextRowIndex(v) == v.index - 1

\* Values of the first key go to row 0, those of the second to row 1.
TextRow(v) == v.key - 1

\* A row for a value.  Data that does not fit leaves what the buffer had.
AddValue(list, v) ==
  LET data == IF v.name \in Fits THEN v.name ELSE list.data
      grown == InsertItem(list.rows, v.key - 1, BlankRow)
  IN [data |-> data,
      rows |-> SetItemText(SetItemText(SetItemText(grown, TextRow(v), "name", v.name),
                             TextRow(v), "data", data), TextRow(v), "hive", Hives[v.key])]

\* getStartUpList, which leaves RootKey at the second key.
Filled(reg, open) ==
  LET read == AllValues(reg, open)
      list[i \in 0 .. Len(read)] ==
        IF i = 0 THEN [rows |-> <<>>, data |-> Rubbish] ELSE AddValue(list[i - 1], read[i])
  IN list[Len(read)].rows

-----------------------------------------------------------------------------

\* Another program adds a value, at most one per opening and one per deletion (bound).
OthersAdd(h, v) ==
  /\ modal \in {"startup", "startbox"} /\ added = {}
  /\ v \notin ToSet(registry[h]) /\ registry' = [registry EXCEPT ![h] = Append(@, v)]
  /\ added' = added \cup {<<h, v>>}
  /\ UNCHANGED <<shell, granted, writable, rootKey, startRows, bootName, seen, round>>

\* The registry holds anything by then.  Who has all rights may delete too; deleting
\* asks for less.
OpenStartUp ==
  /\ modal = "main" /\ "startup" \in tools /\ MoveTo("startup")
  /\ registry' \in [HiveSet -> Orders]
  /\ writable' \in SUBSET HiveSet /\ granted' \in SUBSET writable'
  /\ startRows' = Filled(registry', granted') /\ seen' = registry' /\ rootKey' = "HKLM"
  /\ UNCHANGED <<bootName, round, added>>

CloseStartUp ==
  /\ modal = "startup" /\ MoveTo("main")
  /\ startRows' = <<>> /\ seen' = Unread /\ added' = {}
  /\ registry' = Unread /\ granted' = {} /\ writable' = {}
  /\ UNCHANGED <<rootKey, bootName, round>>

RightClickValue(r) ==
  /\ modal = "startup" /\ modal' = "startmenu" /\ nRow' = r
  /\ bootName' = GetItemText(startRows, r, "name", NoName)
  /\ UNCHANGED <<tools, registry, granted, writable, rootKey, startRows, seen, round, added>>

DismissStartMenu == modal = "startmenu" /\ MoveTo("startup") /\ UNCHANGED startVars

\* RegDeleteValue, on a key that may not have been opened.
DeleteFrom(hive) ==
  registry' = [registry EXCEPT ![hive] = IF hive \in writable
                                         THEN RemoveFirst(@, bootName) ELSE @]

\* Mutant of Delete: the key of the last listing is used.
DeleteLeftover(k) ==
  /\ DeleteFrom(rootKey) /\ round' = k /\ rootKey' = rootKey
  /\ MoveTo("startbox")

Delete(k) == DeleteFrom(Hives[k]) /\ round' = k /\ rootKey' = Hives[k] /\ MoveTo("startbox")

ClickDelete ==
  /\ modal = "startmenu" /\ Delete(1)
  /\ added' = {} /\ UNCHANGED <<granted, writable, startRows, bootName, seen>>

\* The box is answered: the list is filled, which sets RootKey, and the second round
\* follows the first.
AnswerStartBox ==
  /\ modal = "startbox" /\ UNCHANGED <<granted, writable, bootName, added>>
  /\ startRows' = Filled(registry, granted) /\ seen' = registry
  /\ IF round = 1 THEN Delete(2)
     ELSE /\ rootKey' = "HKLM" /\ round' = 0 /\ MoveTo("startup") /\ UNCHANGED registry

StartStep ==
  /\ "startup" \in tools
  /\ \/ \E h \in HiveSet, v \in Values : OthersAdd(h, v)
     \/ OpenStartUp \/ CloseStartUp \/ DismissStartMenu \/ ClickDelete \/ AnswerStartBox
     \/ \E r \in Clickable(startRows) : RightClickValue(r)

-----------------------------------------------------------------------------
(* Properties.                                                              *)

StartTypeOK ==
  /\ registry \in [HiveSet -> Orders] /\ granted \subseteq writable /\ writable \subseteq HiveSet
  /\ rootKey \in HiveSet \cup {"none"} /\ round \in 0 .. 2 /\ bootName \in Values
  /\ \A i \in DOMAIN startRows : startRows[i].name \in Values

\* The rows that show a value of a key, with its data if that fits.
RowsOf(h, v) ==
  {i \in DOMAIN startRows : startRows[i].name = v /\ startRows[i].hive = h
                              /\ (v \in Fits => startRows[i].data = v)}

\* If the first key shows a value, every value of the keys that opened has exactly one
\* row, with its own key and data, and there is no other row, through refills in the
\* middle of a deletion (CStartUpDialog.cpp, 82 to 125).
StartUpShown ==
  modal \in {"startup", "startmenu"} /\ "HKCU" \in granted /\ seen["HKCU"] # <<>> =>
    /\ \A h \in granted : \A v \in ToSet(seen[h]) : Cardinality(RowsOf(h, v)) = 1
    /\ Len(startRows) = Len(seen["HKCU"]) + (IF "HKLM" \in granted THEN Len(seen["HKLM"]) ELSE 0)

\* When the delete handler returns the value is in neither key that could be written,
\* unless another program has put it back, although the handler's box lets others run
\* and its refill changes the globals it works with (CStartUpDialog.cpp, 160 to 180).
DeleteReachesBoth ==
  [][modal = "startbox" /\ modal' = "startup" =>
       \A h \in writable : bootName \in ToSet(registry'[h]) => <<h, bootName>> \in added]_<<shell, startVars>>

=============================================================================
