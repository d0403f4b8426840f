------------------------------ MODULE AppShell ------------------------------
(***************************************************************************)
(* What the tools of ProcessMangerAlpha share: one thread of windows with   *)
(* modal dialogs, of which only the one in front takes input, and the       *)
(* global nRow, the row of the last right click in any of four lists.       *)
(***************************************************************************)
EXTENDS ListControl, FiniteSets, SequencesExt

CONSTANT Sessions   \* bound: the sets of tools used in one run of the program

VARIABLES
  tools,   \* the tools of this run
  modal,   \* what is in front: "main", a dialog, a menu or a box; "ended"
  nRow

shell == <<tools, modal, nRow>>

AppInit == tools \in Sessions /\ modal = "main" /\ nRow = 0

\* Rows a click can name: -1 is a click below the rows.
Clickable(list) == -1 .. Len(list) - 1

\* The text of a row; the blank text when there is no such row.
GetItemText(list, i, column, blank) == IF HasRow(list, i) THEN list[i + 1][column] ELSE blank

MoveTo(dialog) == modal' = dialog /\ UNCHANGED <<tools, nRow>>

=============================================================================
