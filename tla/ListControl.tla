---------------------------- MODULE ListControl ----------------------------
(***************************************************************************)
(* The Win32 list view as the dialogs of ProcessMangerAlpha use it, through *)
(* CListCtrl::InsertItem, SetItemText and DeleteItem.  Rows are numbered    *)
(* from 0; a list is the sequence of its rows, so row i is list[i + 1].     *)
(* Every call is one message that the thread owning the control handles     *)
(* atomically.                                                              *)
(***************************************************************************)
EXTENDS Integers, Sequences

\* InsertItem(i, ..): a row beyond the end is appended, a negative index is
\* refused (the call returns -1).
InsertItem(list, i, row) ==
  IF i < 0 THEN list
  ELSE LET at == IF i > Len(list) THEN Len(list) ELSE i
       IN [j \in 1 .. Len(list) + 1 |->
             IF j <= at THEN list[j] ELSE IF j = at + 1 THEN row ELSE list[j - 1]]

\* SetItemText(i, column, text): fails, with no effect, on a row that does
\* not exist.
HasRow(list, i) == i \in 0 .. Len(list) - 1

SetItemText(list, i, column, text) ==
  IF HasRow(list, i) THEN [list EXCEPT ![i + 1][column] = text] ELSE list

\* DeleteItem(i): fails, with no effect, on a row that does not exist.
DeleteItem(list, i) ==
  IF HasRow(list, i)
  THEN [j \in 1 .. Len(list) - 1 |-> IF j <= i THEN list[j] ELSE list[j + 1]]
  ELSE list

=============================================================================
