----------------------------- MODULE ScanReport -----------------------------
(***************************************************************************)
(* What a scan promises its user: while its window is shown, findings are   *)
(* added to the report one at a time, each complete (the file with its own  *)
(* hash) and each once; nothing that was shown changes or disappears until  *)
(* the window closes, and then the report is gone.                          *)
(***************************************************************************)
EXTENDS Sequences

CONSTANT Findings  \* the rows (a file with its hash) that a scan may report

VARIABLES visible, shown

vars == <<visible, shown>>

Init == visible = FALSE /\ shown = <<>>

Show == ~visible /\ visible' = TRUE /\ shown' = <<>>

Report ==
  /\ visible
  /\ \E r \in Findings :
       /\ \A i \in DOMAIN shown : shown[i] # r
       /\ shown' = Append(shown, r)
  /\ UNCHANGED visible

Hide == visible /\ visible' = FALSE /\ shown' = <<>>

Next == Show \/ Report \/ Hide

Spec == Init /\ [][Next]_vars
=============================================================================
