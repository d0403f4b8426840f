----------------------------- MODULE FolderWalk -----------------------------
(***************************************************************************)
(* A folder walked by recursion over FindFirstFile and FindNextFile, written *)
(* out in the order of the walk: its files, In and Out around a sub-folder, *)
(* and Denied for a folder that cannot be listed.                           *)
(***************************************************************************)
EXTENDS AppShell

CONSTANTS In, Out, Denied

Marks == {In, Out, Denied}

ASSUME MarksAssumption == In # Out /\ Denied \notin {In, Out}

\* Folders entered less folders left in the first k steps of a walk.
Depth(walk, k) ==
  Cardinality({j \in 1 .. k : walk[j] = In}) - Cardinality({j \in 1 .. k : walk[j] = Out})

\* A walk leaves only folders it has entered and comes by no file twice.
IsWalk(walk) ==
  /\ walk \in Seq({walk[k] : k \in DOMAIN walk})
  /\ \A k \in DOMAIN walk : Depth(walk, k) >= 0
  /\ \A k, l \in DOMAIN walk : walk[k] = walk[l] => k = l \/ walk[k] \in Marks

=============================================================================
