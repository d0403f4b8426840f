----------------------------- MODULE DevicePath -----------------------------
(***************************************************************************)
(* The path the process list shows (getProcFullPath and DosPath2NTPath of   *)
(* ProcessMangerAlphaDlg).  The system gives a path that begins with the    *)
(* name of a device; the drives are asked for the names of theirs, and the  *)
(* first whose name begins the path takes its place.  Names and paths are   *)
(* sequences of characters, upper and lower case being one.                 *)
(***************************************************************************)
EXTENDS Integers, Sequences, SequencesExt

CONSTANTS
  Drives,     \* the letters in use, in their order
  Floppies,   \* "A:" and "B:"
  Device,     \* the name of a drive's device
  NoDevice    \* a drive whose name is not told

NotShown == [drive |-> NoDevice, rest |-> <<>>]
Names(i) == Device[Drives[i]]
Asked == {i \in DOMAIN Drives : Drives[i] \notin Floppies}

\* The drives at which the loop ends.
Ending(path) == {i \in Asked : Names(i) = NoDevice \/ IsPrefix(Names(i), path)}

\* The path with the drive for the device; without one the row says "no permission".
DosPath2NTPath(path) ==
  LET ends == Ending(path)
      i == CHOOSE k \in ends : \A j \in ends : k <= j
  IN IF ends = {} \/ Names(i) = NoDevice THEN NotShown
     ELSE [drive |-> Drives[i], rest |-> SubSeq(path, Len(Names(i)) + 1, Len(path))]

=============================================================================
