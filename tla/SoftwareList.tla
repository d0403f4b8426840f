---------------------------- MODULE SoftwareList ----------------------------
(***************************************************************************)
(* The software dialog (CSoftwareUninstallDialog): a row per sub-key of the *)
(* Uninstall key, and a menu that launches the row's uninstall command.     *)
(* The buffers the values are read into are the same for all sub-keys.      *)
(***************************************************************************)
EXTENDS AppShell

CONSTANTS
  Installed,    \* the sub-keys in their order
  HasCommand,   \* those with an UninstallString that fits the buffer
  NoCommand,    \* a blank text
  Garbage       \* what is in the buffer before the first sub-key

ASSUME SoftwareAssumption ==
  /\ Installed \in Seq(ToSet(Installed)) /\ IsInjective(Installed) /\ HasCommand \subseteq ToSet(Installed)
  /\ {NoCommand, Garbage} \cap ToSet(Installed) = {}

VARIABLES
  softRows,   \* the list: sub-key, and whose command is shown
  uniPath,    \* uniPath
  launched    \* the sub-key of the row and the command of the last launch

softVars == <<softRows, uniPath, launched>>

NotLaunched == [of |-> NoCommand, command |-> NoCommand]
SoftInit == softRows = <<>> /\ uniPath = NoCommand /\ launched = NotLaunched

\* The command in the buffer after sub-key i has been read: a value that is missing
\* or too long leaves the one before.
Buffer[i \in 0 .. Len(Installed)] ==
  IF i = 0 THEN Garbage
  ELSE IF Installed[i] \in HasCommand THEN Installed[i] ELSE Buffer[i - 1]

\* Without the Uninstall key there is a box and an empty list.
OpenSoftware ==
  /\ modal = "main" /\ "software" \in tools /\ MoveTo("software")
  /\ \/ softRows' = [i \in DOMAIN Installed |-> [key |-> Installed[i], command |-> Buffer[i]]]
     \/ softRows' = <<>>
  /\ launched' = NotLaunched /\ UNCHANGED uniPath

CloseSoftware ==
  /\ modal = "software" /\ MoveTo("main")
  /\ softRows' = <<>> /\ launched' = NotLaunched /\ UNCHANGED uniPath

RightClickSoftware(r) ==
  /\ modal = "software" /\ modal' = "softmenu" /\ nRow' = r
  /\ uniPath' = GetItemText(softRows, r, "command", NoCommand)
  /\ UNCHANGED <<tools, softRows, launched>>

DismissSoftMenu == modal = "softmenu" /\ MoveTo("software") /\ UNCHANGED softVars

\* ShellExecute, whose result is ignored.
Uninstall ==
  /\ modal = "softmenu" /\ MoveTo("software")
  /\ launched' = [of |-> GetItemText(softRows, nRow, "key", NoCommand), command |-> uniPath]
  /\ UNCHANGED <<softRows, uniPath>>

SoftStep ==
  /\ "software" \in tools
  /\ \/ OpenSoftware \/ CloseSoftware \/ DismissSoftMenu \/ Uninstall
     \/ \E r \in Clickable(softRows) : RightClickSoftware(r)

-----------------------------------------------------------------------------

SoftTypeOK ==
  /\ uniPath \in ToSet(Installed) \cup {NoCommand, Garbage}
  /\ \A i \in DOMAIN softRows : softRows[i].key \in ToSet(Installed)

\* "Uninstall software" (comments, CSoftwareUninstallDialog.cpp, 189 and 198): what is
\* launched from a row is that software's own uninstaller.
OwnUninstaller ==
  launched.of # NoCommand /\ launched.command # NoCommand => launched.command = launched.of

=============================================================================
