---------------------------- MODULE ServiceList ----------------------------
(***************************************************************************)
(* The services dialog (CServListDialog).  The list is read once; a menu    *)
(* on a row starts or stops its service and sets the shown state whatever   *)
(* came of it.  The "pause" command sends a stop.                           *)
(***************************************************************************)
EXTENDS AppShell

CONSTANTS
  Services,     \* the services, a sequence without duplicates
  NoService,    \* a blank name
  Startable,    \* services that may be started: enabled, rights granted
  Stoppable,    \* services that accept a stop
  Unopened      \* services that cannot be opened to read their configuration

ServiceNames == {Services[i] : i \in DOMAIN Services}
NotRunning == {"stopped", "start_pending", "stop_pending", "paused",
               "continue_pending", "pause_pending"}
States == NotRunning \cup {"running"}
NoState == "blank"

ASSUME ServiceAssumption ==
  /\ Services \in Seq(ServiceNames) /\ IsInjective(Services) /\ NoService \notin ServiceNames
  /\ Startable \subseteq ServiceNames /\ Stoppable \subseteq ServiceNames
  /\ Unopened \subseteq ServiceNames

VARIABLES
  svReal,     \* the states of the services
  svRows,     \* the list
  svName,     \* g_strServiceName
  svStatus,   \* g_strServiceStatus
  svMoved     \* services that failed or that others changed since the list was read

servVars == <<svReal, svRows, svName, svStatus, svMoved>>

ServInit ==
  /\ svReal = [s \in ServiceNames |-> "stopped"]
  /\ svRows = <<>> /\ svName = NoService /\ svStatus = NoState /\ svMoved = {}

\* A service goes on by itself.  Others change any service once per reading.
Settles(s) ==
  /\ \/ svReal[s] = "start_pending" /\ svReal' = [svReal EXCEPT ![s] = "running"]
     \/ svReal[s] = "stop_pending" /\ svReal' = [svReal EXCEPT ![s] = "stopped"]
     \/ svReal[s] = "pause_pending" /\ svReal' = [svReal EXCEPT ![s] = "paused"]
     \/ svReal[s] = "continue_pending" /\ svReal' = [svReal EXCEPT ![s] = "running"]
  /\ UNCHANGED <<shell, svRows, svName, svStatus, svMoved>>

Others(s, state) ==
  /\ modal # "main" /\ s \notin svMoved
  /\ svReal' = [svReal EXCEPT ![s] = state] /\ svMoved' = svMoved \cup {s}
  /\ UNCHANGED <<shell, svRows, svName, svStatus>>

\* The services are in any state by then.  Without rights on the service manager the
\* list stays empty.  A service that does not open has no configuration: a buffer of
\* no bytes is read.
OpenServices ==
  /\ modal = "main" /\ "services" \in tools
  /\ svReal' \in [ServiceNames -> States]
  /\ \/ svRows' = [i \in DOMAIN Services |-> [name |-> Services[i], shown |-> svReal'[Services[i]]]]
        /\ MoveTo("services")
     \/ svRows' = <<>> /\ MoveTo("services")
     \/ svRows' = <<>> /\ Unopened # {} /\ MoveTo("ended")
  /\ svMoved' = {} /\ UNCHANGED <<svName, svStatus>>

CloseServices ==
  /\ modal = "services" /\ MoveTo("main")
  /\ svRows' = <<>> /\ svMoved' = {} /\ UNCHANGED <<svReal, svName, svStatus>>

\* Mutant of RightClickService: the name is only taken when there is none yet.
RightClickServiceKeeps(r) ==
  /\ modal = "services" /\ modal' = "servicemenu" /\ nRow' = r
  /\ svName' = IF svName = NoService THEN GetItemText(svRows, r, "name", NoService) ELSE svName
  /\ svStatus' = GetItemText(svRows, r, "shown", NoState)
  /\ UNCHANGED <<tools, svReal, svRows, svMoved>>

RightClickService(r) ==
  /\ modal = "services" /\ modal' = "servicemenu" /\ nRow' = r
  /\ svName' = GetItemText(svRows, r, "name", NoService)
  /\ svStatus' = GetItemText(svRows, r, "shown", NoState)
  /\ UNCHANGED <<tools, svReal, svRows, svMoved>>

DismissServiceMenu == modal = "servicemenu" /\ MoveTo("services") /\ UNCHANGED servVars

\* A command on the named service: from the states it works in to the next one; a
\* failure is told nobody.
Command(able, from, to) ==
  IF svName \in able /\ svReal[svName] \in from
  THEN svReal' = [svReal EXCEPT ![svName] = to] /\ UNCHANGED svMoved
  ELSE UNCHANGED svReal /\ svMoved' = svMoved \cup ({svName} \cap ServiceNames)

\* Only one item of the menu is enabled: start unless the row says running.
StartService ==
  /\ modal = "servicemenu" /\ svStatus \in NotRunning /\ MoveTo("services")
  /\ Command(Startable, {"stopped"}, "start_pending")
  /\ svRows' = SetItemText(svRows, nRow, "shown", "running")
  /\ UNCHANGED <<svName, svStatus>>

PauseService ==
  /\ modal = "servicemenu" /\ svStatus \notin NotRunning /\ MoveTo("services")
  /\ Command(Stoppable, {"running", "paused"}, "stop_pending")
  /\ svRows' = SetItemText(svRows, nRow, "shown", "paused")
  /\ UNCHANGED <<svName, svStatus>>

ServStep ==
  /\ "services" \in tools
  /\ \/ \E s \in ServiceNames : Settles(s) \/ \E state \in {"stopped", "paused", "running"} : Others(s, state)
     \/ OpenServices \/ CloseServices \/ DismissServiceMenu \/ StartService \/ PauseService
     \/ \E r \in Clickable(svRows) : RightClickService(r)

-----------------------------------------------------------------------------
(* Properties.                                                              *)

ServTypeOK ==
  /\ svReal \in [ServiceNames -> States] /\ svMoved \subseteq ServiceNames
  /\ svName \in ServiceNames \cup {NoService} /\ svStatus \in States \cup {NoState}
  /\ \A i \in DOMAIN svRows : svRows[i] \in [name : ServiceNames, shown : States]

\* The states a service can be in behind a shown state: commands take a while, and
\* what the program calls paused is stopped.
Behind(shown) ==
  CASE shown = "running" -> {"running", "start_pending"}
    [] shown = "paused" -> {"paused", "stop_pending", "stopped"}
    [] shown = "start_pending" -> {"start_pending", "running"}
    [] shown = "stop_pending" -> {"stop_pending", "stopped"}
    [] shown = "pause_pending" -> {"pause_pending", "paused"}
    [] shown = "continue_pending" -> {"continue_pending", "running"}
    [] OTHER -> {shown}

\* Every row shows a state its service can be in, through commands on this and other
\* rows, as long as no command on the service failed and nobody else changed it
\* (CServListDialog.cpp, 211 to 256): name and row of the two globals go together.
ShownAgrees ==
  \A i \in DOMAIN svRows :
    svRows[i].name \notin svMoved => svReal[svRows[i].name] \in Behind(svRows[i].shown)

=============================================================================
