---------------------------- MODULE VirusClient ----------------------------
(***************************************************************************)
(* The anti-virus dialog (CVirusDefenceDialog) as a client of the virus     *)
(* server.  Every opening of the dialog makes a socket and connects it; the *)
(* results of connect, send and recv are ignored.  Sending and receiving    *)
(* happen on the window's thread, so a handler that waits for the server    *)
(* stops the whole program.  Message boxes end a step of a handler.  The    *)
(* scans the dialog opens read the library and keep its file open.          *)
(***************************************************************************)
EXTENDS SampleWire

CONSTANTS
  NoFile,      \* TheVirus.txt was not written yet
  MaxSends     \* bound: messages the client sends

VARIABLES
  dialog,    \* "closed", "idle", "waiting" (in recv), "decrypting" (first box),
             \* "updated" (box of success), "uploaded" (box of success)
  sock,      \* the global ConnectSocket
  inBuf,     \* what recv returned
  library,   \* the line of TheVirus.txt
  held,      \* a scan has TheVirus.txt open
  learned,   \* localVirusVt and localbyVirusVt, as a set
  uploads,   \* samples reported as uploaded
  sends

clientVars == <<dialog, sock, inBuf, library, held, learned, uploads, sends>>
fileVars == <<library, held, learned>>

ClientType ==
  /\ dialog \in {"closed", "idle", "waiting", "decrypting", "updated", "uploaded"}
  /\ sock \in Conns \cup {NoConn}
  /\ inBuf \in Seq(Bytes)
  /\ library = NoFile \/ library \in Seq(Block \cup {Junk})
  /\ held \in BOOLEAN /\ NoFile \notin learned
  /\ uploads \in Seq(Samples)
  /\ sends \in 0 .. MaxSends

ClientInit ==
  /\ dialog = "closed" /\ sock = NoConn /\ inBuf = <<>> /\ library = NoFile
  /\ held = FALSE /\ learned = {} /\ uploads = <<>> /\ sends = 0

Unused == {c \in Conns : conn[c] = "unused"}

\* OnInitDialog: a new socket replaces the old one, which stays open.  A connection
\* the server's backlog cannot hold is refused.
OpenDialog(listening) ==
  /\ dialog = "closed" /\ Unused # {}
  /\ LET c == CHOOSE d \in Unused : \A e \in Unused : d <= e
         queued == Cardinality({d \in Conns : conn[d] = "queued"})
     IN /\ sock' = c
        /\ conn' = [conn EXCEPT ![c] =
                      IF listening /\ queued < Backlog THEN "queued" ELSE "broken"]
  /\ dialog' = "idle"
  /\ UNCHANGED <<inBuf, fileVars, uploads, sends, toServer, toClient, closed>>

CloseDialog ==
  /\ dialog = "idle" /\ dialog' = "closed"
  /\ UNCHANGED <<sock, inBuf, fileVars, uploads, sends, wireVars>>

\* The program ends, which closes its sockets and files, and is started again.
Ends ==
  /\ dialog' = "closed" /\ sock' = NoConn /\ inBuf' = <<>>
  /\ closed' = {c \in Conns : conn[c] # "unused"}
  /\ toClient' = [c \in Conns |-> <<>>]
  /\ held' = FALSE /\ learned' = {}
  /\ UNCHANGED <<library, uploads, sends, conn, toServer>>

Restart == sock # NoConn /\ Unused # {} /\ Ends

\* Mutant of OpenScan: the scan closes the library after reading it.
OpenScanCloses ==
  /\ dialog = "idle"
  /\ IF library = NoFile THEN Ends
     ELSE /\ learned' = learned \cup {library}
          /\ UNCHANGED <<dialog, sock, inBuf, library, held, uploads, sends, wireVars>>

\* OnInitDialog of a scan: a missing file ends the program in feof; otherwise its text
\* is added to what earlier scans have read, and the file stays open.
OpenScan ==
  /\ dialog = "idle"
  /\ IF library = NoFile THEN Ends
     ELSE /\ held' = TRUE /\ learned' = learned \cup {library}
          /\ UNCHANGED <<dialog, sock, inBuf, library, uploads, sends, wireVars>>

Connected == conn[sock] \in {"queued", "served"}

Send(head) ==
  /\ sends < MaxSends /\ sends' = sends + 1
  /\ toServer' =
       IF Connected THEN [toServer EXCEPT ![sock] = @ \o Message(head)] ELSE toServer

\* OnBnClickedButton4: send the request, then wait in recv.
ClickUpdate ==
  /\ dialog = "idle"
  /\ Send(Update)
  /\ dialog' = "waiting"
  /\ UNCHANGED <<sock, inBuf, fileVars, uploads, conn, toClient, closed>>

\* Mutant of Receive: the buffer has room for one block less than two rows.
ReceiveLess ==
  /\ dialog = "waiting" /\ Connected /\ toClient[sock] # <<>>
  /\ LET here == Len(toClient[sock])
         most == IF here < 2 * RowLen THEN here ELSE 2 * RowLen - 1
     IN /\ inBuf' = SubSeq(toClient[sock], 1, most)
        /\ toClient' = [toClient EXCEPT ![sock] = Drop(@, most)]
  /\ dialog' = "decrypting"
  /\ UNCHANGED <<sock, fileVars, uploads, sends, conn, toServer, closed>>

\* recv returns what is there, up to 200 bytes.
Receive ==
  /\ dialog = "waiting" /\ Connected /\ toClient[sock] # <<>>
  /\ LET here == Len(toClient[sock])
         most == IF here < RecvLen THEN here ELSE RecvLen
     IN \E n \in IF Splits THEN 1 .. most ELSE {most} :
          /\ inBuf' = SubSeq(toClient[sock], 1, n)
          /\ toClient' = [toClient EXCEPT ![sock] = Drop(@, n)]
  /\ dialog' = "decrypting"
  /\ UNCHANGED <<sock, fileVars, uploads, sends, conn, toServer, closed>>

\* recv fails; the buffer stays zero.
ReceiveFails ==
  /\ dialog = "waiting" /\ ~Connected
  /\ inBuf' = <<>>
  /\ dialog' = "decrypting"
  /\ UNCHANGED <<sock, fileVars, uploads, sends, wireVars>>

\* The first box is answered: decrypt, replace the library by one line.  A file that
\* is open already does not open for writing, and fprintf ends the program.
WriteLibrary ==
  /\ dialog = "decrypting"
  /\ IF held THEN Ends
     ELSE /\ \E same \in SameKey : library' = TextOf(inBuf, same)
          /\ dialog' = "updated"
          /\ UNCHANGED <<sock, inBuf, held, learned, uploads, sends, wireVars>>

\* OnBnClickedButton3 for a file that can be read (for any other the allocation of
\* the buffer fails and the handler is abandoned): encrypt its hash and send it.
ClickUpload(s) ==
  /\ dialog = "idle"
  /\ Send(Payload(s))
  /\ uploads' = Append(uploads, s)
  /\ dialog' = "uploaded"
  /\ UNCHANGED <<sock, inBuf, fileVars, conn, toClient, closed>>

\* The box of success is answered.
Dismiss ==
  /\ dialog \in {"updated", "uploaded"}
  /\ dialog' = "idle" /\ inBuf' = <<>>
  /\ UNCHANGED <<sock, fileVars, uploads, sends, wireVars>>

ClientStep == Receive \/ ReceiveFails \/ WriteLibrary \/ Dismiss

UserStep(listening) ==
  \/ OpenDialog(listening) \/ CloseDialog \/ Restart \/ OpenScan
  \/ ClickUpdate \/ \E s \in Samples : ClickUpload(s)

=============================================================================
