---------------------------- MODULE VirusService ----------------------------
(***************************************************************************)
(* The virus server and the anti-virus dialog together.                     *)
(***************************************************************************)
EXTENDS VirusServer, VirusClient

ASSUME ServiceAssumption ==
  /\ Initial \in Seq(Seq(Bytes))
  /\ MaxStarts \in Nat /\ MaxSends \in Nat
  /\ NoFile \notin Seq(Block \cup {Junk})

vars == <<wireVars, serverVars, clientVars>>

Init == WireInit /\ ServerInit /\ ClientInit

Server == ServerStep /\ UNCHANGED clientVars
Operator == (Start \/ Stop) /\ UNCHANGED clientVars
Client == ClientStep /\ UNCHANGED serverVars
User == UserStep(server # "down") /\ UNCHANGED serverVars

Next == Server \/ Operator \/ Client \/ User

Spec == Init /\ [][Next]_vars

(* The server's loop and the window's handlers run on, and the user answers *)
(* the message boxes of a handler.  Clicks, stops and starts may not come.  *)
FairSpec == Spec /\ WF_vars(Server) /\ WF_vars(Client)

-----------------------------------------------------------------------------

TypeOK == WireType /\ ServerType /\ ClientType

\* The row of an encrypted sample as it was uploaded.
Whole(r) == \E s \in Samples : r = Row(s)

\* The table is small enough for one reply to be received at once, its rows are
\* whole, no recv() ends inside a write and the keys agree.
Tidy ==
  /\ ~Splits /\ SameKey = {TRUE}
  /\ Len(table) * RowLen <= RecvLen
  /\ \A i \in DOMAIN table : Whole(table[i])

\* The samples of the first row: one or none.
First == {s \in Samples : table # <<>> /\ table[1] = Row(s)}

\* However often the user updates, reopens the dialog, restarts the program or the
\* server, the library of a tidy table is the text of the first row, or what zero
\* bytes decrypt to when recv failed (CVirusDefenceDialog.cpp, lines 104 to 146).
FirstRowLearned == Tidy => library \in {NoFile, TextOf(<<>>, TRUE)} \cup {Text(s) : s \in First}

\* What the scans compare with is what the library says, although they never clear
\* what they read and updates replace the file: the two leaks of the code, the vector
\* and the open file, need one another (CAllKillingDialog.cpp, 57 to 62;
\* CVirusDefenceDialog.cpp, 143 to 146).
SignaturesCurrent == learned \subseteq {library}

\* A byte of a request is in the stream to the server.
Asks(c) == \E i \in DOMAIN toServer[c] : toServer[c][i][1] = Update

\* Between two updates of a tidy table nothing is left in a stream of the running
\* program: no request that was not answered, no reply that was not read.
NothingLeft ==
  Tidy /\ dialog # "waiting" =>
    \A c \in Conns \ closed :
      /\ ~Asks(c)
      /\ toClient[c] = <<>>
      /\ conn[c] = "served" => server # "fetch"

\* A place in what was uploaded is the number of an upload and a byte of its message;
\* what is sent later is behind it.
UploadPlaces == (DOMAIN uploads) \X (1 .. UploadLen)
Behind(x, y) == x[1] < y[1] \/ (x[1] = y[1] /\ x[2] < y[2])

\* The row is what an INSERT makes of a piece of that upload's encrypted sample, from
\* the given place on: a recv() that ends early cuts it, one that began inside the
\* sample lets it start there.
PieceOf(r, place) ==
  \E last \in 0 .. RowLen : r \in Inserted(SubSeq(Row(uploads[place[1]]), place[2], last))

\* However recv() cuts messages and runs them together and whatever connections break,
\* every row that was inserted is a piece, perhaps empty, of a sample the user uploaded,
\* the rows are in the order of the uploads, and no place is the start of two rows:
\* nothing is stored twice, although one upload may leave several rows
\* (TheVirusServer.cpp, 96 to 101 and 166 to 175).
TableFromUploads ==
  LET m == Len(table) - Len(Initial)
  IN \E f \in [1 .. m -> UploadPlaces] :
       /\ \A i \in 1 .. m : PieceOf(table[Len(Initial) + i], f[i])
       /\ \A i, j \in 1 .. m : i < j => Behind(f[i], f[j])

\* A request that waits alone on the served connection comes back if the table
\* has something to send: with a reply, or with an error when the server ends.
RequestAlone ==
  /\ dialog = "waiting" /\ conn[sock] = "served" /\ server = "recv"
  /\ toServer[sock] = Message(Update)
  /\ \E i \in DOMAIN table : table[i] # <<>>

AloneReturns == RequestAlone ~> dialog # "waiting"

\* "The update succeeded, the local library is already the latest" (message box,
\* CVirusDefenceDialog.cpp, line 148).
UpToDate ==
  dialog = "updated" =>
    \A i \in DOMAIN table, s \in Samples : table[i] = Row(s) => library = Text(s)

=============================================================================
