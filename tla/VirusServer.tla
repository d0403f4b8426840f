---------------------------- MODULE VirusServer ----------------------------
(***************************************************************************)
(* The virus server (TheVirusServer.cpp): it accepts one connection for its *)
(* whole life and then receives and answers in a loop.  Whatever one recv() *)
(* returns is taken for one message, its first bytes for the type.  An      *)
(* update is answered with the rows of the sample table, put together in a  *)
(* buffer of fixed size; the text of a payload, as much of it as the recv() *)
(* returned, is inserted into the table.                                    *)
(***************************************************************************)
EXTENDS SampleWire

CONSTANTS
  Initial,   \* rows of the table when the model starts
  MaxStarts  \* bound: how often the server is started

VARIABLES
  table,   \* rows of sampletable; the database outlives the server
  server,  \* "down", "accept", "recv" or "fetch"
  result,  \* doUpdateVirus: the buffer the rows are put into
  row,     \* doUpdateVirus: the next row
  starts

serverVars == <<table, server, result, row, starts>>

ServerType ==
  /\ table \in Seq(Seq(Bytes))
  /\ server \in {"down", "accept", "recv", "fetch"}
  /\ result \in Seq(Bytes)
  /\ row \in Nat \ {0}
  /\ starts \in 0 .. MaxStarts

ServerInit ==
  /\ table = Initial
  /\ server = "down" /\ result = <<>> /\ row = 1 /\ starts = 0

Start ==
  /\ server = "down" /\ starts < MaxStarts
  /\ server' = "accept" /\ starts' = starts + 1
  /\ UNCHANGED <<table, result, row, wireVars>>

\* The process ends: every connection to it breaks.
End ==
  /\ server' = "down" /\ result' = <<>> /\ row' = 1
  /\ conn' = [c \in Conns |-> IF conn[c] \in {"queued", "served"} THEN "broken" ELSE conn[c]]
  /\ toServer' = [c \in Conns |-> <<>>] /\ toClient' = [c \in Conns |-> <<>>]
  /\ UNCHANGED <<table, starts, closed>>

\* Somebody stops the server.
Stop == server # "down" /\ End

\* accept() is called once; it takes the connection that has waited longest.
Accept ==
  /\ server = "accept"
  /\ \E c \in Conns :
       /\ conn[c] = "queued" /\ \A d \in Conns : conn[d] = "queued" => c <= d
       /\ conn' = [conn EXCEPT ![c] = "served"]
  /\ server' = "recv"
  /\ UNCHANGED <<table, result, row, starts, toServer, toClient, closed>>

Serving(c) == server = "recv" /\ conn[c] = "served"

\* One recv(): some of what has arrived, as far as the buffer goes, and never a part
\* of a write unless it may be split.
Receivable(c) ==
  {n \in 1 .. Len(toServer[c]) :
     n <= ServerRecv /\ (Splits \/ toServer[c][n][2] = Size(toServer[c][n][1]))}

Chunk(c, n) == SubSeq(toServer[c], 1, n)

\* The received bytes are consumed whatever they are.
Received(c, n) == toServer' = [toServer EXCEPT ![c] = Drop(@, n)]

\* The type is the first word of the chunk, wherever in a message that lies; what was
\* not received of it is zero.
OfUpdate(chunk) == \A i \in DOMAIN chunk : i <= WordLen => IsZero(chunk[i])
OfPayload(chunk) ==
  /\ chunk # <<>>
  /\ \A i \in DOMAIN chunk : i <= WordLen => IF i = 1 THEN IsOne(chunk[i]) ELSE IsZero(chunk[i])

\* The C string behind the type ends before the first zero or with the chunk.
TextEnds(chunk) ==
  {n \in WordLen .. WordLen + Len(chunk) :
     /\ \A i \in WordLen + 1 .. n : i \in DOMAIN chunk /\ ~IsZero(chunk[i])
     /\ n + 1 \in DOMAIN chunk => IsZero(chunk[n + 1])}

\* In the string of the INSERT a backslash that is not escaped itself escapes the byte
\* behind it.
Escapes(text, i) ==
  \E run \in 0 .. i - 1 :
    /\ run % 2 = 0 /\ \A j \in i - run .. i : text[j] \in Backslashes
    /\ i - run = 1 \/ text[i - run - 1] \notin Backslashes

\* What MySQL makes of the text: the row without the escaping backslashes, or nothing if
\* the last one escapes the closing quote.
Kept(text) == {i \in DOMAIN text : ~Escapes(text, i)}
Places(text) ==
  {f \in [1 .. Cardinality(Kept(text)) -> Kept(text)] :
     \A i, j \in DOMAIN f : i < j => f[i] < f[j]}
Inserted(text) ==
  IF \A i \in DOMAIN text : text[i] \notin Backslashes THEN {text}
  ELSE IF Escapes(text, Len(text)) THEN {}
  ELSE {[i \in DOMAIN f |-> text[f[i]]] : f \in Places(text)}

\* The row an INSERT of the chunk's text may leave.
Rows(chunk) ==
  UNION {Inserted(SubSeq(chunk, WordLen + 1, last)) : last \in TextEnds(chunk)}

RecvUpdate(c) ==
  /\ Serving(c)
  /\ \E n \in Receivable(c) : OfUpdate(Chunk(c, n)) /\ Received(c, n)
  /\ server' = "fetch" /\ result' = <<>> /\ row' = 1
  /\ UNCHANGED <<table, starts, conn, toClient, closed>>

\* Mutant of RecvPayload: the text runs on behind what was received.
RecvPayloadPast(c) ==
  /\ Serving(c)
  /\ \E n \in Receivable(c) :
       LET end == toServer[c][n]
       IN /\ OfPayload(Chunk(c, n)) /\ Received(c, n)
          /\ \E r \in Rows(Chunk(c, n)) :
               table' = Append(table, Append(r, <<end[1], end[2] + 1>>))
  /\ UNCHANGED <<server, result, row, starts, conn, toClient, closed>>

\* Mutant of RecvPayload: what was received is read again.
RecvPayloadPeeks(c) ==
  /\ Serving(c) /\ Len(table) < 4
  /\ \E n \in Receivable(c) :
       /\ OfPayload(Chunk(c, n))
       /\ \E r \in Rows(Chunk(c, n)) : table' = Append(table, r)
  /\ UNCHANGED <<server, result, row, starts, wireVars>>

\* The result of the INSERT is ignored; any text may be refused, for a quote or a byte
\* that is no character.
RecvPayload(c) ==
  /\ Serving(c)
  /\ \E n \in Receivable(c) :
       /\ OfPayload(Chunk(c, n)) /\ Received(c, n)
       /\ \/ UNCHANGED table
          \/ \E r \in Rows(Chunk(c, n)) : table' = Append(table, r)
  /\ UNCHANGED <<server, result, row, starts, conn, toClient, closed>>

\* A chunk of another type is consumed, and the loop goes on.
RecvOther(c) ==
  /\ Serving(c)
  /\ \E n \in Receivable(c) :
       ~OfUpdate(Chunk(c, n)) /\ ~OfPayload(Chunk(c, n)) /\ Received(c, n)
  /\ UNCHANGED <<table, server, result, row, starts, conn, toClient, closed>>

\* The peer has gone: recv() returns at once, the zeroed buffer reads as an
\* update.
RecvNothing(c) ==
  /\ Serving(c) /\ c \in closed /\ toServer[c] = <<>>
  /\ server' = "fetch" /\ result' = <<>> /\ row' = 1
  /\ UNCHANGED <<table, starts, wireVars>>

\* Mutant of FetchRow: a row is put before the others.
FetchRowInFront ==
  /\ server = "fetch" /\ row <= Len(table)
  /\ IF Len(result) + Len(table[row]) <= ReplyCap
     THEN /\ result' = table[row] \o result
          /\ row' = row + 1
          /\ UNCHANGED <<table, server, starts, wireVars>>
     ELSE End

\* strcat_s ends the process when the row does not fit.
FetchRow ==
  /\ server = "fetch" /\ row <= Len(table)
  /\ IF Len(result) + Len(table[row]) <= ReplyCap
     THEN /\ result' = result \o table[row]
          /\ row' = row + 1
          /\ UNCHANGED <<table, server, starts, wireVars>>
     ELSE End

\* Mutant of SendReply: the reply goes to the connections that wait.
SendReplyToQueued(c) ==
  /\ server = "fetch" /\ conn[c] = "served" /\ row > Len(table)
  /\ toClient' = [d \in Conns |-> IF conn[d] = "queued" THEN toClient[d] \o result
                                                       ELSE toClient[d]]
  /\ server' = "recv" /\ result' = <<>> /\ row' = 1
  /\ UNCHANGED <<table, starts, conn, toServer, closed>>

\* send(): an empty table sends nothing, a closed peer receives nothing.
SendReply(c) ==
  /\ server = "fetch" /\ conn[c] = "served" /\ row > Len(table)
  /\ toClient' = [toClient EXCEPT ![c] = IF c \in closed THEN @ ELSE @ \o result]
  /\ server' = "recv" /\ result' = <<>> /\ row' = 1
  /\ UNCHANGED <<table, starts, conn, toServer, closed>>

ServerStep ==
  \/ Accept \/ FetchRow
  \/ \E c \in Conns : RecvUpdate(c) \/ RecvPayload(c) \/ RecvOther(c) \/ RecvNothing(c) \/ SendReply(c)

ServerNext == Start \/ Stop \/ ServerStep

=============================================================================
