------------------------- MODULE VirusServiceProofs -------------------------
(***************************************************************************)
(* Proofs about the virus server and the anti-virus dialog, for any table,  *)
(* samples, sizes and number of connections, starts and messages.           *)
(***************************************************************************)
EXTENDS VirusService, ListControlProofs, FiniteSetTheorems, SequenceTheorems

-----------------------------------------------------------------------------
(* Lemmas about sequences.                                                  *)

\* What is left of a stream behind its first n parts.
LEMMA DropFacts ==
  ASSUME NEW S, NEW s \in Seq(S), NEW n \in 1 .. Len(s)
  PROVE  /\ Drop(s, n) \in Seq(S)
         /\ Len(Drop(s, n)) = Len(s) - n
         /\ \A i \in 1 .. Len(s) - n : Drop(s, n)[i] = s[n + i]
BY DEF Drop

LEMMA ConcatFacts ==
  ASSUME NEW S, NEW s \in Seq(S), NEW m \in Seq(S)
  PROVE  /\ s \o m \in Seq(S) /\ Len(s \o m) = Len(s) + Len(m)
         /\ \A i \in 1 .. Len(s) : (s \o m)[i] = s[i]
         /\ \A i \in 1 .. Len(m) : (s \o m)[Len(s) + i] = m[i]
<1> DEFINE t == s \o m
<1>1. /\ t \in Seq(S) /\ Len(t) = Len(s) + Len(m)
      /\ \A i \in 1 .. Len(s) + Len(m) : t[i] = IF i <= Len(s) THEN s[i] ELSE m[i - Len(s)]
  BY ConcatProperties, Zenon
<1>2. Len(s) \in Nat /\ Len(m) \in Nat
  OBVIOUS
<1> HIDE DEF t
<1>3. \A i \in 1 .. Len(m) : t[Len(s) + i] = m[i]
  <2> SUFFICES ASSUME NEW i \in 1 .. Len(m) PROVE t[Len(s) + i] = m[i]
    OBVIOUS
  <2>1. Len(s) + i \in 1 .. Len(s) + Len(m) /\ ~(Len(s) + i <= Len(s)) /\ Len(s) + i - Len(s) = i
    BY <1>2
  <2>. QED
    BY <1>1, <2>1
<1>4. \A i \in 1 .. Len(s) : t[i] = s[i]
  BY <1>1, <1>2
<1>. QED
  BY <1>1, <1>3, <1>4 DEF t

-----------------------------------------------------------------------------
(* Lemmas about messages and rows.                                          *)

\* A row has at least one byte for each of its blocks.
LEMMA RowLenFacts == RowLen \in Nat /\ RowLen > 2
<1>1. RowBlocks \in Nat /\ RowBlocks > 2 /\ BlockLen \in Nat /\ BlockLen >= 1
  BY WireAssumption
<1>2. \A a, b, r \in Nat : a <= b => r * a <= r * b
  OBVIOUS
<1>3. RowBlocks * 1 <= RowBlocks * BlockLen
  BY <1>1, <1>2
<1>4. RowBlocks * BlockLen \in Nat
  BY <1>1
<1>. QED
  BY <1>1, <1>3, <1>4 DEF RowLen

LEMMA SizeFacts ==
  ASSUME NEW head
  PROVE  Size(head) \in Nat \ {0}
BY WireAssumption, RowLenFacts DEF Size

LEMMA ByteFacts ==
  ASSUME NEW x \in Bytes
  PROVE  x[1] \in Heads /\ x[2] \in 1 .. Size(x[1]) /\ x = <<x[1], x[2]>>
BY DEF Bytes

LEMMA MessageType ==
  ASSUME NEW head \in Heads
  PROVE  /\ Message(head) \in Seq(Bytes) /\ Len(Message(head)) = Size(head)
         /\ \A i \in 1 .. Size(head) : Message(head)[i] = <<head, i>>
<1>1. Size(head) \in Nat \ {0}
  BY SizeFacts
<1>2. \A i \in 1 .. Size(head) : <<head, i>> \in Bytes
  BY <1>1 DEF Bytes
<1>. QED
  BY <1>1, <1>2 DEF Message

LEMMA RowType ==
  ASSUME NEW s \in Samples
  PROVE  /\ Row(s) \in Seq(Bytes) /\ Len(Row(s)) = RowLen
         /\ \A k \in 1 .. RowLen : Row(s)[k] = <<Payload(s), WordLen + k>>
<1>1. RowLen \in Nat /\ WordLen \in Nat /\ UploadLen \in Nat /\ UploadLen >= RowLen + WordLen
  BY RowLenFacts, WireAssumption
<1>2. Size(Payload(s)) = UploadLen /\ Payload(s) \in Heads
  BY DEF Size, Payload, Update, Heads
<1>3. \A k \in 1 .. RowLen : <<Payload(s), WordLen + k>> \in Bytes
  BY <1>1, <1>2 DEF Bytes
<1>. QED
  BY <1>1, <1>3 DEF Row, CipherByte

\* What an INSERT stores is made of the bytes of its text.
LEMMA InsertedType ==
  ASSUME NEW text \in Seq(Bytes)
  PROVE  Inserted(text) \subseteq Seq(Bytes)
<1> DEFINE n == Cardinality(Kept(text))
<1>1. IsFiniteSet(Kept(text))
  <2>1. Len(text) \in Nat /\ Kept(text) \subseteq 1 .. Len(text)
    BY DEF Kept
  <2>2. IsFiniteSet(1 .. Len(text))
    BY <2>1, FS_Interval
  <2>. QED
    BY <2>1, <2>2, FS_Subset, Zenon
<1>2. n \in Nat
  BY <1>1, FS_CardinalityType
<1> HIDE DEF n
<1>3. ASSUME NEW f \in [1 .. n -> Kept(text)]
      PROVE  [i \in DOMAIN f |-> text[f[i]]] \in Seq(Bytes)
  <2>1. \A i \in 1 .. n : text[f[i]] \in Bytes
    BY DEF Kept
  <2>. QED
    BY <1>2, <2>1
<1>4. \A f \in Places(text) : f \in [1 .. n -> Kept(text)]
  BY DEF Places, n
<1>. QED
  BY <1>3, <1>4 DEF Inserted

LEMMA RowsType ==
  ASSUME NEW chunk \in Seq(Bytes)
  PROVE  Rows(chunk) \subseteq Seq(Bytes)
<1>1. ASSUME NEW last \in TextEnds(chunk)
      PROVE  SubSeq(chunk, WordLen + 1, last) \in Seq(Bytes)
  <2>1. WordLen \in Nat /\ Len(chunk) \in Nat /\ last \in WordLen .. WordLen + Len(chunk)
    BY WireAssumption DEF TextEnds
  <2>2. \A i \in WordLen + 1 .. last : i \in 1 .. Len(chunk)
    BY DEF TextEnds
  <2>. QED
    BY <2>1, <2>2, SubSeqProperties
<1>. QED
  BY <1>1, InsertedType DEF Rows

-----------------------------------------------------------------------------
(* The type invariant.                                                      *)

\* A decrypted buffer has a text: the blocks before its first NUL block.
LEMMA TextLengthFacts ==
  ASSUME NEW blocks
  PROVE  /\ TextLength(blocks) \in 0 .. DecryptOut
         /\ Before(TextLength(blocks), blocks)
         /\ \/ TextLength(blocks) = DecryptOut
            \/ IsNul(blocks[TextLength(blocks) + 1])
<1> DEFINE Last(n) == n = DecryptOut \/ IsNul(blocks[n + 1])
           T == {n \in 0 .. DecryptOut : Last(n)}
<1>1. DecryptOut \in Nat
  BY WireAssumption
<1>2. T \in SUBSET Nat /\ DecryptOut \in T
  BY <1>1
<1>3. PICK n \in T : \A m \in T : n <= m
  BY <1>2, LeastNumber, Zenon
<1>4. Before(n, blocks)
  <2> SUFFICES ASSUME NEW b \in 1 .. n, IsNul(blocks[b]) PROVE FALSE
    BY DEF Before
  <2>1. b - 1 \in 0 .. DecryptOut /\ (b - 1) + 1 = b /\ ~(n <= b - 1)
    BY <1>1
  <2>2. b - 1 \in T
    BY <2>1
  <2>. QED
    BY <1>3, <2>1, <2>2
<1>5. \E n_1 \in 0 .. DecryptOut : Before(n_1, blocks) /\ Last(n_1)
  BY <1>4
<1>. QED
  BY <1>5 DEF TextLength

LEMMA PlainType ==
  ASSUME NEW buffer, NEW b
  PROVE  Plain(buffer, b) \in Block \cup {Junk}
<1>1. CASE \E block \in Block : Holds(buffer, b, block)
  <2>1. (CHOOSE block \in Block : Holds(buffer, b, block)) \in Block
    BY <1>1
  <2>. QED
    BY <1>1, <2>1 DEF Plain
<1>. QED
  BY <1>1 DEF Plain

LEMMA TextOfType ==
  ASSUME NEW buffer \in Seq(Bytes), NEW same \in BOOLEAN
  PROVE  TextOf(buffer, same) \in Seq(Block \cup {Junk})
<1> DEFINE blocks == Decrypted(buffer, same)
           n == TextLength(blocks)
<1>1. DecryptOut \in Nat
  BY WireAssumption
<1>2. n \in 0 .. DecryptOut
  BY TextLengthFacts
<1>3. blocks \in Seq(Block \cup {Junk}) /\ Len(blocks) = DecryptOut
  BY <1>1, PlainType DEF Decrypted
<1> HIDE DEF n, blocks
<1>4. SubSeq(blocks, 1, n) \in Seq(Block \cup {Junk})
  BY <1>1, <1>2, <1>3
<1>. QED
  BY <1>4 DEF TextOf, blocks, n

\* A dialog that is open has a socket.
Attached == dialog # "closed" => sock \in Conns

\* The socket the dialog makes is the first unused one.
NextConn == CHOOSE d \in Unused : \A e \in Unused : d <= e

LEMMA NextConnUnused ==
  ASSUME Unused # {}
  PROVE  NextConn \in Conns /\ conn[NextConn] = "unused"
<1>1. Unused \in SUBSET Nat /\ Unused \subseteq Conns
  BY WireAssumption DEF Unused, Conns
<1>2. \E d \in Unused : \A e \in Unused : d <= e
  BY <1>1, LeastNumber, Zenon
<1>3. NextConn \in Unused
  BY <1>2 DEF NextConn
<1>. QED
  BY <1>1, <1>3 DEF Unused

LEMMA EndType ==
  ASSUME TypeOK, End
  PROVE  WireType' /\ ServerType'
BY ServiceAssumption DEF TypeOK, WireType, ServerType, End

LEMMA EndsType ==
  ASSUME TypeOK, Ends
  PROVE  WireType' /\ ClientType'
<1>1. toClient' \in [Conns -> Seq(Bytes)] /\ inBuf' \in Seq(Bytes)
  BY DEF Ends
<1>2. closed' \subseteq Conns
  BY DEF Ends
<1>3. WireType'
  BY <1>1, <1>2 DEF TypeOK, WireType, Ends
<1>4. library' = NoFile \/ library' \in Seq(Block \cup {Junk})
  BY DEF TypeOK, ClientType, Ends
<1>5. NoFile \notin learned' /\ held' \in BOOLEAN
  BY DEF Ends
<1>6. uploads' \in Seq(Samples) /\ sends' \in 0 .. MaxSends /\ sock' \in Conns \cup {NoConn}
  BY DEF TypeOK, ClientType, Ends
<1>7. dialog' \in {"closed", "idle", "waiting", "decrypting", "updated", "uploaded"}
  BY DEF Ends
<1>. QED
  BY <1>1, <1>3, <1>4, <1>5, <1>6, <1>7 DEF ClientType

LEMMA ChunkFacts ==
  ASSUME TypeOK, NEW c \in Conns, NEW n \in Receivable(c)
  PROVE  /\ toServer[c] \in Seq(Bytes) /\ n \in 1 .. Len(toServer[c])
         /\ Chunk(c, n) \in Seq(Bytes) /\ Len(Chunk(c, n)) = n
         /\ \A i \in 1 .. n : Chunk(c, n)[i] = toServer[c][i]
<1>1. toServer[c] \in Seq(Bytes) /\ n \in 1 .. Len(toServer[c])
  BY DEF TypeOK, WireType, Receivable
<1>. QED
  BY <1>1 DEF Chunk

LEMMA ReceivedType ==
  ASSUME TypeOK, NEW c \in Conns, NEW n \in Receivable(c), Received(c, n)
  PROVE  toServer' \in [Conns -> Seq(Bytes)]
<1>1. toServer[c] \in Seq(Bytes) /\ n \in 1 .. Len(toServer[c])
  BY DEF TypeOK, WireType, Receivable
<1>2. Drop(toServer[c], n) \in Seq(Bytes)
  BY <1>1, DropFacts
<1>. QED
  BY <1>2 DEF TypeOK, WireType, Received

LEMMA SendType ==
  ASSUME TypeOK, NEW head \in Heads, Send(head)
  PROVE  toServer' \in [Conns -> Seq(Bytes)] /\ sends' \in 0 .. MaxSends
<1>1. MaxSends \in Nat /\ Message(head) \in Seq(Bytes)
  BY ServiceAssumption, MessageType
<1>2. sends' \in 0 .. MaxSends
  BY <1>1 DEF TypeOK, ClientType, Send
<1>3. ASSUME sock \in Conns PROVE toServer[sock] \o Message(head) \in Seq(Bytes)
  BY <1>1, <1>3 DEF TypeOK, WireType
<1>. QED
  BY <1>2, <1>3 DEF TypeOK, WireType, Send

LEMMA ServerStepType ==
  ASSUME TypeOK, ServerStep, UNCHANGED clientVars
  PROVE  TypeOK'
<1>1. ClientType'
  BY DEF TypeOK, ClientType, clientVars
<1>2. CASE Accept
  BY <1>1, <1>2 DEF TypeOK, WireType, ServerType, Accept
<1>3. CASE FetchRow
  <2>1. CASE End
    BY <1>1, <2>1, EndType DEF TypeOK
  <2>2. CASE ~End
    <3>1. row \in DOMAIN table /\ table[row] \in Seq(Bytes)
      BY <1>3 DEF TypeOK, ServerType, FetchRow
    <3>2. result \o table[row] \in Seq(Bytes)
      BY <3>1 DEF TypeOK, ServerType
    <3>3. /\ result' = result \o table[row] /\ row' = row + 1
          /\ UNCHANGED <<table, server, starts, wireVars>>
      BY <1>3, <2>2 DEF FetchRow
    <3>4. WireType'
      BY <3>3 DEF TypeOK, WireType, wireVars
    <3>. QED
      BY <1>1, <3>2, <3>3, <3>4 DEF TypeOK, ServerType
  <2>. QED
    BY <2>1, <2>2
<1>4. ASSUME NEW c \in Conns, RecvUpdate(c) PROVE TypeOK'
  <2>1. toServer' \in [Conns -> Seq(Bytes)]
    BY <1>4, ReceivedType DEF RecvUpdate
  <2>. QED
    BY <1>1, <1>4, <2>1 DEF TypeOK, WireType, ServerType, RecvUpdate
<1>5. ASSUME NEW c \in Conns, RecvPayload(c) PROVE TypeOK'
  <2>1. PICK n \in Receivable(c) :
          /\ Received(c, n)
          /\ table' = table \/ \E r \in Rows(Chunk(c, n)) : table' = Append(table, r)
    BY <1>5 DEF RecvPayload
  <2>2. toServer' \in [Conns -> Seq(Bytes)]
    BY <2>1, ReceivedType
  <2>3. Rows(Chunk(c, n)) \subseteq Seq(Bytes)
    BY ChunkFacts, RowsType
  <2>4. ASSUME NEW r \in Seq(Bytes) PROVE Append(table, r) \in Seq(Seq(Bytes))
    BY DEF TypeOK, ServerType
  <2>5. table' \in Seq(Seq(Bytes))
    <3>1. CASE table' = table
      BY <3>1 DEF TypeOK, ServerType
    <3>2. CASE \E r \in Rows(Chunk(c, n)) : table' = Append(table, r)
      BY <2>3, <2>4, <3>2
    <3>. QED
      BY <2>1, <3>1, <3>2
  <2>. QED
    BY <1>1, <1>5, <2>2, <2>5 DEF TypeOK, WireType, ServerType, RecvPayload
<1>5a. ASSUME NEW c \in Conns, RecvOther(c) PROVE TypeOK'
  <2>1. toServer' \in [Conns -> Seq(Bytes)]
    BY <1>5a, ReceivedType DEF RecvOther
  <2>. QED
    BY <1>1, <1>5a, <2>1 DEF TypeOK, WireType, ServerType, RecvOther
<1>6. ASSUME NEW c \in Conns, RecvNothing(c) PROVE TypeOK'
  BY <1>1, <1>6 DEF TypeOK, WireType, ServerType, RecvNothing, wireVars
<1>7. ASSUME NEW c \in Conns, SendReply(c) PROVE TypeOK'
  <2>1. toClient[c] \o result \in Seq(Bytes)
    BY DEF TypeOK, WireType, ServerType
  <2>2. toClient' \in [Conns -> Seq(Bytes)]
    BY <1>7, <2>1 DEF TypeOK, WireType, SendReply
  <2>. QED
    BY <1>1, <1>7, <2>2 DEF TypeOK, WireType, ServerType, SendReply
<1>. QED
  BY <1>2, <1>3, <1>4, <1>5, <1>5a, <1>6, <1>7 DEF ServerStep

LEMMA OperatorType ==
  ASSUME TypeOK, Operator
  PROVE  TypeOK'
<1>1. ClientType'
  BY DEF TypeOK, ClientType, clientVars, Operator
<1>2. CASE Start
  BY <1>1, <1>2, ServiceAssumption DEF TypeOK, WireType, ServerType, Start, wireVars
<1>3. CASE Stop
  BY <1>1, <1>3, EndType DEF TypeOK, Stop
<1>. QED
  BY <1>2, <1>3 DEF Operator

LEMMA ClientStepType ==
  ASSUME TypeOK, Attached, ClientStep, UNCHANGED serverVars
  PROVE  TypeOK'
<1>1. ServerType'
  BY DEF TypeOK, ServerType, serverVars
<1>2. CASE Receive
  <2> DEFINE here == Len(toClient[sock])
             most == IF here < RecvLen THEN here ELSE RecvLen
  <2>1. /\ sock \in Conns \cup {NoConn} /\ RecvLen \in Nat \ {0}
        /\ sock \in Conns => toClient[sock] \in Seq(Bytes) /\ toClient[sock] # <<>>
    BY <1>2, WireAssumption DEF TypeOK, WireType, ClientType, Receive
  <2>2. CASE sock \in Conns
    <3>1. most \in 1 .. here
      BY <2>1, <2>2
    <3>2. \E n \in IF Splits THEN 1 .. most ELSE {most} :
             /\ inBuf' = SubSeq(toClient[sock], 1, n)
             /\ toClient' = [toClient EXCEPT ![sock] = Drop(@, n)]
      BY <1>2 DEF Receive
    <3> HIDE DEF most
    <3>2a. \E n \in 1 .. most : /\ inBuf' = SubSeq(toClient[sock], 1, n)
                                /\ toClient' = [toClient EXCEPT ![sock] = Drop(@, n)]
      <4>1. CASE Splits
        BY <3>2, <4>1
      <4>2. CASE ~Splits
        <5>1. most \in 1 .. most
          BY <2>1, <2>2, <3>1
        <5>. QED
          BY <3>2, <4>2, <5>1
      <4>. QED
        BY <4>1, <4>2
    <3>. PICK n \in 1 .. most : /\ inBuf' = SubSeq(toClient[sock], 1, n)
                                /\ toClient' = [toClient EXCEPT ![sock] = Drop(@, n)]
      BY <3>2a
    <3>3. n \in 1 .. Len(toClient[sock])
      BY <2>1, <2>2, <3>1
    <3>4. inBuf' \in Seq(Bytes)
      BY <2>1, <2>2, <3>3
    <3>5. Drop(toClient[sock], n) \in Seq(Bytes)
      BY <2>1, <2>2, <3>3, DropFacts
    <3>6. toClient' \in [Conns -> Seq(Bytes)]
      BY <3>5 DEF TypeOK, WireType
    <3>. QED
      BY <1>1, <1>2, <3>4, <3>6 DEF TypeOK, WireType, ClientType, Receive, fileVars
  <2>. QED
    BY <1>2, <2>2 DEF Receive, Attached
<1>3. CASE ReceiveFails
  BY <1>1, <1>3 DEF TypeOK, WireType, ClientType, ReceiveFails, wireVars, fileVars
<1>4. CASE WriteLibrary
  <2>1. CASE held
    BY <1>1, <1>4, <2>1, EndsType DEF TypeOK, WriteLibrary
  <2>2. CASE ~held
    <3>1. library' \in Seq(Block \cup {Junk})
      BY <1>4, <2>2, TextOfType, WireAssumption DEF TypeOK, ClientType, WriteLibrary
    <3>. QED
      BY <1>1, <1>4, <2>2, <3>1 DEF TypeOK, WireType, ClientType, WriteLibrary, wireVars
  <2>. QED
    BY <2>1, <2>2
<1>5. CASE Dismiss
  BY <1>1, <1>5 DEF TypeOK, WireType, ClientType, Dismiss, wireVars, fileVars
<1>. QED
  BY <1>2, <1>3, <1>4, <1>5 DEF ClientStep

LEMMA UserStepType ==
  ASSUME TypeOK, User
  PROVE  TypeOK'
<1>1. ServerType'
  BY DEF TypeOK, ServerType, serverVars, User
<1>2. CASE OpenDialog(server # "down")
  <2>. QED
    BY <1>1, <1>2, NextConnUnused DEF TypeOK, WireType, ClientType, OpenDialog, NextConn, fileVars
<1>3. CASE CloseDialog
  BY <1>1, <1>3 DEF TypeOK, WireType, ClientType, CloseDialog, wireVars, fileVars
<1>4. CASE Ends
  BY <1>1, <1>4, EndsType DEF TypeOK
<1>5. CASE OpenScan /\ ~Ends
  BY <1>1, <1>5 DEF TypeOK, WireType, ClientType, OpenScan, wireVars
<1>6. CASE ClickUpdate
  <2>1. Update \in Heads
    BY DEF Heads
  <2>2. toServer' \in [Conns -> Seq(Bytes)] /\ sends' \in 0 .. MaxSends
    BY <1>6, <2>1, SendType DEF ClickUpdate
  <2>. QED
    BY <1>1, <1>6, <2>2 DEF TypeOK, WireType, ClientType, ClickUpdate, fileVars
<1>7. ASSUME NEW s \in Samples, ClickUpload(s) PROVE TypeOK'
  <2>1. Payload(s) \in Heads
    BY DEF Heads
  <2>2. toServer' \in [Conns -> Seq(Bytes)] /\ sends' \in 0 .. MaxSends
    BY <1>7, <2>1, SendType DEF ClickUpload
  <2>3. uploads' \in Seq(Samples)
    BY <1>7 DEF TypeOK, ClientType, ClickUpload
  <2>. QED
    BY <1>1, <1>7, <2>2, <2>3 DEF TypeOK, WireType, ClientType, ClickUpload, fileVars
<1>. QED
  BY <1>2, <1>3, <1>4, <1>5, <1>6, <1>7 DEF User, UserStep, Restart

LEMMA InitType == Init => TypeOK
<1> SUFFICES ASSUME Init PROVE TypeOK
  OBVIOUS
<1>1. <<>> \in Seq(Bytes) /\ <<>> \in Seq(Bytes) /\ <<>> \in Seq(Samples)
  OBVIOUS
<1>2. WireType
  BY <1>1 DEF Init, WireInit, WireType
<1>3. ServerType
  BY <1>1, ServiceAssumption DEF Init, ServerInit, ServerType
<1>4. inBuf \in Seq(Bytes) /\ uploads \in Seq(Samples)
  BY <1>1 DEF Init, ClientInit
<1>5. sends \in 0 .. MaxSends
  BY ServiceAssumption DEF Init, ClientInit
<1>6. library = NoFile /\ held \in BOOLEAN /\ NoFile \notin learned
  BY DEF Init, ClientInit
<1>7. ClientType
  BY <1>4, <1>5, <1>6 DEF Init, ClientInit, ClientType
<1>. QED
  BY <1>2, <1>3, <1>7 DEF TypeOK

LEMMA InitAttached == Init => Attached
BY DEF Init, ClientInit, Attached

\* No step but opening the dialog changes the socket of an open dialog.
LEMMA AttachedStep ==
  ASSUME Attached, [Next]_vars
  PROVE  Attached'
<1>1. CASE OpenDialog(server # "down")
  BY <1>1, NextConnUnused DEF OpenDialog, NextConn, Attached, Conns
<1>2. CASE dialog' = "closed"
  BY <1>2 DEF Attached
<1>3. CASE sock' = sock /\ (dialog' # "closed" => dialog # "closed")
  BY <1>3 DEF Attached, Conns
<1>4. CASE Server \/ Operator \/ UNCHANGED vars
  BY <1>3, <1>4 DEF Server, Operator, vars, clientVars
<1>5. CASE Client
  BY <1>2, <1>3, <1>5 DEF Client, ClientStep, Receive, ReceiveFails, WriteLibrary, Ends, Dismiss
<1>6. CASE User
  BY <1>1, <1>2, <1>3, <1>6
     DEF User, UserStep, CloseDialog, Restart, OpenScan, Ends, ClickUpdate, ClickUpload
<1>. QED
  BY <1>4, <1>5, <1>6 DEF Next

LEMMA NextType == TypeOK /\ Attached /\ [Next]_vars => TypeOK'
<1> SUFFICES ASSUME TypeOK, Attached, [Next]_vars PROVE TypeOK'
  OBVIOUS
<1>1. CASE Server
  BY <1>1, ServerStepType DEF Server
<1>2. CASE Client
  BY <1>2, ClientStepType DEF Client
<1>3. CASE UNCHANGED vars
  BY <1>3 DEF vars, wireVars, serverVars, clientVars, TypeOK, WireType, ServerType, ClientType
<1>. QED
  BY <1>1, <1>2, <1>3, OperatorType, UserStepType DEF Next

LEMMA Typed == Spec => [](TypeOK /\ Attached)
<1>1. Init => TypeOK /\ Attached
  BY InitType, InitAttached
<1>2. TypeOK /\ Attached /\ [Next]_vars => (TypeOK /\ Attached)'
  BY NextType, AttachedStep
<1>. QED
  BY <1>1, <1>2, PTL DEF Spec

\* Every variable keeps its type: what is in a stream are parts of messages and blocks of
\* rows, what the scans have learned are texts, what the library holds was decrypted.
THEOREM TypeCorrect == Spec => []TypeOK
BY Typed, PTL

-----------------------------------------------------------------------------
(* What the scans compare with is what the library says.                    *)

\* A scan that has read the library has it open, which keeps updates from replacing it.
LearnedHeld == learned # {} => held

LEMMA SignaturesStep ==
  ASSUME SignaturesCurrent, LearnedHeld, [Next]_vars
  PROVE  SignaturesCurrent' /\ LearnedHeld'
<1>1. CASE UNCHANGED fileVars
  BY <1>1 DEF fileVars, SignaturesCurrent, LearnedHeld
<1>2. CASE Ends
  BY <1>2 DEF Ends, SignaturesCurrent, LearnedHeld
<1>3. CASE OpenScan /\ ~Ends
  BY <1>3 DEF OpenScan, SignaturesCurrent, LearnedHeld
<1>4. CASE WriteLibrary /\ ~Ends
  <2>1. ~held /\ UNCHANGED <<held, learned>>
    BY <1>4 DEF WriteLibrary
  <2>. QED
    BY <2>1 DEF SignaturesCurrent, LearnedHeld
<1>5. CASE Server \/ Operator \/ UNCHANGED vars
  BY <1>1, <1>5 DEF Server, Operator, vars, clientVars, fileVars
<1>6. CASE Client
  BY <1>1, <1>2, <1>4, <1>6 DEF Client, ClientStep, Receive, ReceiveFails, Dismiss
<1>7. CASE User
  BY <1>1, <1>2, <1>3, <1>7
     DEF User, UserStep, OpenDialog, CloseDialog, Restart, ClickUpdate, ClickUpload
<1>. QED
  BY <1>5, <1>6, <1>7 DEF Next

\* The scans never compare with a text an update has replaced, however often the library
\* is updated and scans are opened, although the vector of what they learned is never
\* cleared: the file they leave open makes every later update end the program
\* (CAllKillingDialog.cpp, 57 to 62; CVirusDefenceDialog.cpp, 143 to 146).
THEOREM ScansUpToDate == Spec => []SignaturesCurrent
<1>1. Init => SignaturesCurrent /\ LearnedHeld
  BY DEF Init, ClientInit, SignaturesCurrent, LearnedHeld
<1>2. SignaturesCurrent /\ LearnedHeld /\ [Next]_vars => (SignaturesCurrent /\ LearnedHeld)'
  BY SignaturesStep
<1>. QED
  BY <1>1, <1>2, PTL DEF Spec

-----------------------------------------------------------------------------
(* A stream holds the bytes of its messages in their order.                 *)

\* Every byte is followed by the rest of its message, and that by the first byte of the
\* next: what is missing is the beginning of the first message.
Framed(s) ==
  /\ \A i \in DOMAIN s : \A j \in s[i][2] .. Size(s[i][1]) :
       i + (j - s[i][2]) \in DOMAIN s /\ s[i + (j - s[i][2])] = <<s[i][1], j>>
  /\ \A i \in DOMAIN s : i + 1 \in DOMAIN s /\ s[i][2] = Size(s[i][1]) => s[i + 1][2] = 1

Streams == \A c \in Conns : Framed(toServer[c])

LEMMA FramedEmpty == Framed(<<>>)
BY DEF Framed

LEMMA FramedDrop ==
  ASSUME NEW s \in Seq(Bytes), Framed(s), NEW n \in 1 .. Len(s)
  PROVE  Framed(Drop(s, n))
<1> DEFINE t == Drop(s, n)
<1>1. /\ t \in Seq(Bytes) /\ Len(t) = Len(s) - n
      /\ \A i \in 1 .. Len(s) - n : t[i] = s[n + i]
  BY DropFacts
<1>2. DOMAIN t = 1 .. Len(t) /\ DOMAIN s = 1 .. Len(s) /\ n \in Nat /\ Len(s) \in Nat
  BY <1>1
<1>3. \A i \in DOMAIN t : n + i \in DOMAIN s /\ t[i] = s[n + i] /\ i \in Nat
  BY <1>1, <1>2
<1>4. \A i \in Nat \ {0} : n + i \in DOMAIN s => i \in DOMAIN t /\ t[i] = s[n + i]
  BY <1>1, <1>2
<1> HIDE DEF t
<1>5. ASSUME NEW i \in DOMAIN t, NEW j \in t[i][2] .. Size(t[i][1])
      PROVE  i + (j - t[i][2]) \in DOMAIN t /\ t[i + (j - t[i][2])] = <<t[i][1], j>>
  <2>0. t[i] \in Bytes
    BY <1>1
  <2>1. t[i][2] \in 1 .. Size(t[i][1]) /\ Size(t[i][1]) \in Nat
    BY <2>0, ByteFacts, SizeFacts
  <2> DEFINE k == j - t[i][2]
  <2>2. k \in Nat /\ i + k \in Nat \ {0} /\ n + (i + k) = (n + i) + k
    <3>1. \A x, z \in Nat : \A y \in x .. z : y - x \in Nat
      OBVIOUS
    <3>2. t[i][2] \in Nat
      BY <2>1
    <3>3. k \in Nat
      BY <2>1, <3>1, <3>2
    <3>4. i \in Nat \ {0}
      BY <1>1, <1>2
    <3> HIDE DEF k
    <3>. QED
      BY <1>2, <3>3, <3>4
  <2>3. (n + i) + k \in DOMAIN s /\ s[(n + i) + k] = <<t[i][1], j>>
    BY <1>3 DEF Framed
  <2> HIDE DEF k
  <2>4. i + k \in DOMAIN t /\ t[i + k] = <<t[i][1], j>>
    BY <1>4, <2>2, <2>3
  <2>. QED
    BY <2>4 DEF k
<1>6. ASSUME NEW i \in DOMAIN t, i + 1 \in DOMAIN t, t[i][2] = Size(t[i][1])
      PROVE  t[i + 1][2] = 1
  <2>1. (n + i) + 1 = n + (i + 1) /\ t[i + 1] = s[n + (i + 1)] /\ n + (i + 1) \in DOMAIN s
    BY <1>2, <1>3, <1>6
  <2>. QED
    BY <1>3, <1>6, <2>1 DEF Framed
<1>. QED
  BY <1>5, <1>6 DEF Framed, t

LEMMA FramedSend ==
  ASSUME NEW s \in Seq(Bytes), Framed(s), NEW head \in Heads,
         NEW t \in Seq(Bytes), Len(t) = Len(s) + Size(head),
         \A i \in 1 .. Len(s) : t[i] = s[i],
         \A i \in 1 .. Size(head) : t[Len(s) + i] = <<head, i>>
  PROVE  Framed(t)
<1> DEFINE n == Len(s)
           m == Size(head)
<1>1. n \in Nat /\ m \in Nat \ {0} /\ DOMAIN s = 1 .. n /\ DOMAIN t = 1 .. n + m
  BY SizeFacts
<1>2. \A i \in 1 .. n : t[i] = s[i]
  OBVIOUS
<1>3. \A i \in 1 .. m : t[n + i] = <<head, i>>
  OBVIOUS
<1>4. \A i \in 1 .. n + m : i \in 1 .. n \/ (i - n \in 1 .. m /\ n + (i - n) = i)
  BY <1>1
<1> HIDE DEF n, m
<1>5. ASSUME NEW i \in DOMAIN t, NEW j \in t[i][2] .. Size(t[i][1])
      PROVE  i + (j - t[i][2]) \in DOMAIN t /\ t[i + (j - t[i][2])] = <<t[i][1], j>>
  <2>1. CASE i \in 1 .. n
    <3>1. t[i] = s[i] /\ i \in DOMAIN s
      BY <1>1, <1>2, <2>1
    <3> DEFINE k == i + (j - s[i][2])
    <3>2. k \in DOMAIN s /\ s[k] = <<s[i][1], j>>
      BY <3>1 DEF Framed
    <3> HIDE DEF k
    <3>3. k \in DOMAIN t /\ t[k] = <<t[i][1], j>>
      BY <1>1, <1>2, <3>1, <3>2
    <3>. QED
      BY <3>1, <3>3 DEF k
  <2>2. CASE i - n \in 1 .. m /\ n + (i - n) = i
    <3>1. t[i] = <<head, i - n>>
      BY <1>3, <2>2
    <3>2. j \in 1 .. m /\ i + (j - (i - n)) = n + j
      BY <1>1, <2>2, <3>1 DEF m
    <3>3. n + j \in DOMAIN t /\ t[n + j] = <<head, j>>
      BY <1>1, <1>3, <3>2
    <3>. QED
      BY <3>1, <3>2, <3>3
  <2>. QED
    BY <1>1, <1>4, <2>1, <2>2
<1>6. ASSUME NEW i \in DOMAIN t, i + 1 \in DOMAIN t, t[i][2] = Size(t[i][1])
      PROVE  t[i + 1][2] = 1
  <2>1. CASE i \in 1 .. n /\ i # n
    <3>1. i \in DOMAIN s /\ i + 1 \in DOMAIN s /\ t[i] = s[i] /\ t[i + 1] = s[i + 1]
      BY <1>1, <1>2, <2>1
    <3>. QED
      BY <1>6, <3>1 DEF Framed
  <2>2. CASE i = n
    <3>1. 1 \in 1 .. m
      BY <1>1
    <3>. QED
      BY <1>3, <2>2, <3>1
  <2>3. CASE i - n \in 1 .. m /\ n + (i - n) = i
    <3>1. t[i] = <<head, i - n>>
      BY <1>3, <2>3
    <3>2. i - n = m
      BY <1>6, <3>1 DEF m
    <3>. QED
      BY <1>1, <1>6, <2>3, <3>2
  <2>. QED
    BY <1>1, <1>4, <2>1, <2>2, <2>3
<1>. QED
  BY <1>5, <1>6 DEF Framed

\* What send() adds to a stream.
LEMMA SendFacts ==
  ASSUME TypeOK, NEW head \in Heads, Send(head), NEW c \in Conns
  PROVE  \/ UNCHANGED toServer[c]
         \/ /\ c = sock
            /\ Len(toServer'[c]) = Len(toServer[c]) + Size(head)
            /\ \A i \in 1 .. Len(toServer[c]) : toServer'[c][i] = toServer[c][i]
            /\ \A i \in 1 .. Size(head) : toServer'[c][Len(toServer[c]) + i] = <<head, i>>
<1> DEFINE s == toServer[c]
           m == Message(head)
<1>1. s \in Seq(Bytes)
  BY DEF TypeOK, WireType
<1>2. m \in Seq(Bytes) /\ Len(m) = Size(head) /\ \A i \in 1 .. Size(head) : m[i] = <<head, i>>
  BY MessageType
<1>3. CASE c = sock /\ Connected
  <2>1. toServer'[c] = s \o m
    BY <1>3 DEF Send, TypeOK, WireType
  <2> HIDE DEF s, m
  <2>2. /\ Len(s \o m) = Len(s) + Len(m)
        /\ \A i \in 1 .. Len(s) : (s \o m)[i] = s[i]
        /\ \A i \in 1 .. Len(m) : (s \o m)[Len(s) + i] = m[i]
    <3>1. s \in Seq(Bytes) /\ m \in Seq(Bytes)
      BY <1>1, <1>2
    <3>. QED
      BY <3>1, ConcatFacts
  <2>. QED
    BY <1>2, <1>3, <2>1, <2>2 DEF s
<1>4. CASE ~(c = sock /\ Connected)
  BY <1>4 DEF Send, TypeOK, WireType
<1>. QED
  BY <1>3, <1>4

\* What any step does to the streams to the server.
LEMMA StreamStep ==
  ASSUME [Next]_vars
  PROVE  \/ UNCHANGED toServer
         \/ End
         \/ \E c \in Conns : \E n \in Receivable(c) : conn[c] = "served" /\ Received(c, n)
         \/ \E head \in Heads : Send(head)
BY DEF Next, vars, Server, Operator, Client, User, wireVars, serverVars, ServerStep, Accept,
       FetchRow, RecvUpdate, RecvPayload, RecvOther, RecvNothing, SendReply, Serving, Start, Stop,
       ClientStep, Receive, ReceiveFails, WriteLibrary, Dismiss, Ends, UserStep, OpenDialog,
       CloseDialog, Restart, OpenScan, ClickUpdate, ClickUpload, Heads

LEMMA StreamsInit == Init => Streams
BY FramedEmpty DEF Init, WireInit, Streams

LEMMA StreamsStep ==
  ASSUME TypeOK, Streams, [Next]_vars
  PROVE  Streams'
<1> SUFFICES ASSUME NEW c \in Conns PROVE Framed(toServer'[c])
  BY DEF Streams, Framed
<1>1. Framed(toServer[c]) /\ toServer[c] \in Seq(Bytes)
  BY DEF Streams, TypeOK, WireType
<1>2. CASE toServer'[c] = toServer[c]
  BY <1>1, <1>2
<1>3. CASE End
  BY <1>3, FramedEmpty DEF End
<1>4. ASSUME NEW d \in Conns, NEW n \in Receivable(d), Received(d, n)
      PROVE  Framed(toServer'[c])
  <2>1. CASE c = d
    <3>1. n \in 1 .. Len(toServer[c])
      BY <2>1 DEF Receivable
    <3>2. toServer'[c] = Drop(toServer[c], n)
      BY <1>4, <2>1 DEF Received, TypeOK, WireType
    <3>. QED
      BY <1>1, <3>1, <3>2, FramedDrop
  <2>2. CASE c # d
    BY <1>2, <1>4, <2>2 DEF Received, TypeOK, WireType
  <2>. QED
    BY <2>1, <2>2
<1>5. ASSUME NEW head \in Heads, Send(head)
      PROVE  Framed(toServer'[c])
  <2>1. toServer'[c] \in Seq(Bytes)
    BY <1>5, SendType
  <2>. QED
    BY <1>1, <1>2, <1>5, <2>1, SendFacts, FramedSend
<1>. QED
  BY <1>2, <1>3, <1>4, <1>5, StreamStep

-----------------------------------------------------------------------------
(* The table holds pieces of uploads in the order in which they were sent.  *)

\* How many rows were inserted.
Stored == Len(table) - Len(Initial)

\* f tells for every row that was inserted of which place it is a piece.
InTable(f) ==
  /\ \A i \in 1 .. Stored : PieceOf(table[Len(Initial) + i], f[i])
  /\ \A i, j \in 1 .. Stored : i < j => Behind(f[i], f[j])

Payloads(c) == {i \in DOMAIN toServer[c] : toServer[c][i][1] # Update}

\* g tells for every byte of a payload in the stream of connection c which place it is: one
\* behind those that are stored, and behind those the stream holds before it.
Pending(f, c, g) ==
  /\ \A i \in Payloads(c) : toServer[c][i] = <<Payload(uploads[g[i][1]]), g[i][2]>>
  /\ \A i, j \in Payloads(c) : i < j => Behind(g[i], g[j])
  /\ \A i \in Payloads(c), k \in 1 .. Stored : Behind(f[k], g[i])

\* Connections whose messages the server may still receive in this life.
Candidate(c) == conn[c] = "served" \/ \A d \in Conns : conn[d] # "served"

InOrder ==
  /\ Len(table) >= Len(Initial)
  /\ \E f \in [1 .. Stored -> UploadPlaces] :
       /\ InTable(f)
       /\ \A c \in Conns : Candidate(c) =>
            \E g \in [Payloads(c) -> UploadPlaces] : Pending(f, c, g)

LEMMA BehindTransitive ==
  ASSUME NEW x \in Nat \X Nat, NEW y \in Nat \X Nat, NEW z \in Nat \X Nat,
         Behind(x, y), Behind(y, z)
  PROVE  Behind(x, z)
BY DEF Behind

LEMMA PlacesFacts ==
  ASSUME TypeOK
  PROVE  /\ UploadPlaces \subseteq Nat \X Nat
         /\ uploads \in Seq(Samples) /\ DOMAIN uploads = 1 .. Len(uploads)
         /\ UploadLen \in Nat
BY WireAssumption DEF TypeOK, ClientType, UploadPlaces

LEMMA PayloadsType ==
  ASSUME TypeOK, NEW c \in Conns
  PROVE  /\ Payloads(c) \subseteq 1 .. Len(toServer[c]) /\ toServer[c] \in Seq(Bytes)
         /\ Len(toServer[c]) \in Nat
BY DEF TypeOK, WireType, Payloads

\* The server accepts once in a life.
OneServed ==
  /\ \A c, d \in Conns : conn[c] = "served" /\ conn[d] = "served" => c = d
  /\ server \in {"down", "accept"} => \A c \in Conns : conn[c] # "served"

LEMMA OneServedInit == Init => OneServed
BY DEF Init, WireInit, OneServed

LEMMA OneServedStep ==
  ASSUME TypeOK, OneServed, [Next]_vars
  PROVE  OneServed'
<1>1. CASE UNCHANGED <<conn, server>>
  BY <1>1 DEF OneServed
<1>2. CASE Accept
  BY <1>2 DEF Accept, OneServed, TypeOK, WireType
<1>3. CASE End
  BY <1>3 DEF End, OneServed
<1>4. CASE UNCHANGED conn /\ server' \in {"recv", "fetch"}
  BY <1>4 DEF OneServed
<1>5. CASE Start
  BY <1>5 DEF Start, OneServed, wireVars
<1>6. CASE OpenDialog(server # "down") /\ UNCHANGED server
  BY <1>6, NextConnUnused DEF OpenDialog, NextConn, OneServed, TypeOK, WireType
<1>7. CASE Server \/ Operator
  BY <1>1, <1>2, <1>3, <1>4, <1>5, <1>7
     DEF Server, Operator, ServerStep, RecvUpdate, RecvPayload, RecvOther, RecvNothing, FetchRow,
         SendReply, Serving, Stop, wireVars
<1>8. CASE Client \/ UNCHANGED vars
  BY <1>1, <1>8 DEF Client, ClientStep, Receive, ReceiveFails, WriteLibrary, Ends, Dismiss,
                    vars, wireVars, serverVars
<1>9. CASE User
  BY <1>1, <1>6, <1>9 DEF User, UserStep, CloseDialog, Restart, OpenScan, Ends, ClickUpdate,
                         ClickUpload, Send, wireVars, serverVars
<1>. QED
  BY <1>7, <1>8, <1>9 DEF Next

\* A step that moves no message and frees no connection.
LEMMA InOrderSame ==
  ASSUME InOrder, UNCHANGED <<table, uploads, toServer>>,
         \A c \in Conns : Candidate(c)' => Candidate(c)
  PROVE  InOrder'
<1>1. PICK f \in [1 .. Stored -> UploadPlaces] :
        /\ InTable(f)
        /\ \A d \in Conns : Candidate(d) =>
             \E g \in [Payloads(d) -> UploadPlaces] : Pending(f, d, g)
  BY DEF InOrder
<1>2. Stored' = Stored /\ InTable(f)' /\ UploadPlaces' = UploadPlaces
  BY <1>1 DEF Stored, InTable, PieceOf, UploadPlaces
<1>3. \A d \in Conns : Payloads(d)' = Payloads(d)
  BY DEF Payloads
<1>4. \A d \in Conns : \A g : Pending(f, d, g) => Pending(f, d, g)'
  BY <1>2, <1>3 DEF Pending
<1>. QED
  BY <1>1, <1>2, <1>3, <1>4 DEF InOrder

LEMMA InOrderEnd ==
  ASSUME InOrder, End, UNCHANGED uploads
  PROVE  InOrder'
<1>1. PICK f \in [1 .. Stored -> UploadPlaces] : InTable(f)
  BY DEF InOrder
<1>2. Stored' = Stored /\ InTable(f)' /\ UploadPlaces' = UploadPlaces
  BY <1>1 DEF End, Stored, InTable, PieceOf, UploadPlaces
<1>3. ASSUME NEW c \in Conns
      PROVE  \E g \in [Payloads(c)' -> UploadPlaces'] : Pending(f, c, g)'
  <2>1. Payloads(c)' = {}
    BY DEF End, Payloads
  <2>2. \A g : Pending(f, c, g)'
    BY <2>1 DEF Pending
  <2>3. [i \in {} |-> 0] \in [Payloads(c)' -> UploadPlaces']
    BY <2>1
  <2>. QED
    BY <2>2, <2>3
<1>. QED
  BY <1>1, <1>2, <1>3 DEF InOrder, End

\* The places of what is left in a stream from which something was received.
LEMMA RestPending ==
  ASSUME TypeOK, NEW c \in Conns, NEW n \in Receivable(c), Received(c, n), UNCHANGED uploads,
         NEW g \in [Payloads(c) -> UploadPlaces]
  PROVE  \E h \in [Payloads(c)' -> UploadPlaces'] :
           \A i \in Payloads(c)' : /\ i \in Nat /\ i >= 1 /\ n + i \in Payloads(c)
                                   /\ h[i] = g[n + i]
                                   /\ toServer'[c][i] = toServer[c][n + i]
<1> DEFINE s == toServer[c]
<1>1. s \in Seq(Bytes) /\ n \in 1 .. Len(s)
  BY PayloadsType DEF Receivable
<1>2. toServer'[c] = Drop(s, n)
  BY DEF Received, TypeOK, WireType
<1>3. /\ Drop(s, n) \in Seq(Bytes) /\ Len(Drop(s, n)) = Len(s) - n
      /\ \A i \in 1 .. Len(s) - n : Drop(s, n)[i] = s[n + i]
  BY <1>1, DropFacts
<1>4. ASSUME NEW i \in Payloads(c)'
      PROVE  /\ i \in Nat /\ i >= 1 /\ n + i \in Payloads(c)
             /\ toServer'[c][i] = toServer[c][n + i]
  <2>1. i \in 1 .. Len(s) - n
    BY <1>1, <1>2, <1>3 DEF Payloads
  <2>2. toServer'[c][i] = s[n + i]
    BY <1>2, <1>3, <2>1
  <2>3. n + i \in DOMAIN s
    BY <1>1, <2>1
  <2>4. toServer'[c][i][1] # Update
    BY DEF Payloads
  <2>. QED
    BY <2>1, <2>2, <2>3, <2>4 DEF Payloads
<1> DEFINE h == [i \in Payloads(c)' |-> g[n + i]]
<1>5. UploadPlaces' = UploadPlaces
  BY DEF UploadPlaces
<1>6. h \in [Payloads(c)' -> UploadPlaces']
  BY <1>4, <1>5
<1>. QED
  BY <1>4, <1>6

\* A chunk is received of which nothing is stored.
LEMMA InOrderReceived ==
  ASSUME TypeOK, OneServed, InOrder, NEW c \in Conns, conn[c] = "served",
         NEW n \in Receivable(c), Received(c, n), UNCHANGED <<table, uploads, conn>>
  PROVE  InOrder'
<1>1. PICK f \in [1 .. Stored -> UploadPlaces] :
        /\ InTable(f)
        /\ \A d \in Conns : Candidate(d) =>
             \E g \in [Payloads(d) -> UploadPlaces] : Pending(f, d, g)
  BY DEF InOrder
<1>2. Stored' = Stored /\ InTable(f)' /\ UploadPlaces' = UploadPlaces
  BY <1>1 DEF Stored, InTable, PieceOf, UploadPlaces
<1>3. PICK g \in [Payloads(c) -> UploadPlaces] : Pending(f, c, g)
  BY <1>1 DEF Candidate
<1>4. PICK h \in [Payloads(c)' -> UploadPlaces'] :
        \A i \in Payloads(c)' : /\ i \in Nat /\ i >= 1 /\ n + i \in Payloads(c)
                                /\ h[i] = g[n + i]
                                /\ toServer'[c][i] = toServer[c][n + i]
  BY RestPending
<1>5. n \in Nat
  BY DEF Receivable
<1>6. Pending(f, c, h)'
  <2>1. \A i \in Payloads(c)' : toServer'[c][i] = <<Payload(uploads'[h[i][1]]), h[i][2]>>
    BY <1>3, <1>4 DEF Pending
  <2>2. \A i, j \in Payloads(c)' : i < j => n + i < n + j
    BY <1>4, <1>5
  <2>3. \A i, j \in Payloads(c)' : i < j => Behind(h[i], h[j])
    BY <1>3, <1>4, <2>2 DEF Pending
  <2>4. \A i \in Payloads(c)', k \in 1 .. Stored : Behind(f[k], h[i])
    BY <1>3, <1>4 DEF Pending
  <2>. QED
    BY <1>2, <2>1, <2>3, <2>4 DEF Pending
<1>7. \A d \in Conns : Candidate(d)' => d = c
  BY DEF Candidate, OneServed
<1>. QED
  BY <1>1, <1>2, <1>4, <1>6, <1>7 DEF InOrder

\* The chunk of a payload begins with the first byte of its message, or with a one of its
\* encrypted sample.
LEMMA ChunkStart ==
  ASSUME TypeOK, NEW c \in Conns, NEW n \in Receivable(c), OfPayload(Chunk(c, n))
  PROVE  \E s \in Samples : \E p \in 1 .. WordLen + RowLen : toServer[c][1] = <<Payload(s), p>>
<1> DEFINE x == toServer[c][1]
<1>1. 1 \in DOMAIN Chunk(c, n) /\ Chunk(c, n)[1] = x /\ x \in Bytes /\ 1 <= WordLen
  BY ChunkFacts, WireAssumption
<1>2. IsOne(x)
  BY <1>1 DEF OfPayload
<1>3. RowLen \in Nat /\ WordLen \in Nat \ {0} /\ Ones \subseteq CipherBytes
  BY RowLenFacts, WireAssumption
<1>4. x = <<x[1], x[2]>> /\ x[1] \in Heads
  BY <1>1, ByteFacts
<1> HIDE DEF x
<1>5. CASE x \in Ones
  <2>1. PICK s \in Samples, k \in 1 .. RowLen : x = <<Payload(s), WordLen + k>>
    BY <1>3, <1>5 DEF CipherBytes, CipherByte
  <2>2. WordLen + k \in 1 .. WordLen + RowLen
    BY <1>3
  <2>. QED
    BY <2>1, <2>2 DEF x
<1>6. CASE x[1] # Update /\ x[2] = 1
  <2>1. PICK s \in Samples : x[1] = Payload(s)
    BY <1>4, <1>6 DEF Heads
  <2>2. 1 \in 1 .. WordLen + RowLen /\ x = <<Payload(s), 1>>
    BY <1>3, <1>4, <1>6, <2>1
  <2>. QED
    BY <2>2 DEF x
<1>. QED
  BY <1>2, <1>5, <1>6 DEF IsOne

\* The text of a chunk stops in the zeros behind the encrypted sample at the latest.
LEMMA ChunkText ==
  ASSUME TypeOK, Streams, NEW c \in Conns, NEW n \in Receivable(c), NEW s \in Samples,
         NEW p \in 1 .. WordLen + RowLen, toServer[c][1] = <<Payload(s), p>>,
         NEW end \in TextEnds(Chunk(c, n)), NEW k \in WordLen + 1 .. end
  PROVE  p + k - 1 <= WordLen + RowLen /\ Chunk(c, n)[k] = <<Payload(s), p + k - 1>>
<1> DEFINE u == Chunk(c, n)
<1>1. /\ RowLen \in Nat /\ WordLen \in Nat \ {0} /\ UploadLen \in Nat
      /\ RowLen + 2 * WordLen <= UploadLen
  BY RowLenFacts, WireAssumption
<1>2. Size(Payload(s)) = UploadLen /\ Payload(s) # Update
  BY DEF Size, Payload, Update
<1>3. /\ toServer[c] \in Seq(Bytes) /\ n \in 1 .. Len(toServer[c])
      /\ u \in Seq(Bytes) /\ DOMAIN u = 1 .. n /\ \A i \in 1 .. n : u[i] = toServer[c][i]
  BY ChunkFacts
<1> HIDE DEF u
<1>4. end \in Nat /\ \A i \in WordLen + 1 .. end : i \in 1 .. n /\ ~IsZero(u[i])
  BY <1>1, <1>3 DEF TextEnds, u
<1>5. ASSUME NEW i \in 1 .. n, p + i - 1 <= UploadLen
      PROVE  u[i] = <<Payload(s), p + i - 1>>
  <2> DEFINE j == p + i - 1
  <2>1. j \in p .. UploadLen /\ 1 + (j - p) = i
    BY <1>1, <1>3, <1>5
  <2>2. 1 \in DOMAIN toServer[c] /\ toServer[c][1][2] = p /\ toServer[c][1][1] = Payload(s)
    BY <1>3
  <2> HIDE DEF j
  <2>3. toServer[c][1 + (j - p)] = <<Payload(s), j>>
    BY <1>2, <2>1, <2>2 DEF Streams, Framed
  <2>. QED
    BY <1>3, <2>1, <2>3 DEF j
<1>6. p + k - 1 <= WordLen + RowLen
  <2> SUFFICES ASSUME p + k - 1 > WordLen + RowLen PROVE FALSE
    BY <1>1, <1>4
  <2> DEFINE m == IF p <= RowLen THEN WordLen + RowLen + 2 - p ELSE WordLen + 1
  <2>1. /\ m \in WordLen + 1 .. end
        /\ p + m - 1 \in WordLen + RowLen + 1 .. UploadLen
    BY <1>1, <1>4
  <2> HIDE DEF m
  <2>2. u[m] = <<Payload(s), p + m - 1>> /\ ~IsZero(u[m])
    BY <1>1, <1>4, <1>5, <2>1
  <2>3. p + m - 1 \notin {1} \cup (WordLen + 1 .. WordLen + RowLen)
    BY <1>1, <2>1
  <2>. QED
    BY <1>2, <2>2, <2>3 DEF IsZero
<1>7. p + k - 1 <= UploadLen /\ k \in 1 .. n
  BY <1>1, <1>4, <1>6
<1>. QED
  BY <1>5, <1>6, <1>7 DEF u

\* What is stored of a chunk is a piece of the encrypted sample of its first message.
LEMMA ChunkPiece ==
  ASSUME TypeOK, Streams, NEW c \in Conns, NEW n \in Receivable(c), NEW s \in Samples,
         NEW p \in 1 .. WordLen + RowLen, toServer[c][1] = <<Payload(s), p>>,
         NEW r \in Rows(Chunk(c, n))
  PROVE  \E last \in 0 .. RowLen : r \in Inserted(SubSeq(Row(s), p, last))
<1> DEFINE u == Chunk(c, n)
<1>1. PICK end \in TextEnds(u) : r \in Inserted(SubSeq(u, WordLen + 1, end))
  BY DEF Rows
<1>2. RowLen \in Nat /\ WordLen \in Nat \ {0} /\ end \in Nat /\ end >= WordLen
  <2>1. RowLen \in Nat /\ WordLen \in Nat \ {0} /\ Len(u) \in Nat
    BY RowLenFacts, WireAssumption, ChunkFacts
  <2> HIDE DEF u
  <2>2. end \in WordLen .. WordLen + Len(u)
    BY DEF TextEnds
  <2>. QED
    BY <2>1, <2>2
<1>3. \A k \in WordLen + 1 .. end :
        p + k - 1 <= WordLen + RowLen /\ u[k] = <<Payload(s), p + k - 1>>
  BY ChunkText
<1>4. \A k \in 1 .. RowLen : Row(s)[k] = <<Payload(s), WordLen + k>>
  BY RowType
<1>5. \A k \in WordLen + 1 .. end : u[k] \in Bytes
  BY ChunkFacts DEF TextEnds
<1> DEFINE text == SubSeq(u, WordLen + 1, end)
           last == IF end = WordLen THEN 0 ELSE p + end - WordLen - 1
           piece == SubSeq(Row(s), p, last)
<1>6. last \in 0 .. RowLen
  <2>1. CASE end > WordLen
    <3>1. end \in WordLen + 1 .. end
      BY <1>2, <2>1
    <3>2. p + end - 1 <= WordLen + RowLen
      BY <1>3, <3>1
    <3>. QED
      BY <1>2, <2>1, <3>2
  <2>. QED
    BY <1>2, <2>1
<1>7. /\ text \in Seq(Bytes) /\ Len(text) = end - WordLen
      /\ \A i \in 1 .. end - WordLen : text[i] = u[WordLen + i]
  <2> HIDE DEF u
  <2>1. /\ text \in Seq(Bytes)
        /\ Len(text) = IF WordLen + 1 <= end THEN end - (WordLen + 1) + 1 ELSE 0
        /\ \A i \in 1 .. end - (WordLen + 1) + 1 : text[i] = u[(WordLen + 1) + i - 1]
    BY <1>2, <1>5, SubSeqProperties
  <2> HIDE DEF text
  <2>2. end - (WordLen + 1) + 1 = end - WordLen
    BY <1>2
  <2>3. \A i \in 1 .. end - WordLen : (WordLen + 1) + i - 1 = WordLen + i
    BY <1>2
  <2>. QED
    BY <1>2, <2>1, <2>2, <2>3
<1>8. /\ piece \in Seq(Bytes) /\ Len(piece) = end - WordLen
      /\ \A i \in 1 .. end - WordLen : piece[i] = Row(s)[p + i - 1]
  <2> HIDE DEF u, last
  <2>1. \A k \in p .. last : Row(s)[k] \in Bytes
    BY <1>2, <1>6, RowType
  <2>2. /\ piece \in Seq(Bytes)
        /\ Len(piece) = IF p <= last THEN last - p + 1 ELSE 0
        /\ \A i \in 1 .. last - p + 1 : piece[i] = Row(s)[p + i - 1]
    BY <1>2, <1>6, <2>1, SubSeqProperties
  <2> HIDE DEF piece
  <2>3. (p <= last <=> end > WordLen) /\ (end > WordLen => last - p + 1 = end - WordLen)
    BY <1>2 DEF last
  <2>. QED
    BY <1>2, <2>2, <2>3
<1>9. ASSUME NEW i \in 1 .. end - WordLen PROVE text[i] = piece[i]
  <2>1. WordLen + i \in WordLen + 1 .. end /\ p + (WordLen + i) - 1 = WordLen + (p + i - 1)
    BY <1>2
  <2>2. u[WordLen + i] = <<Payload(s), WordLen + (p + i - 1)>> /\ WordLen + (p + i - 1) <= WordLen + RowLen
    BY <1>3, <2>1
  <2>3. p + i - 1 \in 1 .. RowLen
    BY <1>2, <2>2
  <2>4. Row(s)[p + i - 1] = <<Payload(s), WordLen + (p + i - 1)>>
    BY <1>4, <2>3
  <2>. QED
    BY <1>7, <1>8, <2>2, <2>4
<1> HIDE DEF u, last, text, piece
<1>10. text = piece
  BY <1>7, <1>8, <1>9, SeqEqual
<1>. QED
  BY <1>1, <1>6, <1>10 DEF text, piece

\* A payload is received and stored.
LEMMA InOrderPayload ==
  ASSUME TypeOK, OneServed, Streams, InOrder, NEW c \in Conns, NEW n \in Receivable(c),
         conn[c] = "served", OfPayload(Chunk(c, n)), Received(c, n),
         NEW r \in Rows(Chunk(c, n)), table' = Append(table, r), UNCHANGED <<uploads, conn>>
  PROVE  InOrder'
<1>1. PICK f \in [1 .. Stored -> UploadPlaces] :
        /\ InTable(f)
        /\ \A d \in Conns : Candidate(d) =>
             \E g \in [Payloads(d) -> UploadPlaces] : Pending(f, d, g)
  BY DEF InOrder
<1>2. PICK g \in [Payloads(c) -> UploadPlaces] : Pending(f, c, g)
  BY <1>1 DEF Candidate
<1>3. PICK h \in [Payloads(c)' -> UploadPlaces'] :
        \A i \in Payloads(c)' : /\ i \in Nat /\ i >= 1 /\ n + i \in Payloads(c)
                                /\ h[i] = g[n + i]
                                /\ toServer'[c][i] = toServer[c][n + i]
  BY RestPending
<1>4. PICK s \in Samples, p \in 1 .. WordLen + RowLen : toServer[c][1] = <<Payload(s), p>>
  BY ChunkStart
<1>5. n \in Nat /\ n >= 1 /\ 1 \in Payloads(c)
  BY <1>4, ChunkFacts DEF Payloads, Payload, Update
<1>6. g[1] \in UploadPlaces /\ toServer[c][1] = <<Payload(uploads[g[1][1]]), g[1][2]>>
  BY <1>2, <1>5 DEF Pending
<1>7. uploads[g[1][1]] = s /\ g[1][2] = p
  BY <1>4, <1>6 DEF Payload
<1>8. PieceOf(r, g[1])
  BY <1>4, <1>7, ChunkPiece DEF PieceOf
<1>9. /\ Len(Initial) \in Nat /\ Len(table) \in Nat /\ Len(table) >= Len(Initial)
      /\ Stored \in Nat /\ Stored' = Stored + 1 /\ Len(table') = Len(table) + 1
  <2>1. table \in Seq(Seq(Bytes)) /\ r \in Seq(Bytes)
    BY ChunkFacts, RowsType DEF TypeOK, ServerType
  <2>2. Len(table') = Len(table) + 1 /\ Len(table) \in Nat
    BY <2>1
  <2>. QED
    BY <2>2, ServiceAssumption DEF InOrder, Stored
<1>10. /\ \A k \in 1 .. Stored : table'[Len(Initial) + k] = table[Len(Initial) + k]
       /\ table'[Len(Initial) + (Stored + 1)] = r
  <2>1. table \in Seq(Seq(Bytes)) /\ Len(Initial) + Stored = Len(table)
    BY <1>9 DEF TypeOK, ServerType, Stored
  <2>2. \A k \in 1 .. Len(table) : table'[k] = table[k]
    BY <2>1
  <2>3. table'[Len(table) + 1] = r
    BY <2>1
  <2>4. \A k \in 1 .. Stored : Len(Initial) + k \in 1 .. Len(table)
    BY <1>9, <2>1
  <2>5. Len(Initial) + (Stored + 1) = Len(table) + 1
    BY <1>9, <2>1
  <2>. QED
    BY <2>2, <2>3, <2>4, <2>5
<1>11. UploadPlaces' = UploadPlaces
  BY DEF UploadPlaces
<1>12. PICK e \in [1 .. Stored' -> UploadPlaces'] :
         e[Stored + 1] = g[1] /\ \A k \in 1 .. Stored : e[k] = f[k]
  <2> DEFINE longer == [k \in 1 .. Stored + 1 |-> IF k <= Stored THEN f[k] ELSE g[1]]
  <2>1. longer \in [1 .. Stored' -> UploadPlaces'] /\ longer[Stored + 1] = g[1]
        /\ \A k \in 1 .. Stored : longer[k] = f[k]
    BY <1>6, <1>9, <1>11
  <2>. QED
    BY <2>1
<1>13. \A k \in 1 .. Stored : Behind(f[k], g[1])
  BY <1>2, <1>5 DEF Pending
<1>14. \A k \in 1 .. Stored + 1 : k \in 1 .. Stored \/ k = Stored + 1
  BY <1>9
<1>15. InTable(e)'
  <2>1. ASSUME NEW k \in 1 .. Stored' PROVE PieceOf(table[Len(Initial) + k], e[k])'
    <3>1. CASE k \in 1 .. Stored
      <4>1. PieceOf(table[Len(Initial) + k], f[k])
        BY <1>1, <3>1 DEF InTable
      <4>2. table'[Len(Initial) + k] = table[Len(Initial) + k] /\ e[k] = f[k]
        BY <1>10, <1>12, <3>1
      <4>. QED
        BY <4>1, <4>2 DEF PieceOf
    <3>2. CASE k = Stored + 1
      <4>1. table'[Len(Initial) + k] = r /\ e[k] = g[1]
        BY <1>10, <1>12, <3>2
      <4>. QED
        BY <1>8, <4>1 DEF PieceOf
    <3>. QED
      BY <1>9, <1>14, <3>1, <3>2
  <2>2. ASSUME NEW i \in 1 .. Stored', NEW j \in 1 .. Stored', i < j
        PROVE  Behind(e[i], e[j])
    <3>1. i \in 1 .. Stored
      BY <1>9, <2>2
    <3>2. CASE j \in 1 .. Stored
      BY <1>1, <1>12, <2>2, <3>1, <3>2 DEF InTable
    <3>3. CASE j = Stored + 1
      BY <1>12, <1>13, <3>1, <3>3
    <3>. QED
      BY <1>9, <1>14, <3>2, <3>3
  <2>. QED
    BY <2>1, <2>2 DEF InTable
<1>16. Pending(e, c, h)'
  <2>1. ASSUME NEW i \in Payloads(c)', NEW k \in 1 .. Stored'
        PROVE  Behind(e[k], h[i])
    <3>1. Behind(g[1], g[n + i]) /\ h[i] = g[n + i] /\ n + i \in Payloads(c)
      BY <1>2, <1>3, <1>5 DEF Pending
    <3>2. CASE k \in 1 .. Stored
      BY <1>2, <1>12, <3>1, <3>2 DEF Pending
    <3>3. CASE k = Stored + 1
      BY <1>12, <3>1, <3>3
    <3>. QED
      BY <1>9, <1>14, <3>2, <3>3
  <2>2. \A i \in Payloads(c)' : toServer'[c][i] = <<Payload(uploads'[h[i][1]]), h[i][2]>>
    BY <1>2, <1>3 DEF Pending
  <2>3. \A i, j \in Payloads(c)' : i < j => n + i < n + j
    BY <1>3, <1>5
  <2>4. \A i, j \in Payloads(c)' : i < j => Behind(h[i], h[j])
    BY <1>2, <1>3, <2>3 DEF Pending
  <2>. QED
    BY <2>1, <2>2, <2>4 DEF Pending
<1>17. \A d \in Conns : Candidate(d)' => d = c
  BY DEF Candidate, OneServed
<1>18. \A d \in Conns : Candidate(d)' =>
         \E g_1 \in [Payloads(d)' -> UploadPlaces'] : Pending(e, d, g_1)'
  BY <1>16, <1>17
<1>19. Len(table') >= Len(Initial)
  BY <1>9
<1>. QED
  BY <1>12, <1>15, <1>18, <1>19 DEF InOrder

\* A message is sent: a request, or a payload that is a new upload.
LEMMA InOrderSend ==
  ASSUME TypeOK, InOrder, NEW head \in Heads, Send(head), UNCHANGED <<table, conn>>,
         \/ head = Update /\ UNCHANGED uploads
         \/ \E s \in Samples : head = Payload(s) /\ uploads' = Append(uploads, s)
  PROVE  InOrder'
<1>1. PICK f \in [1 .. Stored -> UploadPlaces] :
        /\ InTable(f)
        /\ \A d \in Conns : Candidate(d) =>
             \E g \in [Payloads(d) -> UploadPlaces] : Pending(f, d, g)
  BY DEF InOrder
<1>2. /\ uploads \in Seq(Samples) /\ DOMAIN uploads \subseteq DOMAIN uploads'
      /\ \A k \in DOMAIN uploads : uploads'[k] = uploads[k]
  <2>1. uploads \in Seq(Samples)
    BY DEF TypeOK, ClientType
  <2>2. ASSUME NEW s \in Samples, uploads' = Append(uploads, s)
        PROVE  /\ DOMAIN uploads \subseteq DOMAIN uploads'
               /\ \A k \in DOMAIN uploads : uploads'[k] = uploads[k]
    BY <2>1, <2>2
  <2>. QED
    BY <2>1, <2>2
<1>3. /\ UploadPlaces \subseteq UploadPlaces' /\ \A x \in UploadPlaces : x[1] \in DOMAIN uploads
  BY <1>2 DEF UploadPlaces
<1>4. \A x \in UploadPlaces : uploads'[x[1]] = uploads[x[1]]
  BY <1>2, <1>3
<1>5. \A q : \A x \in UploadPlaces : PieceOf(q, x) => PieceOf(q, x)'
  BY <1>4 DEF PieceOf
<1>6. Stored' = Stored /\ f \in [1 .. Stored' -> UploadPlaces']
  BY <1>1, <1>3 DEF Stored
<1>7. InTable(f)'
  BY <1>1, <1>5, <1>6 DEF InTable
<1>8. ASSUME NEW c \in Conns, NEW g \in [Payloads(c) -> UploadPlaces], Pending(f, c, g)
      PROVE  \E h \in [Payloads(c)' -> UploadPlaces'] : Pending(f, c, h)'
  <2> DEFINE n == Len(toServer[c])
             m == Size(head)
  <2>1. Payloads(c) \subseteq 1 .. n /\ n \in Nat /\ m \in Nat
    BY PayloadsType, SizeFacts
  <2>2. CASE Payloads(c)' = Payloads(c) /\ \A i \in Payloads(c) : toServer'[c][i] = toServer[c][i]
    <3>1. g \in [Payloads(c)' -> UploadPlaces']
      BY <1>3, <2>2
    <3>2. \A i \in Payloads(c)' : toServer'[c][i] = <<Payload(uploads'[g[i][1]]), g[i][2]>>
      BY <1>4, <1>8, <2>2 DEF Pending
    <3>3. Pending(f, c, g)'
      BY <1>6, <1>8, <2>2, <3>2 DEF Pending
    <3>. QED
      BY <3>1, <3>3
  <2>3. CASE UNCHANGED toServer[c]
    BY <2>2, <2>3 DEF Payloads
  <2>4. CASE /\ Len(toServer'[c]) = n + m
             /\ \A i \in 1 .. n : toServer'[c][i] = toServer[c][i]
             /\ \A i \in 1 .. m : toServer'[c][n + i] = <<head, i>>
    <3>1. DOMAIN toServer'[c] = 1 .. n + m /\ DOMAIN toServer[c] = 1 .. n
      <4>1. toServer'[c] \in Seq(Bytes) /\ toServer[c] \in Seq(Bytes)
        BY SendType, PayloadsType
      <4>. QED
        BY <2>4, <4>1
    <3> HIDE DEF n, m
    <3>2. \A i \in 1 .. n + m : i \in 1 .. n \/ (i - n \in 1 .. m /\ i = n + (i - n))
      BY <2>1
    <3>3. \A i \in 1 .. n : i \in 1 .. n + m /\ (i \in Payloads(c)' <=> i \in Payloads(c))
      BY <2>1, <2>4, <3>1 DEF Payloads
    <3>4. \A i \in 1 .. n + m : i \notin 1 .. n => toServer'[c][i] = <<head, i - n>>
      BY <2>4, <3>2
    <3>5. CASE head = Update
      <4>1. \A i \in Payloads(c)' : i \in 1 .. n
        BY <3>1, <3>4, <3>5 DEF Payloads
      <4>2. Payloads(c)' = Payloads(c)
        BY <2>1, <3>3, <4>1
      <4>. QED
        BY <2>1, <2>2, <2>4, <4>2
    <3>6. ASSUME NEW s \in Samples, head = Payload(s), uploads' = Append(uploads, s)
          PROVE  \E h \in [Payloads(c)' -> UploadPlaces'] : Pending(f, c, h)'
      <4> DEFINE new == Len(uploads) + 1
      <4>1. /\ new \in DOMAIN uploads' /\ uploads'[new] = s
            /\ \A k \in DOMAIN uploads : k < new
        BY <1>2, <3>6
      <4>2. m = UploadLen
        BY <3>6 DEF m, Size, Payload, Update
      <4> HIDE DEF new
      <4>3. \A i \in Payloads(c)' :
              \/ i \in Payloads(c) /\ i \in 1 .. n /\ toServer'[c][i] = toServer[c][i]
              \/ i \notin 1 .. n /\ i - n \in 1 .. m /\ toServer'[c][i] = <<head, i - n>>
        BY <2>1, <2>4, <3>1, <3>2, <3>3, <3>4 DEF Payloads
      <4>4. \A i \in 1 .. m : <<new, i>> \in UploadPlaces'
        BY <4>1, <4>2 DEF UploadPlaces
      <4>5. PICK h : /\ h \in [Payloads(c)' -> UploadPlaces']
                     /\ \A i \in Payloads(c)' : h[i] = IF i \in 1 .. n THEN g[i] ELSE <<new, i - n>>
        <5> DEFINE longer == [i \in Payloads(c)' |-> IF i \in 1 .. n THEN g[i] ELSE <<new, i - n>>]
        <5>1. longer \in [Payloads(c)' -> UploadPlaces']
          BY <1>3, <4>3, <4>4
        <5>2. \A i \in Payloads(c)' : longer[i] = IF i \in 1 .. n THEN g[i] ELSE <<new, i - n>>
          OBVIOUS
        <5> HIDE DEF longer
        <5>. QED
          BY <5>1, <5>2
      <4>6. \A x \in UploadPlaces : \A i : Behind(x, <<new, i>>)
        BY <1>3, <4>1 DEF Behind
      <4>7. ASSUME NEW i \in Payloads(c)'
            PROVE  toServer'[c][i] = <<Payload(uploads'[h[i][1]]), h[i][2]>>
        <5>1. CASE i \in 1 .. n
          BY <1>4, <1>8, <4>3, <4>5, <5>1 DEF Pending
        <5>2. CASE i \notin 1 .. n
          BY <3>6, <4>1, <4>3, <4>5, <5>2
        <5>. QED
          BY <5>1, <5>2
      <4>8. ASSUME NEW i \in Payloads(c)', NEW j \in Payloads(c)', i < j
            PROVE  Behind(h[i], h[j])
        <5>1. CASE j \in 1 .. n
          <6>1. i \in 1 .. n
            BY <2>1, <3>1, <4>8, <5>1 DEF Payloads
          <6>. QED
            BY <1>8, <4>3, <4>5, <4>8, <5>1, <6>1 DEF Pending
        <5>2. CASE i \in 1 .. n /\ j \notin 1 .. n
          BY <4>3, <4>5, <4>6, <5>2
        <5>3. CASE i \notin 1 .. n /\ j \notin 1 .. n
          <6>1. h[i] = <<new, i - n>> /\ h[j] = <<new, j - n>>
            BY <4>5, <5>3
          <6>2. i - n < j - n
            BY <2>1, <3>1, <4>8 DEF Payloads
          <6>. QED
            BY <6>1, <6>2 DEF Behind
        <5>. QED
          BY <5>1, <5>2, <5>3
      <4>9. ASSUME NEW i \in Payloads(c)', NEW k \in 1 .. Stored'
            PROVE  Behind(f[k], h[i])
        <5>1. CASE i \in 1 .. n
          BY <1>6, <1>8, <4>3, <4>5, <5>1 DEF Pending
        <5>2. CASE i \notin 1 .. n
          BY <1>6, <4>5, <4>6, <5>2
        <5>. QED
          BY <5>1, <5>2
      <4>. QED
        BY <4>5, <4>7, <4>8, <4>9 DEF Pending
    <3>. QED
      BY <3>5, <3>6
  <2>. QED
    BY <2>3, <2>4, SendFacts
<1>9. \A d \in Conns : Candidate(d)' => Candidate(d)
  BY DEF Candidate
<1>10. \A d \in Conns : Candidate(d)' =>
         \E h \in [Payloads(d)' -> UploadPlaces'] : Pending(f, d, h)'
  BY <1>1, <1>8, <1>9
<1>11. Len(table') >= Len(Initial)
  BY DEF InOrder
<1>. QED
  BY <1>6, <1>7, <1>10, <1>11 DEF InOrder

LEMMA InOrderInit == Init => InOrder
<1> SUFFICES ASSUME Init PROVE InOrder
  OBVIOUS
<1>1. Stored = 0 /\ Len(table) >= Len(Initial)
  BY ServiceAssumption DEF Init, ServerInit, Stored
<1> DEFINE none == [i \in {} |-> 0]
<1>2. none \in [1 .. Stored -> UploadPlaces] /\ InTable(none)
  BY <1>1 DEF InTable
<1>3. ASSUME NEW c \in Conns
      PROVE  none \in [Payloads(c) -> UploadPlaces] /\ Pending(none, c, none)
  <2>1. Payloads(c) = {}
    BY DEF Init, WireInit, Payloads
  <2>. QED
    BY <2>1 DEF Pending
<1> HIDE DEF none
<1>. QED
  BY <1>1, <1>2, <1>3 DEF InOrder

LEMMA InOrderStep ==
  ASSUME TypeOK, OneServed, Streams, InOrder, [Next]_vars
  PROVE  InOrder'
<1>1. CASE UNCHANGED <<table, uploads, toServer, conn>>
  BY <1>1, InOrderSame DEF Candidate
<1>2. CASE Server
  <2>1. CASE Accept
    <3>1. \A c \in Conns : Candidate(c)
      BY <2>1 DEF Accept, OneServed, Candidate
    <3>. QED
      BY <1>2, <2>1, <3>1, InOrderSame DEF Server, Accept, clientVars
  <2>2. CASE FetchRow
    BY <1>1, <1>2, <2>2, InOrderEnd DEF Server, FetchRow, clientVars, wireVars
  <2>3. ASSUME NEW c \in Conns, RecvUpdate(c) \/ RecvOther(c) PROVE InOrder'
    BY <1>2, <2>3, InOrderReceived DEF Server, RecvUpdate, RecvOther, Serving, clientVars
  <2>4. ASSUME NEW c \in Conns, RecvPayload(c) PROVE InOrder'
    <3>1. PICK n \in Receivable(c) :
            /\ OfPayload(Chunk(c, n)) /\ Received(c, n)
            /\ table' = table \/ \E r \in Rows(Chunk(c, n)) : table' = Append(table, r)
      BY <2>4 DEF RecvPayload
    <3>2. conn[c] = "served" /\ UNCHANGED <<uploads, conn>>
      BY <1>2, <2>4 DEF Server, RecvPayload, Serving, clientVars
    <3>. QED
      BY <3>1, <3>2, InOrderReceived, InOrderPayload
  <2>5. ASSUME NEW c \in Conns, RecvNothing(c) \/ SendReply(c) PROVE InOrder'
    BY <1>1, <1>2, <2>5 DEF Server, RecvNothing, SendReply, clientVars, wireVars
  <2>. QED
    BY <1>2, <2>1, <2>2, <2>3, <2>4, <2>5 DEF Server, ServerStep
<1>3. CASE Operator
  BY <1>1, <1>3, InOrderEnd DEF Operator, Start, Stop, clientVars, wireVars
<1>4. CASE Client
  BY <1>1, <1>4 DEF Client, ClientStep, Receive, ReceiveFails, WriteLibrary, Ends, Dismiss,
                    serverVars, wireVars
<1>5. CASE User
  <2>1. CASE OpenDialog(server # "down")
    <3>1. \A c \in Conns : conn[c] = "served" <=> conn'[c] = "served"
      BY <2>1, NextConnUnused DEF OpenDialog, NextConn, TypeOK, WireType
    <3>. QED
      BY <1>5, <2>1, <3>1, InOrderSame DEF User, OpenDialog, Candidate, serverVars
  <2>2. CASE ClickUpdate
    <3>1. Update \in Heads
      BY DEF Heads
    <3>. QED
      BY <1>5, <2>2, <3>1, InOrderSend DEF User, ClickUpdate, serverVars
  <2>3. ASSUME NEW s \in Samples, ClickUpload(s) PROVE InOrder'
    <3>1. Payload(s) \in Heads
      BY DEF Heads
    <3>. QED
      BY <1>5, <2>3, <3>1, InOrderSend DEF User, ClickUpload, serverVars
  <2>. QED
    BY <1>1, <1>5, <2>1, <2>2, <2>3
       DEF User, UserStep, CloseDialog, Restart, OpenScan, Ends, wireVars, serverVars
<1>6. CASE UNCHANGED vars
  BY <1>1, <1>6 DEF vars, wireVars, serverVars, clientVars
<1>. QED
  BY <1>2, <1>3, <1>4, <1>5, <1>6 DEF Next

\* Wherever recv() cuts what the client writes, in the type, in the sample or in the zeros
\* behind it, whatever it runs together, whatever connections break and whoever restarts:
\* every row the server inserted is a piece of an uploaded sample, the rows are in the order
\* of the uploads, and no two begin at the same place
\* (TheVirusServer.cpp, 96 to 101 and 166 to 175; CVirusDefenceDialog.cpp, 182 to 197).
THEOREM UploadsInOrder == Spec => []TableFromUploads
<1> DEFINE Inv == TypeOK /\ Attached /\ OneServed /\ Streams /\ InOrder
<1>1. Init => Inv
  BY InitType, InitAttached, OneServedInit, StreamsInit, InOrderInit
<1>2. Inv /\ [Next]_vars => Inv'
  BY NextType, AttachedStep, OneServedStep, StreamsStep, InOrderStep
<1>3. Inv => TableFromUploads
  BY DEF InOrder, InTable, Stored, TableFromUploads
<1>. QED
  BY <1>1, <1>2, <1>3, PTL DEF Spec

-----------------------------------------------------------------------------
(* Between two updates of a tidy table nothing is left in a stream, and the *)
(* library is the text of the first row.                                    *)

\* If no recv() ends inside a write, a stream begins with the first byte of a message.
WholeMessages == ~Splits => \A c \in Conns : toServer[c] # <<>> => toServer[c][1][2] = 1

\* Sockets: those not used and those broken carry nothing, the dialog's own is the
\* running program's.
Sockets ==
  /\ \A c \in Conns : conn[c] \in {"unused", "broken"} => toServer[c] = <<>> /\ toClient[c] = <<>>
  /\ \A c \in Conns : conn[c] = "unused" => c \notin closed
  /\ sock \in Conns => conn[sock] # "unused" /\ sock \notin closed

\* What recv() of the client returns starts with the first row and fits one call.
Reply(r) ==
  /\ table # <<>>
  /\ Len(r) \in RowLen .. RecvLen
  /\ \A b \in 1 .. RowLen : r[b] = table[1][b]

Fetching(c) == conn[c] = "served" /\ server = "fetch"
Waits(c) == dialog = "waiting" /\ c = sock

\* A request is in one place at a time, the end of the stream of the socket on which the
\* dialog waits, with the server, or answered, and it is nowhere if none waits.
Answering(c) ==
  /\ Asks(c) \/ Fetching(c) \/ toClient[c] # <<>> => Waits(c)
  /\ Asks(c) => ~Fetching(c) /\ toClient[c] = <<>>
  /\ \A i \in DOMAIN toServer[c] : toServer[c][i][1] = Update =>
       Len(toServer[c]) = i + (UpdateLen - toServer[c][i][2])
  /\ Fetching(c) => toClient[c] = <<>>
  /\ toClient[c] # <<>> => Reply(toClient[c])

OneRequest == Tidy => \A c \in Conns \ closed : Answering(c)

\* doUpdateVirus has put the rows before the next one together.
Composed ==
  Tidy /\ server = "fetch" =>
    /\ row <= Len(table) + 1 /\ Len(result) = (row - 1) * RowLen
    /\ row > 1 => Reply(result)

Decrypting == Tidy /\ dialog = "decrypting" /\ inBuf # <<>> => Reply(inBuf)

TidyInv == WholeMessages /\ Sockets /\ OneRequest /\ Composed /\ Decrypting /\ FirstRowLearned

\* A table that is tidy was tidy before: it only grows.
Grows == table' = table \/ \E r \in Seq(Bytes) : table' = Append(table, r)

LEMMA AppendFacts ==
  ASSUME NEW S, NEW s \in Seq(S), NEW r \in S
  PROVE  /\ Append(s, r) \in Seq(S) /\ Len(Append(s, r)) = Len(s) + 1
         /\ \A i \in DOMAIN s : Append(s, r)[i] = s[i]
OBVIOUS

LEMMA GrowsFacts ==
  ASSUME TypeOK, Grows
  PROVE  /\ Len(table) \in Nat /\ Len(table') \in Nat /\ Len(table) <= Len(table')
         /\ DOMAIN table = 1 .. Len(table) /\ DOMAIN table' = 1 .. Len(table')
         /\ \A i \in DOMAIN table : table'[i] = table[i]
<1>1. table \in Seq(Seq(Bytes))
  BY DEF TypeOK, ServerType
<1>2. ASSUME NEW r \in Seq(Bytes)
      PROVE  /\ Append(table, r) \in Seq(Seq(Bytes)) /\ Len(Append(table, r)) = Len(table) + 1
             /\ \A i \in DOMAIN table : Append(table, r)[i] = table[i]
  BY <1>1, AppendFacts
<1>3. Len(table) \in Nat /\ DOMAIN table = 1 .. Len(table)
  BY <1>1
<1>4. CASE table' = table
  BY <1>3, <1>4
<1>5. ASSUME NEW r \in Seq(Bytes), table' = Append(table, r)
      PROVE  /\ table' \in Seq(Seq(Bytes)) /\ Len(table') = Len(table) + 1
             /\ \A i \in DOMAIN table : table'[i] = table[i]
  BY <1>2, <1>5
<1>6. ASSUME table' \in Seq(Seq(Bytes)) PROVE DOMAIN table' = 1 .. Len(table')
  BY <1>6
<1>. QED
  BY <1>3, <1>4, <1>5, <1>6 DEF Grows

LEMMA GrowsStep ==
  ASSUME TypeOK, [Next]_vars
  PROVE  Grows
<1>1. ASSUME NEW c \in Conns, RecvPayload(c) PROVE Grows
  <2>1. PICK n \in Receivable(c) :
          table' = table \/ \E r \in Rows(Chunk(c, n)) : table' = Append(table, r)
    BY <1>1 DEF RecvPayload
  <2>2. Rows(Chunk(c, n)) \subseteq Seq(Bytes)
    BY ChunkFacts, RowsType
  <2>. QED
    BY <2>1, <2>2 DEF Grows
<1>2. table' = table \/ \E c \in Conns : RecvPayload(c)
  BY DEF Next, vars, Server, Operator, Client, User, serverVars, ServerStep, Accept, FetchRow, End,
         RecvUpdate, RecvOther, RecvNothing, SendReply, Start, Stop
<1>. QED
  BY <1>1, <1>2 DEF Grows

LEMMA TidyBefore ==
  ASSUME TypeOK, Grows, Tidy'
  PROVE  Tidy
<1>1. /\ Len(table) \in Nat /\ Len(table') \in Nat /\ Len(table) <= Len(table')
      /\ \A i \in DOMAIN table : i \in DOMAIN table' /\ table'[i] = table[i]
  BY GrowsFacts
<1>2. RowLen \in Nat /\ RecvLen \in Nat
  BY WireAssumption, RowLenFacts
<1>3. \A a, b, r \in Nat : a <= b => a * r <= b * r
  OBVIOUS
<1>4. Len(table) * RowLen <= Len(table') * RowLen
  BY <1>1, <1>2, <1>3
<1>5. Len(table) * RowLen \in Nat /\ Len(table') * RowLen \in Nat
  BY <1>1, <1>2
<1>6. Len(table) * RowLen <= RecvLen
  BY <1>2, <1>4, <1>5 DEF Tidy
<1>. QED
  BY <1>1, <1>6 DEF Tidy, Whole

LEMMA ReplyKept ==
  ASSUME TypeOK, Grows, NEW r, Reply(r)
  PROVE  Reply(r)'
BY GrowsFacts DEF Reply, TypeOK, ServerType

-----------------------------------------------------------------------------

LEMMA WholeMessagesStep ==
  ASSUME TypeOK, Streams, WholeMessages, [Next]_vars
  PROVE  WholeMessages'
<1> SUFFICES ASSUME ~Splits, NEW c \in Conns, toServer'[c] # <<>> PROVE toServer'[c][1][2] = 1
  BY DEF WholeMessages
<1>1. /\ toServer[c] \in Seq(Bytes) /\ Framed(toServer[c])
      /\ toServer[c] # <<>> => toServer[c][1][2] = 1
  BY DEF WholeMessages, Streams, TypeOK, WireType
<1>2. CASE toServer'[c] = toServer[c]
  BY <1>1, <1>2
<1>3. CASE End
  BY <1>3 DEF End
<1>4. ASSUME NEW d \in Conns, NEW n \in Receivable(d), Received(d, n)
      PROVE  toServer'[c][1][2] = 1
  <2>1. CASE c = d
    <3>1. n \in 1 .. Len(toServer[c]) /\ toServer[c][n][2] = Size(toServer[c][n][1])
      BY <2>1 DEF Receivable
    <3>2. toServer'[c] = Drop(toServer[c], n)
      BY <1>4, <2>1 DEF Received, TypeOK, WireType
    <3>3. /\ Len(toServer'[c]) = Len(toServer[c]) - n /\ toServer'[c] \in Seq(Bytes)
          /\ \A i \in 1 .. Len(toServer[c]) - n : toServer'[c][i] = toServer[c][n + i]
      <4>1. toServer[c] \in Seq(Bytes) /\ n \in 1 .. Len(toServer[c])
        BY <1>1, <3>1
      <4>2. /\ Drop(toServer[c], n) \in Seq(Bytes)
            /\ Len(Drop(toServer[c], n)) = Len(toServer[c]) - n
            /\ \A i \in 1 .. Len(toServer[c]) - n : Drop(toServer[c], n)[i] = toServer[c][n + i]
        BY <4>1, DropFacts
      <4>. QED
        BY <3>2, <4>2
    <3>4. Len(toServer[c]) \in Nat /\ DOMAIN toServer[c] = 1 .. Len(toServer[c])
      BY <1>1
    <3>5. Len(toServer'[c]) \in Nat \ {0}
      BY <3>3
    <3>6. 1 \in 1 .. Len(toServer[c]) - n
      BY <3>1, <3>3, <3>4, <3>5
    <3>7. n \in DOMAIN toServer[c] /\ n + 1 \in DOMAIN toServer[c]
      BY <3>1, <3>4, <3>6
    <3>. QED
      BY <1>1, <3>1, <3>3, <3>6, <3>7 DEF Framed
  <2>2. CASE c # d
    BY <1>2, <1>4, <2>2 DEF Received, TypeOK, WireType
  <2>. QED
    BY <2>1, <2>2
<1>5. ASSUME NEW head \in Heads, Send(head)
      PROVE  toServer'[c][1][2] = 1
  <2> DEFINE m == Len(toServer[c])
  <2>1. CASE /\ \A i \in 1 .. m : toServer'[c][i] = toServer[c][i]
             /\ \A i \in 1 .. Size(head) : toServer'[c][m + i] = <<head, i>>
    <3>1. CASE toServer[c] = <<>>
      <4>1. m = 0 /\ 1 \in 1 .. Size(head)
        BY <3>1, SizeFacts
      <4>2. toServer'[c][0 + 1] = <<head, 1>>
        BY <2>1, <4>1
      <4>. QED
        BY <4>2
    <3>2. CASE toServer[c] # <<>>
      <4>1. 1 \in 1 .. m
        BY <1>1, <3>2
      <4>. QED
        BY <1>1, <2>1, <3>2, <4>1
    <3>. QED
      BY <3>1, <3>2
  <2>. QED
    BY <1>2, <1>5, <2>1, SendFacts
<1>. QED
  BY <1>2, <1>3, <1>4, <1>5, StreamStep

LEMMA SocketsStep ==
  ASSUME TypeOK, Attached, Sockets, [Next]_vars
  PROVE  Sockets'
<1>1. CASE UNCHANGED <<wireVars, sock>>
  BY <1>1 DEF Sockets, wireVars
<1>2. CASE End /\ UNCHANGED sock
  BY <1>2 DEF End, Sockets, TypeOK, WireType
<1>3. CASE Ends
  BY <1>3 DEF Ends, Sockets, NoConn, Conns
<1>4. CASE Server
  <2>1. CASE Accept
    BY <1>4, <2>1 DEF Server, Accept, Sockets, TypeOK, WireType, clientVars
  <2>2. CASE FetchRow
    BY <1>1, <1>2, <1>4, <2>2 DEF Server, FetchRow, clientVars
  <2>3. ASSUME NEW c \in Conns, RecvUpdate(c) \/ RecvPayload(c) \/ RecvOther(c) PROVE Sockets'
    <3>1. PICK n : Received(c, n)
      BY <2>3 DEF RecvUpdate, RecvPayload, RecvOther
    <3>2. conn[c] = "served" /\ UNCHANGED <<conn, toClient, closed, sock>>
      BY <1>4, <2>3 DEF Server, RecvUpdate, RecvPayload, RecvOther, Serving, clientVars
    <3>3. \A d \in Conns : d # c => toServer'[d] = toServer[d]
      BY <3>1 DEF Received, TypeOK, WireType
    <3>. QED
      BY <3>2, <3>3 DEF Sockets
  <2>4. ASSUME NEW c \in Conns, SendReply(c) PROVE Sockets'
    BY <1>4, <2>4 DEF Server, SendReply, Sockets, TypeOK, WireType, clientVars
  <2>5. ASSUME NEW c \in Conns, RecvNothing(c) PROVE Sockets'
    BY <1>1, <1>4, <2>5 DEF Server, RecvNothing, clientVars
  <2>. QED
    BY <1>4, <2>1, <2>2, <2>3, <2>4, <2>5 DEF Server, ServerStep
<1>5. CASE Operator
  BY <1>1, <1>2, <1>5 DEF Operator, Start, Stop, clientVars
<1>6. CASE Client
  <2>1. CASE Receive
    BY <2>1 DEF Receive, Connected, Sockets, TypeOK, WireType
  <2>. QED
    BY <1>1, <1>3, <1>6, <2>1 DEF Client, ClientStep, ReceiveFails, WriteLibrary, Dismiss
<1>7. CASE User
  <2>1. CASE OpenDialog(server # "down")
    BY <2>1, NextConnUnused DEF OpenDialog, NextConn, Sockets, TypeOK, WireType
  <2>2. ASSUME NEW head \in Heads, Send(head), UNCHANGED <<conn, toClient, closed, sock>>
        PROVE  Sockets'
    BY <2>2 DEF Send, Connected, Sockets, TypeOK, WireType
  <2>3. CASE ClickUpdate
    BY <2>2, <2>3 DEF ClickUpdate, Heads
  <2>4. ASSUME NEW s \in Samples, ClickUpload(s) PROVE Sockets'
    BY <2>2, <2>4 DEF ClickUpload, Heads
  <2>. QED
    BY <1>1, <1>3, <1>7, <2>1, <2>3, <2>4 DEF User, UserStep, CloseDialog, Restart, OpenScan
<1>8. CASE UNCHANGED vars
  BY <1>1, <1>8 DEF vars, clientVars
<1>. QED
  BY <1>4, <1>5, <1>6, <1>7, <1>8 DEF Next

-----------------------------------------------------------------------------

\* A connection whose streams a step leaves alone.
LEMMA AnsweringSame ==
  ASSUME TypeOK, Grows, NEW c \in Conns, Answering(c),
         toServer'[c] = toServer[c], toClient'[c] = toClient[c],
         Fetching(c)' => Fetching(c), Waits(c) => Waits(c)'
  PROVE  Answering(c)'
<1>1. Asks(c)' = Asks(c)
  BY DEF Asks
<1>2. Reply(toClient[c]) => Reply(toClient[c])'
  <2> SUFFICES ASSUME NEW r, r = toClient[c], Reply(r) PROVE Reply(toClient[c])'
    OBVIOUS
  <2>1. Reply(r)'
    BY ReplyKept
  <2>2. toClient'[c] = r
    OBVIOUS
  <2>. QED
    BY <2>1, <2>2 DEF Reply
<1>. QED
  BY <1>1, <1>2 DEF Answering

\* A connection with nothing of an update.
LEMMA AnsweringNothing ==
  ASSUME NEW c \in Conns, ~Asks(c)', ~Fetching(c)', toClient'[c] = <<>>
  PROVE  Answering(c)'
BY DEF Answering, Asks

\* The program ends: the connections of its next life are those not used so far.
LEMMA AnsweringEnds ==
  ASSUME Sockets, Ends, UNCHANGED serverVars, NEW c \in Conns \ closed'
  PROVE  Answering(c)'
<1>1. conn[c] = "unused" /\ conn'[c] = "unused"
  BY DEF Ends
<1>2. toServer'[c] = <<>> /\ toClient'[c] = <<>>
  BY <1>1 DEF Ends, Sockets
<1>. QED
  BY <1>1, <1>2, AnsweringNothing DEF Asks, Fetching

\* The request is received: it was the end of the stream and nothing is left of it.
LEMMA AnsweringRequest ==
  ASSUME TypeOK, Streams, WholeMessages, ~Splits, NEW c \in Conns, Answering(c), RecvUpdate(c),
         UNCHANGED clientVars
  PROVE  Answering(c)'
<1>1. PICK n \in Receivable(c) : OfUpdate(Chunk(c, n)) /\ Received(c, n)
  BY DEF RecvUpdate
<1> DEFINE s == toServer[c]
<1>2. /\ s \in Seq(Bytes) /\ n \in 1 .. Len(s) /\ 1 \in DOMAIN s /\ s # <<>>
      /\ 1 \in DOMAIN Chunk(c, n) /\ Chunk(c, n)[1] = s[1]
  BY ChunkFacts
<1>3. /\ UpdateLen \in Nat /\ UpdateLen > 0 /\ WordLen \in Nat \ {0}
      /\ Size(Update) = UpdateLen
  BY WireAssumption DEF Size
<1>4. s[1] = <<Update, 1>>
  <2>1. IsZero(s[1]) /\ s[1][2] = 1 /\ s[1] = <<s[1][1], s[1][2]>>
    BY <1>1, <1>2, <1>3, ByteFacts DEF OfUpdate, WholeMessages
  <2>2. s[1] \notin Zeros
    <3>1. \A k \in 1 .. RowLen : WordLen + k # 1
      BY <1>3, RowLenFacts
    <3>2. \A x \in CipherBytes : x[2] # 1
      BY <3>1 DEF CipherBytes, CipherByte
    <3>. QED
      BY <2>1, <3>2, WireAssumption
  <2>. QED
    BY <2>1, <2>2 DEF IsZero
<1>5. Waits(c) /\ toClient[c] = <<>>
  BY <1>2, <1>4 DEF Answering, Asks
<1>6. Len(s) = UpdateLen
  BY <1>2, <1>3, <1>4 DEF Answering
<1>7. n = Len(s)
  <2>1. n \in s[1][2] .. Size(s[1][1]) /\ 1 + (n - s[1][2]) = n
    BY <1>2, <1>3, <1>4, <1>6
  <2>2. s[1 + (n - s[1][2])] = <<s[1][1], n>>
    BY <1>2, <2>1 DEF Streams, Framed
  <2>3. s[n] = <<Update, n>>
    BY <1>4, <2>1, <2>2
  <2>. QED
    BY <1>3, <1>6, <2>3 DEF Receivable
<1>8. toServer'[c] = <<>>
  <2>1. toServer'[c] = Drop(s, n)
    BY <1>1 DEF Received, TypeOK, WireType
  <2>2. Drop(s, n) \in Seq(Bytes) /\ Len(Drop(s, n)) = Len(s) - n
    BY <1>2, DropFacts
  <2>3. Len(s) - n = 0
    BY <1>2, <1>7
  <2>. QED
    BY <2>1, <2>2, <2>3
<1>9. ~Asks(c)' /\ toClient'[c] = <<>> /\ Waits(c)'
  BY <1>5, <1>8 DEF Asks, Waits, RecvUpdate, clientVars
<1>. QED
  BY <1>8, <1>9 DEF Answering

\* Anything else is received, with what was sent behind it perhaps: what is left of a
\* request is still the end of the stream.
LEMMA AnsweringOther ==
  ASSUME TypeOK, Grows, NEW c \in Conns, Answering(c), RecvPayload(c) \/ RecvOther(c),
         UNCHANGED clientVars
  PROVE  Answering(c)'
<1>1. PICK n \in Receivable(c) : Received(c, n)
  BY DEF RecvPayload, RecvOther
<1>2. n \in 1 .. Len(toServer[c]) /\ toServer[c] \in Seq(Bytes)
  BY PayloadsType DEF Receivable
<1>3. /\ toServer'[c] = Drop(toServer[c], n)
      /\ Len(toServer'[c]) = Len(toServer[c]) - n /\ toServer'[c] \in Seq(Bytes)
      /\ \A i \in 1 .. Len(toServer[c]) - n : toServer'[c][i] = toServer[c][n + i]
  BY <1>1, <1>2, DropFacts DEF Received, TypeOK, WireType
<1>4. ASSUME NEW i \in DOMAIN toServer'[c], toServer'[c][i][1] = Update
      PROVE  Asks(c) /\ Len(toServer'[c]) = i + (UpdateLen - toServer'[c][i][2])
  <2>1. i \in 1 .. Len(toServer[c]) - n
    BY <1>3
  <2>2. n + i \in DOMAIN toServer[c] /\ toServer[c][n + i] = toServer'[c][i]
    <3>1. DOMAIN toServer[c] = 1 .. Len(toServer[c]) /\ Len(toServer[c]) \in Nat
      BY <1>2
    <3>2. n + i \in 1 .. Len(toServer[c])
      BY <1>2, <2>1, <3>1
    <3>. QED
      BY <1>3, <2>1, <3>1, <3>2
  <2> DEFINE m == UpdateLen - toServer'[c][i][2]
  <2>3. Len(toServer[c]) = (n + i) + m
    BY <1>4, <2>2 DEF Answering
  <2>4. m \in Int /\ Len(toServer[c]) \in Nat
    <3>1. toServer'[c][i] \in Bytes /\ UpdateLen \in Nat
      BY <1>3, WireAssumption
    <3>. QED
      BY <1>2, <3>1, ByteFacts, SizeFacts
  <2> HIDE DEF m
  <2>5. Len(toServer'[c]) = i + m
    BY <1>2, <1>3, <2>1, <2>3, <2>4
  <2>. QED
    BY <1>4, <2>2, <2>5 DEF Asks, m
<1>5. Asks(c)' => Asks(c)
  BY <1>4 DEF Asks
<1>6. ~Fetching(c)' /\ Waits(c)' = Waits(c) /\ toClient'[c] = toClient[c]
  BY DEF RecvPayload, RecvOther, Serving, Fetching, Waits, clientVars
<1>7. ASSUME toClient[c] # <<>> PROVE Reply(toClient[c])'
  <2> SUFFICES ASSUME NEW r, r = toClient[c], Reply(r) PROVE Reply(toClient[c])'
    BY <1>7 DEF Answering
  <2>1. Reply(r)'
    BY ReplyKept
  <2>. QED
    BY <1>6, <2>1 DEF Reply
<1>. QED
  BY <1>4, <1>5, <1>6, <1>7 DEF Answering

\* The reply is sent to the connection from which the request came.
LEMMA AnsweringSent ==
  ASSUME TypeOK, Tidy, Composed, NEW c \in Conns \ closed, Answering(c), SendReply(c),
         UNCHANGED clientVars
  PROVE  Answering(c)'
<1>1. Fetching(c)
  BY DEF SendReply, Fetching
<1>2. Waits(c) /\ ~Asks(c) /\ toClient[c] = <<>>
  BY <1>1 DEF Answering
<1>3. toClient'[c] = result
  <2>1. toClient'[c] = toClient[c] \o result
    BY DEF SendReply, TypeOK, WireType
  <2>2. result \in Seq(Bytes)
    BY DEF TypeOK, ServerType
  <2>. QED
    BY <1>2, <2>1, <2>2
<1>4. result = <<>> \/ Reply(result)
  <2>1. /\ row \in Nat \ {0} /\ result \in Seq(Bytes) /\ RowLen \in Nat
        /\ Len(result) = (row - 1) * RowLen /\ (row > 1 => Reply(result))
    BY RowLenFacts DEF Composed, SendReply, TypeOK, ServerType
  <2>2. CASE row = 1
    BY <2>1, <2>2
  <2>. QED
    BY <2>1, <2>2
<1>5. toClient'[c] # <<>> => Reply(toClient[c])'
  BY <1>3, <1>4 DEF Reply, SendReply
<1>6. ~Asks(c)' /\ ~Fetching(c)' /\ Waits(c)'
  BY <1>2 DEF SendReply, Asks, Fetching, Waits, clientVars
<1>. QED
  BY <1>5, <1>6 DEF Answering, Asks

\* The client reads the whole reply in one call.
LEMMA AnsweringRead ==
  ASSUME TypeOK, Tidy, Attached, Sockets, OneRequest, Receive, UNCHANGED serverVars
  PROVE  Reply(inBuf)' /\ \A c \in Conns : c = sock => Answering(c)'
<1> DEFINE here == Len(toClient[sock])
           most == IF here < RecvLen THEN here ELSE RecvLen
<1>1. sock \in Conns /\ sock \notin closed /\ Answering(sock)
  BY DEF Receive, Attached, Sockets, OneRequest
<1>2. toClient[sock] \in Seq(Bytes) /\ toClient[sock] # <<>> /\ Reply(toClient[sock])
  BY <1>1 DEF TypeOK, WireType, Receive, Answering
<1>3. most = here /\ here \in Nat
  BY <1>2, WireAssumption DEF Reply
<1>4. PICK n \in {most} : /\ inBuf' = SubSeq(toClient[sock], 1, n)
                          /\ toClient' = [toClient EXCEPT ![sock] = Drop(@, n)]
  <2>1. \E n \in IF Splits THEN 1 .. most ELSE {most} :
          /\ inBuf' = SubSeq(toClient[sock], 1, n)
          /\ toClient' = [toClient EXCEPT ![sock] = Drop(@, n)]
    BY DEF Receive
  <2> HIDE DEF most
  <2>. QED
    BY <2>1 DEF Tidy
<1>5. inBuf' = SubSeq(toClient[sock], 1, here) /\ toClient'[sock] = Drop(toClient[sock], here)
  BY <1>1, <1>3, <1>4 DEF TypeOK, WireType
<1>6. inBuf' = toClient[sock] /\ toClient'[sock] = <<>>
  BY <1>2, <1>5 DEF Drop
<1>7. ~Asks(sock) /\ ~Fetching(sock)
  BY <1>1, <1>2 DEF Answering
<1>8. /\ UNCHANGED <<sock, toServer, conn, server, table>>
  BY DEF Receive, serverVars
<1>9. \A c \in Conns : c = sock => Answering(c)'
  BY <1>6, <1>7, <1>8 DEF Answering, Asks, Fetching
<1>. QED
  BY <1>2, <1>6, <1>8, <1>9 DEF Reply

\* A message is sent on a socket on which nothing is asked.
LEMMA AnsweringSend ==
  ASSUME TypeOK, NEW c \in Conns, Answering(c), dialog = "idle", NEW head \in Heads, Send(head),
         c = sock, UNCHANGED <<conn, toClient, sock, serverVars>>,
         head = Update => dialog' = "waiting"
  PROVE  Answering(c)'
<1>1. ~Asks(c) /\ ~Fetching(c) /\ toClient[c] = <<>>
  BY DEF Answering, Waits
<1>2. ~Fetching(c)' /\ toClient'[c] = <<>>
  BY <1>1 DEF Fetching, serverVars
<1>3. CASE toServer'[c] = toServer[c]
  BY <1>1, <1>2, <1>3, AnsweringNothing DEF Asks
<1> DEFINE n == Len(toServer[c])
<1>4. CASE /\ Len(toServer'[c]) = n + Size(head)
           /\ \A i \in 1 .. n : toServer'[c][i] = toServer[c][i]
           /\ \A i \in 1 .. Size(head) : toServer'[c][n + i] = <<head, i>>
  <2>1. /\ toServer[c] \in Seq(Bytes) /\ toServer'[c] \in Seq(Bytes)
        /\ n \in Nat /\ Size(head) \in Nat
        /\ DOMAIN toServer[c] = 1 .. n /\ DOMAIN toServer'[c] = 1 .. n + Size(head)
    BY <1>4, SendType, SizeFacts DEF TypeOK, WireType
  <2> HIDE DEF n
  <2>2. \A i \in 1 .. n + Size(head) :
          i \in 1 .. n \/ (i - n \in 1 .. Size(head) /\ n + (i - n) = i)
    BY <2>1
  <2>3. \A i \in 1 .. n : toServer'[c][i][1] # Update
    BY <1>1, <1>4, <2>1 DEF Asks
  <2>4. ASSUME NEW i \in DOMAIN toServer'[c], toServer'[c][i][1] = Update
        PROVE  head = Update /\ Len(toServer'[c]) = i + (UpdateLen - toServer'[c][i][2])
    <3>1. i - n \in 1 .. Size(head) /\ n + (i - n) = i
      BY <2>1, <2>2, <2>3, <2>4
    <3>2. toServer'[c][i] = <<head, i - n>>
      BY <1>4, <3>1
    <3>3. head = Update /\ Size(head) = UpdateLen
      BY <2>4, <3>2 DEF Size
    <3>4. n + UpdateLen = i + (UpdateLen - (i - n))
      BY <2>1, <3>3
    <3>. QED
      BY <1>4, <3>2, <3>3, <3>4
  <2>5. Asks(c)' => Waits(c)'
    BY <2>4 DEF Asks, Waits
  <2>. QED
    BY <1>2, <2>4, <2>5 DEF Answering
<1>. QED
  BY <1>3, <1>4, SendFacts

LEMMA OneRequestStep ==
  ASSUME TypeOK, Attached, OneServed, Streams, WholeMessages, Sockets, Composed, OneRequest, [Next]_vars
  PROVE  OneRequest'
<1> SUFFICES ASSUME Tidy', NEW c \in Conns \ closed' PROVE Answering(c)'
  BY DEF OneRequest, Conns
<1>1. Grows /\ Tidy /\ ~Splits
  BY GrowsStep, TidyBefore DEF Tidy
<1>2. c \in Conns /\ (c \notin closed => Answering(c))
  BY <1>1 DEF OneRequest
<1>3. CASE /\ c \notin closed /\ UNCHANGED <<toServer, toClient>>
           /\ (Fetching(c)' => Fetching(c)) /\ (Waits(c) => Waits(c)')
  BY <1>1, <1>2, <1>3, AnsweringSame
<1>4. CASE End
  BY <1>2, <1>4, AnsweringNothing DEF End, Asks, Fetching
<1>5. CASE Ends /\ UNCHANGED serverVars
  BY <1>5, AnsweringEnds
<1>6. CASE Server
  <2>1. c \notin closed /\ (Waits(c) => Waits(c)')
    BY <1>6 DEF Server, ServerStep, Accept, FetchRow, End, RecvUpdate, RecvPayload, RecvOther,
                RecvNothing, SendReply, Waits, clientVars, wireVars
  <2>2. CASE Accept
    BY <1>3, <2>1, <2>2 DEF Accept, Fetching
  <2>3. CASE FetchRow
    BY <1>3, <1>4, <2>1, <2>3 DEF FetchRow, Fetching, wireVars
  <2>4. ASSUME NEW d \in Conns, RecvUpdate(d) PROVE Answering(c)'
    <3>1. CASE d = c
      BY <1>1, <1>2, <1>6, <2>1, <2>4, <3>1, AnsweringRequest DEF Server
    <3>2. CASE d # c
      <4>1. toServer'[c] = toServer[c] /\ toClient'[c] = toClient[c]
        BY <2>4, <3>2 DEF RecvUpdate, Received, TypeOK, WireType
      <4>2. ~Fetching(c)'
        BY <1>2, <2>4, <3>2 DEF RecvUpdate, Serving, Fetching, OneServed
      <4>. QED
        BY <1>1, <1>2, <2>1, <4>1, <4>2, AnsweringSame
    <3>. QED
      BY <3>1, <3>2
  <2>5. ASSUME NEW d \in Conns, RecvPayload(d) \/ RecvOther(d) PROVE Answering(c)'
    <3>1. CASE d = c
      BY <1>1, <1>2, <1>6, <2>1, <2>5, <3>1, AnsweringOther DEF Server
    <3>2. CASE d # c
      <4>1. toServer'[c] = toServer[c] /\ toClient'[c] = toClient[c]
        BY <2>5, <3>2 DEF RecvPayload, RecvOther, Received, TypeOK, WireType
      <4>2. ~Fetching(c)'
        BY <2>5 DEF RecvPayload, RecvOther, Serving, Fetching
      <4>. QED
        BY <1>1, <1>2, <2>1, <4>1, <4>2, AnsweringSame
    <3>. QED
      BY <3>1, <3>2
  <2>6. ASSUME NEW d \in Conns, RecvNothing(d) PROVE Answering(c)'
    <3>1. d # c
      BY <2>1, <2>6 DEF RecvNothing
    <3>2. ~Fetching(c)' /\ UNCHANGED <<toServer, toClient>>
      BY <1>2, <2>6, <3>1 DEF RecvNothing, Serving, Fetching, OneServed, wireVars
    <3>. QED
      BY <1>3, <2>1, <3>2
  <2>7. ASSUME NEW d \in Conns, SendReply(d) PROVE Answering(c)'
    <3>1. CASE d = c
      BY <1>1, <1>2, <1>6, <2>1, <2>7, <3>1, AnsweringSent DEF Server
    <3>2. CASE d # c
      <4>1. toServer'[c] = toServer[c] /\ toClient'[c] = toClient[c]
        BY <2>7, <3>2 DEF SendReply, TypeOK, WireType
      <4>2. ~Fetching(c)'
        BY <2>7 DEF SendReply, Fetching
      <4>. QED
        BY <1>1, <1>2, <2>1, <4>1, <4>2, AnsweringSame
    <3>. QED
      BY <3>1, <3>2
  <2>. QED
    BY <1>6, <2>2, <2>3, <2>4, <2>5, <2>6, <2>7 DEF Server, ServerStep
<1>7. CASE Operator
  BY <1>3, <1>4, <1>7 DEF Operator, Start, Stop, Fetching, Waits, clientVars, wireVars
<1>8. CASE Client
  <2>1. ASSUME c # sock, c \notin closed, UNCHANGED <<conn, server, toServer[c], toClient[c]>>
        PROVE  Answering(c)'
    BY <1>1, <1>2, <2>1, AnsweringSame DEF Fetching, Waits
  <2>2. CASE Receive
    <3>1. CASE c = sock
      BY <1>1, <1>8, <2>2, <3>1, AnsweringRead DEF Client
    <3>2. CASE c # sock
      BY <1>2, <1>8, <2>1, <2>2, <3>2
         DEF Client, Receive, TypeOK, WireType, serverVars
    <3>. QED
      BY <3>1, <3>2
  <2>3. CASE ReceiveFails
    <3>1. CASE c = sock
      <4>1. conn[c] \in {"unused", "broken"}
        BY <1>2, <2>3, <3>1 DEF ReceiveFails, Connected, TypeOK, WireType
      <4>2. toServer'[c] = <<>> /\ toClient'[c] = <<>> /\ ~Fetching(c)'
        BY <1>2, <2>3, <4>1 DEF ReceiveFails, Sockets, Fetching, wireVars
      <4>. QED
        BY <1>2, <4>2, AnsweringNothing DEF Asks
    <3>2. CASE c # sock
      BY <1>8, <2>1, <2>3, <3>2 DEF Client, ReceiveFails, wireVars, serverVars
    <3>. QED
      BY <3>1, <3>2
  <2>4. CASE WriteLibrary
    BY <1>3, <1>5, <1>8, <2>4 DEF Client, WriteLibrary, Fetching, Waits, wireVars, serverVars
  <2>5. CASE Dismiss
    BY <1>3, <1>8, <2>5 DEF Client, Dismiss, Fetching, Waits, wireVars, serverVars
  <2>. QED
    BY <1>8, <2>2, <2>3, <2>4, <2>5 DEF Client, ClientStep
<1>9. CASE User
  <2>1. CASE OpenDialog(server # "down")
    <3>1. conn'[c] = "served" => conn[c] = "served"
      BY <1>2, <2>1, NextConnUnused DEF OpenDialog, NextConn, TypeOK, WireType
    <3>. QED
      BY <1>3, <1>9, <2>1, <3>1 DEF User, OpenDialog, Fetching, Waits, serverVars
  <2>2. ASSUME NEW head \in Heads, Send(head), dialog = "idle",
               UNCHANGED <<conn, toClient, closed, sock, serverVars>>,
               head = Update => dialog' = "waiting"
        PROVE  Answering(c)'
    <3>1. CASE c = sock
      BY <1>2, <2>2, <3>1, AnsweringSend
    <3>2. CASE c # sock
      <4>1. toServer'[c] = toServer[c]
        BY <1>2, <2>2, <3>2 DEF Send, TypeOK, WireType
      <4>. QED
        BY <1>1, <1>2, <2>2, <3>2, <4>1, AnsweringSame DEF Fetching, Waits, serverVars
    <3>. QED
      BY <3>1, <3>2
  <2>3. CASE ClickUpdate
    BY <1>9, <2>2, <2>3 DEF User, ClickUpdate, Heads
  <2>4. ASSUME NEW s \in Samples, ClickUpload(s) PROVE Answering(c)'
    BY <1>9, <2>2, <2>4 DEF User, ClickUpload, Heads, Payload, Update
  <2>5. CASE Restart
    BY <1>5, <1>9, <2>5 DEF User, Restart
  <2>6. CASE OpenScan
    BY <1>3, <1>5, <1>9, <2>6 DEF User, OpenScan, Fetching, Waits, wireVars, serverVars
  <2>7. CASE CloseDialog
    BY <1>3, <1>9, <2>7 DEF User, CloseDialog, Fetching, Waits, wireVars, serverVars
  <2>. QED
    BY <1>9, <2>1, <2>3, <2>4, <2>5, <2>6, <2>7 DEF User, UserStep
<1>10. CASE UNCHANGED vars
  BY <1>3, <1>10 DEF vars, wireVars, serverVars, clientVars, Fetching, Waits
<1>. QED
  BY <1>6, <1>7, <1>8, <1>9, <1>10 DEF Next

-----------------------------------------------------------------------------

\* Putting one more row behind those composed so far.
LEMMA ComposedRow ==
  ASSUME TypeOK, Tidy, Composed, FetchRow, server' = "fetch"
  PROVE  Composed'
<1>1. /\ row \in Nat \ {0} /\ result \in Seq(Bytes) /\ table \in Seq(Seq(Bytes))
      /\ row <= Len(table) /\ server = "fetch"
  BY DEF TypeOK, ServerType, FetchRow
<1>2. /\ RowLen \in Nat /\ RowLen > 2 /\ RecvLen \in Nat /\ Len(table) \in Nat
  BY <1>1, WireAssumption, RowLenFacts
<1>3. /\ result' = result \o table[row] /\ row' = row + 1 /\ UNCHANGED table
  BY DEF FetchRow, End
<1>4. row \in DOMAIN table
  BY <1>1
<1>5. table[row] \in Seq(Bytes) /\ Len(table[row]) = RowLen
  <2>1. PICK s \in Samples : table[row] = Row(s)
    BY <1>4 DEF Tidy, Whole
  <2>. QED
    BY <2>1, RowType
<1>6. /\ Len(result') = Len(result) + RowLen
      /\ \A i \in 1 .. Len(result) : result'[i] = result[i]
      /\ \A i \in 1 .. RowLen : result'[Len(result) + i] = table[row][i]
  BY <1>1, <1>3, <1>5, ConcatFacts
<1>7. Len(result) = (row - 1) * RowLen /\ (row > 1 => Reply(result))
  BY <1>1 DEF Composed
<1>8. Len(result') = (row' - 1) * RowLen
  <2>1. (row - 1) * RowLen + RowLen = row * RowLen
    BY <1>1, <1>2
  <2>2. row' - 1 = row
    BY <1>1, <1>3
  <2>. QED
    BY <1>6, <1>7, <2>1, <2>2
<1>9. Len(result') \in RowLen .. RecvLen
  <2>1. \A a, b, r \in Nat : a <= b => a * r <= b * r
    OBVIOUS
  <2>2. row * RowLen <= Len(table) * RowLen /\ 1 * RowLen <= row * RowLen
    <3>1. row \in Nat /\ 1 <= row /\ row <= Len(table)
      BY <1>1
    <3>. QED
      BY <1>2, <2>1, <3>1
  <2>3. Len(table) * RowLen <= RecvLen /\ row' - 1 = row
    BY <1>1, <1>3 DEF Tidy
  <2>4. row * RowLen \in Nat /\ Len(table) * RowLen \in Nat /\ 1 * RowLen = RowLen
    BY <1>1, <1>2
  <2>. QED
    BY <1>2, <1>8, <2>2, <2>3, <2>4
<1>10. \A b \in 1 .. RowLen : result'[b] = table[1][b]
  <2>1. CASE row = 1
    <3>1. Len(result) = 0
      BY <1>2, <1>7, <2>1
    <3>2. \A b \in 1 .. RowLen : result'[0 + b] = table[row][b] /\ 0 + b = b
      BY <1>2, <1>6, <3>1
    <3>. QED
      BY <2>1, <3>2
  <2>2. CASE row > 1
    <3>1. Len(result) >= RowLen /\ \A b \in 1 .. RowLen : result[b] = table[1][b]
      BY <1>7, <2>2, <1>2 DEF Reply
    <3>2. Len(result) \in Nat
      BY <1>1
    <3>3. \A b \in 1 .. RowLen : b \in 1 .. Len(result)
      BY <1>2, <3>1, <3>2
    <3>. QED
      BY <1>6, <3>1, <3>3
  <2>. QED
    BY <1>1, <2>1, <2>2
<1>11. Reply(result)'
  <2>1. table' # <<>>
    BY <1>1, <1>3
  <2>. QED
    BY <1>3, <1>9, <1>10, <2>1 DEF Reply
<1>12. row' <= Len(table) + 1
  BY <1>1, <1>3, <1>2
<1>. QED
  BY <1>3, <1>8, <1>11, <1>12 DEF Composed

LEMMA ComposedStep ==
  ASSUME TypeOK, Composed, [Next]_vars
  PROVE  Composed'
<1> SUFFICES ASSUME Tidy', server' = "fetch" PROVE Composed'
  BY DEF Composed
<1>1. Tidy
  BY GrowsStep, TidyBefore
<1>2. CASE UNCHANGED <<table, server, result, row>>
  BY <1>1, <1>2 DEF Composed, Reply
<1>3. CASE result' = <<>> /\ row' = 1
  <2>1. row' <= Len(table') + 1 /\ ~(row' > 1)
    BY <1>1, <1>3, GrowsStep, GrowsFacts
  <2>2. Len(result') = 0 /\ 0 = (1 - 1) * RowLen
    BY <1>3, RowLenFacts
  <2>. QED
    BY <1>3, <2>1, <2>2 DEF Composed
<1>4. CASE FetchRow
  BY <1>1, <1>4, ComposedRow
<1>5. CASE Server
  BY <1>3, <1>4, <1>5
     DEF Server, ServerStep, Accept, RecvUpdate, RecvPayload, RecvOther, RecvNothing,
         SendReply, Serving
<1>6. CASE Operator
  BY <1>6 DEF Operator, Start, Stop, End
<1>7. CASE Client \/ User \/ UNCHANGED vars
  BY <1>2, <1>7 DEF Client, User, vars, serverVars
<1>. QED
  BY <1>5, <1>6, <1>7 DEF Next

LEMMA DecryptingStep ==
  ASSUME TypeOK, Attached, Sockets, OneRequest, Decrypting, [Next]_vars
  PROVE  Decrypting'
<1> SUFFICES ASSUME Tidy', dialog' = "decrypting", inBuf' # <<>> PROVE Reply(inBuf)'
  BY DEF Decrypting
<1>1. Tidy /\ Grows
  BY GrowsStep, TidyBefore
<1>2. CASE UNCHANGED <<dialog, inBuf>>
  <2> SUFFICES ASSUME NEW r, r = inBuf, Reply(r) PROVE Reply(inBuf)'
    BY <1>1, <1>2 DEF Decrypting
  <2>1. Reply(r)'
    BY <1>1, ReplyKept
  <2>. QED
    BY <1>2, <2>1 DEF Reply
<1>3. CASE Receive /\ UNCHANGED serverVars
  BY <1>1, <1>3, AnsweringRead
<1>4. CASE Server \/ Operator \/ UNCHANGED vars
  BY <1>2, <1>4 DEF Server, Operator, vars, clientVars
<1>5. CASE Client
  BY <1>3, <1>5 DEF Client, ClientStep, ReceiveFails, WriteLibrary, Ends, Dismiss
<1>6. CASE User
  BY <1>2, <1>6 DEF User, UserStep, OpenDialog, CloseDialog, Restart, Ends, OpenScan,
                    ClickUpdate, ClickUpload
<1>. QED
  BY <1>4, <1>5, <1>6 DEF Next

\* A block of the buffer that was received from an encrypted sample decrypts to the
\* block of that sample, and to no other.
LEMMA PlainOfRow ==
  ASSUME NEW s \in Samples, NEW b \in 1 .. RowBlocks, NEW buffer,
         \A k \in 1 .. RowLen : k \in DOMAIN buffer /\ buffer[k] = CipherByte(s, k)
  PROVE  Plain(buffer, b) = <<s, b>>
<1>1. /\ BlockLen \in Nat \ {0} /\ RowBlocks \in Nat /\ WordLen \in Nat
      /\ RowLen = RowBlocks * BlockLen /\ RowLen \in Nat
  BY WireAssumption, RowLenFacts DEF RowLen
<1>2. \A x, y, r \in Nat : x <= y => x * r <= y * r
  OBVIOUS
<1>3. \A x, y \in Nat : x * BlockLen = y * BlockLen => x = y
  <2>1. \A x, y \in Nat : x + 1 <= y => (x + 1) * BlockLen <= y * BlockLen
    BY <1>1, <1>2
  <2>2. \A x \in Nat : (x + 1) * BlockLen = x * BlockLen + BlockLen /\ x * BlockLen \in Nat
    BY <1>1
  <2>3. \A x, y \in Nat : x + 1 <= y => x * BlockLen # y * BlockLen
    BY <1>1, <2>1, <2>2
  <2>. QED
    BY <2>3
<1>4. ASSUME NEW j \in 1 .. BlockLen PROVE (b - 1) * BlockLen + j \in 1 .. RowLen
  <2>1. b * BlockLen <= RowBlocks * BlockLen
    BY <1>1, <1>2
  <2>2. b * BlockLen = (b - 1) * BlockLen + BlockLen /\ (b - 1) * BlockLen \in Nat
    BY <1>1
  <2>. QED
    BY <1>1, <2>1, <2>2
<1>5. Holds(buffer, b, <<s, b>>)
  BY <1>4 DEF Holds
<1>6. ASSUME NEW block \in Block, Holds(buffer, b, block) PROVE block = <<s, b>>
  <2>1. 1 \in 1 .. BlockLen
    BY <1>1
  <2>2. buffer[(b - 1) * BlockLen + 1] = CipherByte(s, (b - 1) * BlockLen + 1)
    BY <1>4, <2>1
  <2>3. buffer[(b - 1) * BlockLen + 1] = CipherByte(block[1], (block[2] - 1) * BlockLen + 1)
    BY <1>6, <2>1 DEF Holds
  <2>4. block = <<block[1], block[2]>> /\ block[2] \in 1 .. RowBlocks
    BY DEF Block
  <2>5. block[1] = s /\ WordLen + ((block[2] - 1) * BlockLen + 1) = WordLen + ((b - 1) * BlockLen + 1)
    BY <2>2, <2>3 DEF CipherByte, Payload
  <2>6. (block[2] - 1) * BlockLen = (b - 1) * BlockLen
    <3> DEFINE x == (block[2] - 1) * BlockLen
               y == (b - 1) * BlockLen
    <3>1. x \in Int /\ y \in Int
      BY <1>1, <2>4
    <3> HIDE DEF x, y
    <3>2. WordLen + (x + 1) = WordLen + (y + 1)
      BY <2>5 DEF x, y
    <3>3. x = y
      BY <1>1, <3>1, <3>2
    <3>. QED
      BY <3>3 DEF x, y
  <2>7. block[2] - 1 = b - 1
    BY <1>1, <1>3, <2>4, <2>6
  <2>. QED
    BY <1>1, <2>4, <2>5, <2>7
<1>7. <<s, b>> \in Block
  BY DEF Block
<1>8. (CHOOSE block \in Block : Holds(buffer, b, block)) = <<s, b>>
  BY <1>5, <1>6, <1>7
<1>. QED
  BY <1>5, <1>7, <1>8 DEF Plain

\* The text of a reply is that of its first row: the NUL block of the row ends it.
LEMMA TextOfReply ==
  ASSUME TypeOK, NEW buffer \in Seq(Bytes), Reply(buffer), NEW s \in Samples, table[1] = Row(s)
  PROVE  TextOf(buffer, TRUE) = Text(s)
<1> DEFINE blocks == Decrypted(buffer, TRUE)
           n == TextLength(blocks)
           m == RowBlocks - 2
<1>1. /\ RowBlocks \in Nat /\ RowBlocks > 2 /\ DecryptOut \in Nat /\ RowBlocks - 1 <= DecryptOut
      /\ Len(buffer) \in Nat /\ RowLen \in Nat /\ RowLen <= Len(buffer)
  BY WireAssumption, RowLenFacts DEF Reply
<1>2. \A k \in 1 .. RowLen : k \in DOMAIN buffer /\ buffer[k] = CipherByte(s, k)
  BY <1>1, RowType DEF Reply, CipherByte
<1>3. /\ blocks \in Seq(Block \cup {Junk}) /\ Len(blocks) = DecryptOut
      /\ \A b \in 1 .. RowBlocks - 1 : blocks[b] = <<s, b>>
  <2>1. blocks = [b \in 1 .. DecryptOut |-> Plain(buffer, b)]
    BY DEF Decrypted
  <2>2. \A b \in 1 .. RowBlocks - 1 : Plain(buffer, b) = <<s, b>> /\ b \in 1 .. DecryptOut
    BY <1>1, <1>2, PlainOfRow
  <2> HIDE DEF blocks
  <2>. QED
    BY <1>1, <2>1, <2>2, PlainType
<1>4. \A b \in 1 .. RowBlocks - 1 : IsNul(blocks[b]) <=> b = RowBlocks - 1
  <2>1. \A b \in 1 .. RowBlocks - 1 : <<s, b>> # Junk /\ <<s, b>>[2] = b
    BY DEF Junk
  <2> HIDE DEF blocks
  <2>. QED
    BY <1>3, <2>1 DEF IsNul
<1>5. /\ n \in 0 .. DecryptOut
      /\ Before(n, blocks)
      /\ n = DecryptOut \/ IsNul(blocks[n + 1])
  BY TextLengthFacts
<1> HIDE DEF blocks, n
<1>6. ~(RowBlocks - 1 <= n)
  BY <1>1, <1>4, <1>5 DEF Before
<1>7. n + 1 \in 1 .. RowBlocks - 1 /\ n # DecryptOut
  BY <1>1, <1>5, <1>6
<1>8. n = m
  BY <1>1, <1>4, <1>5, <1>7
<1>9. SubSeq(blocks, 1, m) = [b \in 1 .. m |-> <<s, b>>]
  <2> DEFINE t == SubSeq(blocks, 1, m)
  <2>1. t \in Seq(Block \cup {Junk}) /\ Len(t) = m /\ \A b \in 1 .. m : t[b] = blocks[b]
    BY <1>1, <1>3
  <2>2. \A b \in 1 .. m : t[b] = <<s, b>>
    BY <1>1, <1>3, <2>1
  <2> HIDE DEF t, m
  <2>3. t = [b \in 1 .. m |-> t[b]]
    BY <2>1
  <2>4. t = [b \in 1 .. m |-> <<s, b>>]
    BY <2>2, <2>3, Zenon
  <2>. QED
    BY <2>4 DEF t
<1>. QED
  BY <1>8, <1>9 DEF TextOf, Text, blocks, n

LEMMA FirstWhole ==
  ASSUME TypeOK, Tidy, table # <<>>
  PROVE  \E s \in Samples : table[1] = Row(s)
BY DEF TypeOK, ServerType, Tidy, Whole

LEMMA FirstRowStep ==
  ASSUME TypeOK, Decrypting, FirstRowLearned, [Next]_vars
  PROVE  FirstRowLearned'
<1> SUFFICES ASSUME Tidy' PROVE FirstRowLearned'
  BY DEF FirstRowLearned
<1>1. Tidy /\ Grows
  BY GrowsStep, TidyBefore
<1>2. CASE UNCHANGED library
  <2>1. table # <<>> => 1 \in DOMAIN table /\ 1 \in DOMAIN table' /\ table'[1] = table[1]
    BY <1>1, GrowsFacts DEF TypeOK, ServerType
  <2>2. \A s \in First : s \in First'
    BY <2>1 DEF First
  <2>. QED
    BY <1>1, <1>2, <2>2 DEF FirstRowLearned
<1>3. CASE WriteLibrary /\ ~Ends /\ UNCHANGED serverVars
  <2>1. library' = TextOf(inBuf, TRUE) /\ UNCHANGED table
    BY <1>1, <1>3 DEF WriteLibrary, Tidy, serverVars
  <2>2. CASE inBuf = <<>>
    BY <2>1, <2>2 DEF FirstRowLearned
  <2>3. CASE inBuf # <<>>
    <3>1. Reply(inBuf) /\ inBuf \in Seq(Bytes)
      BY <1>1, <1>3, <2>3 DEF Decrypting, WriteLibrary, TypeOK, ClientType
    <3>2. PICK s \in Samples : table[1] = Row(s)
      BY <1>1, <3>1, FirstWhole DEF Reply
    <3>3. library' = Text(s)
      BY <2>1, <3>1, <3>2, TextOfReply
    <3>4. s \in First'
      BY <2>1, <3>1, <3>2 DEF First, Reply
    <3>. QED
      BY <3>3, <3>4 DEF FirstRowLearned
  <2>. QED
    BY <2>2, <2>3
<1>4. CASE Server \/ Operator \/ UNCHANGED vars
  BY <1>2, <1>4 DEF Server, Operator, vars, clientVars
<1>5. CASE Client
  BY <1>2, <1>3, <1>5 DEF Client, ClientStep, Receive, ReceiveFails, Ends, Dismiss, fileVars
<1>6. CASE User
  BY <1>2, <1>6 DEF User, UserStep, OpenDialog, CloseDialog, Restart, Ends, OpenScan,
                    ClickUpdate, ClickUpload, fileVars
<1>. QED
  BY <1>4, <1>5, <1>6 DEF Next

LEMMA TidyInvInit == Init => TidyInv
<1> SUFFICES ASSUME Init PROVE TidyInv
  OBVIOUS
<1>1. /\ conn = [c \in Conns |-> "unused"] /\ closed = {}
      /\ \A c \in Conns : toServer[c] = <<>> /\ toClient[c] = <<>>
      /\ server = "down" /\ dialog = "closed" /\ sock = NoConn /\ library = NoFile
  BY DEF Init, WireInit, ServerInit, ClientInit
<1>2. WholeMessages
  BY <1>1 DEF WholeMessages
<1>3. Sockets
  BY <1>1 DEF Sockets, NoConn, Conns
<1>4. OneRequest
  BY <1>1 DEF OneRequest, Answering, Asks, Fetching
<1>5. Composed /\ Decrypting /\ FirstRowLearned
  BY <1>1 DEF Composed, Decrypting, FirstRowLearned
<1>. QED
  BY <1>2, <1>3, <1>4, <1>5 DEF TidyInv

\* The invariant of the service: it holds for any table, and says what is in the streams
\* and in the buffers as long as the table is tidy.
ServiceInv == TypeOK /\ Attached /\ OneServed /\ Streams /\ TidyInv

LEMMA ServiceInvariant == Spec => []ServiceInv
<1>1. Init => ServiceInv
  BY InitType, InitAttached, OneServedInit, StreamsInit, TidyInvInit DEF ServiceInv
<1>2. ServiceInv /\ [Next]_vars => ServiceInv'
  BY NextType, AttachedStep, OneServedStep, StreamsStep, WholeMessagesStep, SocketsStep,
     OneRequestStep, ComposedStep, DecryptingStep, FirstRowStep DEF ServiceInv, TidyInv
<1>. QED
  BY <1>1, <1>2, PTL DEF Spec

\* However often a client updates from a tidy table, of any size that fits one recv: the
\* library is the text of the first row, whatever rows follow, or what the zero bytes of
\* a failed recv decrypt to (CVirusDefenceDialog.cpp, 104 to 146).
THEOREM LearnsFirstRow == Spec => []FirstRowLearned
BY ServiceInvariant, PTL DEF ServiceInv, TidyInv

\* Between two updates of a tidy table no connection of the running program holds a request
\* or a reply, whoever closed dialogs, ended programs or stopped servers in between, and the
\* server is composing none: an answer can only be that to the question before it.
THEOREM StreamsEmptied == Spec => []NothingLeft
<1>1. ServiceInv => NothingLeft
  <2> SUFFICES ASSUME ServiceInv, Tidy, dialog # "waiting", NEW c \in Conns \ closed
               PROVE  /\ ~Asks(c)
                      /\ toClient[c] = <<>>
                      /\ conn[c] = "served" => server # "fetch"
    BY DEF NothingLeft
  <2>1. ~Asks(c) /\ ~Fetching(c) /\ toClient[c] = <<>>
    BY DEF ServiceInv, TidyInv, OneRequest, Answering, Waits
  <2>. QED
    BY <2>1 DEF Fetching
<1>. QED
  BY <1>1, ServiceInvariant, PTL

-----------------------------------------------------------------------------
(* What an update that received something has written.                      *)

\* Unlike FirstRowLearned this says which of its cases it is: while the box of success is
\* up after an answer came, the library is the text of the first row.
AnswerWritten ==
  Tidy /\ dialog = "updated" /\ inBuf # <<>> =>
    \E s \in Samples : table # <<>> /\ table[1] = Row(s) /\ library = Text(s)

\* All rows of the table are of one sample, however often it was uploaded.
OneSample == \A i, j \in DOMAIN table : table[i] = table[j]

LEMMA AnswerWrittenStep ==
  ASSUME TypeOK, Decrypting, AnswerWritten, [Next]_vars
  PROVE  AnswerWritten'
<1> SUFFICES ASSUME Tidy', dialog' = "updated", inBuf' # <<>>
             PROVE  \E s \in Samples : table' # <<>> /\ table'[1] = Row(s) /\ library' = Text(s)
  BY DEF AnswerWritten
<1>1. Tidy /\ Grows
  BY GrowsStep, TidyBefore
<1>2. CASE UNCHANGED <<dialog, inBuf, library>>
  <2>1. PICK s \in Samples : table # <<>> /\ table[1] = Row(s) /\ library = Text(s)
    BY <1>1, <1>2 DEF AnswerWritten
  <2>2. 1 \in DOMAIN table
    BY <2>1 DEF TypeOK, ServerType
  <2>3. 1 \in DOMAIN table' /\ table'[1] = table[1]
    BY <1>1, <2>2, GrowsFacts
  <2>. QED
    BY <1>2, <2>1, <2>3
<1>3. CASE WriteLibrary /\ UNCHANGED serverVars
  <2>1. library' = TextOf(inBuf, TRUE) /\ UNCHANGED <<table, inBuf>>
    BY <1>1, <1>3 DEF WriteLibrary, Ends, Tidy, serverVars
  <2>2. Reply(inBuf) /\ inBuf \in Seq(Bytes)
    BY <1>1, <1>3, <2>1 DEF Decrypting, WriteLibrary, TypeOK, ClientType
  <2>3. table # <<>>
    BY <2>2 DEF Reply
  <2>4. PICK s \in Samples : table[1] = Row(s)
    BY <1>1, <2>3, FirstWhole
  <2>5. library' = Text(s)
    BY <2>1, <2>2, <2>4, TextOfReply
  <2>. QED
    BY <2>1, <2>3, <2>4, <2>5
<1>4. CASE Server \/ Operator \/ UNCHANGED vars
  BY <1>2, <1>4 DEF Server, Operator, vars, clientVars
<1>5. CASE Client
  BY <1>3, <1>5 DEF Client, ClientStep, Receive, ReceiveFails, Dismiss
<1>6. CASE User
  BY <1>2, <1>6 DEF User, UserStep, OpenDialog, CloseDialog, Restart, Ends, OpenScan,
                    ClickUpdate, ClickUpload, fileVars
<1>. QED
  BY <1>4, <1>5, <1>6 DEF Next

LEMMA AnswersWritten == Spec => [](ServiceInv /\ AnswerWritten)
<1>1. Init => AnswerWritten
  BY DEF Init, ClientInit, AnswerWritten
<1>2. ServiceInv /\ AnswerWritten /\ [Next]_vars => AnswerWritten'
  BY AnswerWrittenStep DEF ServiceInv, TidyInv
<1>. QED
  BY <1>1, <1>2, ServiceInvariant, PTL DEF Spec

\* "The update succeeded, the local library is already the latest" is true of a tidy table
\* that holds one sample, if the server answered: run VirusServiceLatest refutes it with a
\* second sample, whose row is received and dropped (CVirusDefenceDialog.cpp, 104 to 148).
THEOREM LatestOfOneSample == Spec => [](Tidy /\ OneSample /\ inBuf # <<>> => UpToDate)
<1>1. ServiceInv /\ AnswerWritten => (Tidy /\ OneSample /\ inBuf # <<>> => UpToDate)
  <2> SUFFICES ASSUME ServiceInv, AnswerWritten, Tidy, OneSample, inBuf # <<>>,
                      dialog = "updated", NEW i \in DOMAIN table, NEW s \in Samples,
                      table[i] = Row(s)
               PROVE  library = Text(s)
    BY DEF UpToDate
  <2>1. PICK t \in Samples : table # <<>> /\ table[1] = Row(t) /\ library = Text(t)
    BY DEF AnswerWritten
  <2>2. 1 \in DOMAIN table
    BY <2>1 DEF ServiceInv, TypeOK, ServerType
  <2>3. Row(s) = Row(t)
    BY <2>1, <2>2 DEF OneSample
  <2>4. 1 \in 1 .. RowLen
    BY RowLenFacts
  <2>5. s = t
    BY <2>3, <2>4, RowType DEF Payload
  <2>. QED
    BY <2>1, <2>5
<1>. QED
  BY <1>1, AnswersWritten, PTL

=============================================================================
