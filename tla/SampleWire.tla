----------------------------- MODULE SampleWire -----------------------------
(***************************************************************************)
(* What the virus server and the anti-virus dialog share: their messages,   *)
(* the TCP connections between them and the format of a stored sample.      *)
(*                                                                         *)
(* A stream is a sequence of bytes, which recv() may cut anywhere.  A byte  *)
(* of a message is named by the message and its place in it: the operators  *)
(* IsZero and IsOne say what it is worth to who reads it.  A sample is the  *)
(* text of a hash; encrypted it is RowBlocks cipher blocks of BlockLen      *)
(* bytes: its text, one block of NUL bytes, one block of padding (4 + 1 +   *)
(* 1 blocks of 8 bytes in the code).                                        *)
(***************************************************************************)
EXTENDS Integers, Sequences, FiniteSets

CONSTANTS
  Samples,     \* what the user may upload
  WordLen,     \* bytes of a message's type (4)
  BlockLen,    \* bytes of a cipher block (8)
  RowBlocks,   \* blocks of an encrypted sample (6)
  UploadLen,   \* bytes sent of an upload (200)
  UpdateLen,   \* bytes sent of an update (204)
  ServerRecv,  \* bytes the server receives at most (1000)
  RecvLen,     \* bytes the client receives at most (200)
  DecryptOut,  \* blocks the client decrypts (88 bytes in, 80 out: 10)
  ReplyCap,    \* bytes that fit the server's buffer (1000 with a NUL: 999)
  Zeros,       \* the bytes of encrypted samples that are 0,
  Ones,        \* those that are 1
  Backslashes, \* and those that are a backslash
  Backlog,     \* connections that may wait to be accepted
  Splits,      \* a recv() may end inside what one send() wrote
  SameKey,     \* whether encryption and decryption use the same key: the outcomes
  MaxConns     \* bound: sockets the client opens

RowLen == RowBlocks * BlockLen

\* A message is named by its type and sample.
Update == <<"update">>
Payload(s) == <<"payload", s>>
Heads == {Update} \cup {Payload(s) : s \in Samples}
Size(head) == IF head = Update THEN UpdateLen ELSE UploadLen
Message(head) == [i \in 1 .. Size(head) |-> <<head, i>>]
Bytes == {x \in Heads \X Nat : x[2] \in 1 .. Size(x[1])}

\* An encrypted sample, which follows the type of its message.
CipherByte(s, k) == <<Payload(s), WordLen + k>>
Row(s) == [k \in 1 .. RowLen |-> CipherByte(s, k)]
CipherBytes == {CipherByte(s, k) : s \in Samples, k \in 1 .. RowLen}

ASSUME WireAssumption ==
  /\ WordLen \in Nat \ {0} /\ BlockLen \in Nat \ {0} /\ RowBlocks \in Nat /\ RowBlocks > 2
  /\ UploadLen \in Nat /\ UploadLen >= RowLen + 2 * WordLen
  /\ UpdateLen \in Nat /\ UpdateLen > WordLen
  /\ ServerRecv \in Nat /\ RecvLen \in Nat \ {0} /\ ReplyCap \in Nat
  /\ DecryptOut \in Nat /\ DecryptOut >= RowBlocks - 1
  /\ Zeros \subseteq CipherBytes /\ Ones \subseteq CipherBytes /\ Zeros \cap Ones = {}
  /\ Backslashes \subseteq CipherBytes \ (Zeros \cup Ones)
  /\ Backlog \in Nat /\ MaxConns \in Nat /\ Splits \in BOOLEAN
  /\ SameKey \in (SUBSET BOOLEAN) \ {{}}

Conns == 1 .. MaxConns
NoConn == 0

\* What the bytes are worth: a payload is of type 1, an update of type 0 with the
\* text "0", integers are little-endian, and everything behind the data is zero.
IsOne(x) == x \in Ones \/ (x[1] # Update /\ x[2] = 1)
IsZero(x) ==
  \/ x \in Zeros
  \/ x[1] = Update /\ x[2] # WordLen + 1
  \/ x[1] # Update /\ x[2] \notin {1} \cup (WordLen + 1 .. WordLen + RowLen)

VARIABLES
  conn,      \* [Conns -> "unused", "queued", "served" or "broken"]
  toServer,  \* [Conns -> Seq(Bytes)]
  toClient,  \* [Conns -> Seq(Bytes)]
  closed     \* connections whose client has ended

wireVars == <<conn, toServer, toClient, closed>>

WireType ==
  /\ conn \in [Conns -> {"unused", "queued", "served", "broken"}]
  /\ toServer \in [Conns -> Seq(Bytes)]
  /\ toClient \in [Conns -> Seq(Bytes)]
  /\ closed \in SUBSET Conns

WireInit ==
  /\ conn = [c \in Conns |-> "unused"]
  /\ toServer = [c \in Conns |-> <<>>]
  /\ toClient = [c \in Conns |-> <<>>]
  /\ closed = {}

\* What recv() leaves of a stream.
Drop(stream, n) == SubSeq(stream, n + 1, Len(stream))

-----------------------------------------------------------------------------
(* Decryption on the client: block by block, into a buffer of zero bytes    *)
(* that is used as a C string.  The cipher takes 24 bytes from a key array  *)
(* of 16: the last 8 are what lies behind the array on the stack, which may *)
(* differ between encryption and decryption.                                *)

Block == Samples \X (1 .. RowBlocks)
Text(s) == [b \in 1 .. RowBlocks - 2 |-> <<s, b>>]

\* Block number b of the buffer is the given block of an encrypted sample.
Holds(buffer, b, block) ==
  \A j \in 1 .. BlockLen :
    /\ (b - 1) * BlockLen + j \in DOMAIN buffer
    /\ buffer[(b - 1) * BlockLen + j] = CipherByte(block[1], (block[2] - 1) * BlockLen + j)

\* Anything else, what was not received included, decrypts to bytes without meaning.
Junk == <<"junk">>
IsNul(block) == block # Junk /\ block[2] = RowBlocks - 1

Plain(buffer, b) ==
  IF \E block \in Block : Holds(buffer, b, block)
  THEN CHOOSE block \in Block : Holds(buffer, b, block)
  ELSE Junk

Decrypted(buffer, sameKey) ==
  [b \in 1 .. DecryptOut |-> IF sameKey THEN Plain(buffer, b) ELSE Junk]

\* The text ends before the first NUL block.
Before(n, blocks) == \A b \in 1 .. n : ~IsNul(blocks[b])
TextLength(blocks) ==
  CHOOSE n \in 0 .. DecryptOut :
    Before(n, blocks) /\ (n = DecryptOut \/ IsNul(blocks[n + 1]))

TextOf(buffer, sameKey) ==
  LET blocks == Decrypted(buffer, sameKey)
  IN SubSeq(blocks, 1, TextLength(blocks))

=============================================================================
