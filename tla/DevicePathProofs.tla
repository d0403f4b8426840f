-------------------------- MODULE DevicePathProofs --------------------------
(***************************************************************************)
(* When the process list shows the path of a program right, for any drives  *)
(* and names of devices.                                                    *)
(***************************************************************************)
EXTENDS DevicePath, TLAPS

CONSTANT Character

Text == Seq(Character)

\* Texts of one length with the same characters are the same.
LEMMA SameText ==
  ASSUME NEW s \in Text, NEW t \in Text, Len(s) = Len(t),
         \A k \in 1 .. Len(t) : s[k] = t[k]
  PROVE  s = t
BY DEF Text

\* A beginning agrees with the text as far as it goes.
LEMMA PrefixAgrees ==
  ASSUME NEW s \in Text, NEW t \in Text
  PROVE  IsPrefix(s, t) <=> Len(s) <= Len(t) /\ \A k \in 1 .. Len(s) : s[k] = t[k]
<1>1. SubSeq(s, 1, Len(s)) = s
  BY DEF Text
<1>2. CASE Len(s) <= Len(t)
  <2> DEFINE head == SubSeq(t, 1, Len(s))
  <2>1. head \in Text /\ Len(head) = Len(s) /\ \A k \in 1 .. Len(s) : head[k] = t[k]
    BY <1>2 DEF Text
  <2> HIDE DEF head
  <2>2. s = head <=> \A k \in 1 .. Len(s) : s[k] = head[k]
    BY <2>1 DEF Text
  <2>3. IsPrefix(s, t) <=> s = head
    BY <1>1, <1>2 DEF IsPrefix, head
  <2>. QED
    BY <1>2, <2>1, <2>2, <2>3
<1>3. CASE ~(Len(s) <= Len(t))
  BY <1>3 DEF IsPrefix
<1>. QED
  BY <1>2, <1>3

\* Of two beginnings of one text one begins the other.
LEMMA PrefixesCompare ==
  ASSUME NEW s \in Text, NEW t \in Text, NEW path \in Text,
         IsPrefix(s, path), IsPrefix(t, path)
  PROVE  IsPrefix(s, t) \/ IsPrefix(t, s)
<1>1. /\ Len(s) \in Nat /\ Len(t) \in Nat
      /\ \A k \in 1 .. Len(s) : s[k] = path[k]
      /\ \A k \in 1 .. Len(t) : t[k] = path[k]
  BY PrefixAgrees DEF Text
<1>2. CASE Len(s) <= Len(t)
  BY <1>1, <1>2, PrefixAgrees
<1>3. CASE Len(t) <= Len(s)
  BY <1>1, <1>3, PrefixAgrees
<1>. QED
  BY <1>1, <1>2, <1>3

\* What the loop does when it ends at a drive first.
LEMMA EndsAt ==
  ASSUME NEW i \in DOMAIN Drives, DOMAIN Drives \subseteq Nat, NEW path,
         i \in Ending(path), \A j \in Ending(path) : i <= j, Names(i) # NoDevice
  PROVE  DosPath2NTPath(path) =
           [drive |-> Drives[i], rest |-> SubSeq(path, Len(Names(i)) + 1, Len(path))]
<1> DEFINE ends == Ending(path)
           k == CHOOSE k \in ends : \A j \in ends : k <= j
<1>1. ends \subseteq Nat /\ ends # {}
  BY DEF Ending, Asked
<1>2. k \in ends /\ \A j \in ends : k <= j
  OBVIOUS
<1>3. k = i
  <2> HIDE DEF k
  <2>. QED
    BY <1>1, <1>2
<1>. QED
  BY <1>1, <1>3 DEF DosPath2NTPath

\* The path behind the name of the device is what is shown behind the drive.
LEMMA Behind ==
  ASSUME NEW name \in Text, NEW rest \in Text
  PROVE  /\ IsPrefix(name, name \o rest)
         /\ SubSeq(name \o rest, Len(name) + 1, Len(name \o rest)) = rest
<1> DEFINE path == name \o rest
           tail == SubSeq(path, Len(name) + 1, Len(path))
<1>1. /\ path \in Text /\ Len(path) = Len(name) + Len(rest)
      /\ \A k \in 1 .. Len(name) : path[k] = name[k]
      /\ \A k \in 1 .. Len(rest) : path[Len(name) + k] = rest[k]
  BY DEF Text
<1>2. Len(name) \in Nat /\ Len(rest) \in Nat
  BY DEF Text
<1> HIDE DEF path
<1>3. IsPrefix(name, path)
  BY <1>1, <1>2, PrefixAgrees
<1>4. /\ tail \in Text /\ Len(tail) = Len(rest)
      /\ \A k \in 1 .. Len(rest) : tail[k] = path[Len(name) + k]
  BY <1>1, <1>2 DEF Text
<1> HIDE DEF tail
<1>5. \A k \in 1 .. Len(rest) : tail[k] = rest[k]
  BY <1>1, <1>4
<1>6. tail = rest
  BY <1>4, <1>5, SameText
<1>. QED
  BY <1>3, <1>6 DEF path, tail

\* A program's path is shown on its own drive if every drive before tells its name and
\* no name begins another one (ProcessMangerAlphaDlg.cpp, 549 to 583).
THEOREM PathRight ==
  ASSUME DOMAIN Drives \subseteq Nat, NEW i \in Asked, NEW rest \in Text,
         NoDevice \notin Text,
         \A j \in Asked : j <= i => Names(j) \in Text,
         \A j \in Asked : j < i => ~IsPrefix(Names(j), Names(i)) /\ ~IsPrefix(Names(i), Names(j))
  PROVE  DosPath2NTPath(Names(i) \o rest) = [drive |-> Drives[i], rest |-> rest]
<1> DEFINE name == Names(i)
           path == name \o rest
<1>1. i \in DOMAIN Drives /\ i \in Nat /\ name \in Text
  BY DEF Asked
<1>2. path \in Text
  BY <1>1 DEF Text
<1>3. IsPrefix(name, path) /\ SubSeq(path, Len(name) + 1, Len(path)) = rest
  BY <1>1, Behind
<1> HIDE DEF name, path
<1>4. i \in Ending(path)
  BY <1>3 DEF Ending, name
<1>5. ASSUME NEW j \in Ending(path), j < i PROVE FALSE
  <2>1. j \in Asked /\ Names(j) \in Text /\ IsPrefix(Names(j), path)
    <3>1. j \in Asked /\ j \in Nat
      BY DEF Ending, Asked
    <3>2. Names(j) \in Text
      BY <1>1, <1>5, <3>1
    <3>. QED
      BY <3>1, <3>2 DEF Ending
  <2>. QED
    BY <1>1, <1>2, <1>3, <1>5, <2>1, PrefixesCompare DEF name
<1>6. \A j \in Ending(path) : i <= j
  BY <1>1, <1>5 DEF Ending, Asked
<1>7. name # NoDevice
  BY <1>1
<1>. QED
  BY <1>1, <1>3, <1>4, <1>6, <1>7, EndsAt DEF name, path

\* If the first drive whose name begins the path belongs to another device, whose name
\* begins this one's ("...Volume1" and "...Volume10"), the path is shown on that drive,
\* with the end of the device's name in it (ProcessMangerAlphaDlg.cpp, 574).
THEOREM PathOnOtherDrive ==
  ASSUME DOMAIN Drives \subseteq Nat, NEW i \in Asked, NEW number \in Text, NEW rest \in Text,
         NoDevice \notin Text, Names(i) \in Text,
         \A j \in Asked : j < i => Names(j) # NoDevice
                                     /\ ~IsPrefix(Names(j), Names(i) \o (number \o rest))
  PROVE  DosPath2NTPath((Names(i) \o number) \o rest) =
           [drive |-> Drives[i], rest |-> number \o rest]
<1> DEFINE name == Names(i)
           behind == number \o rest
           path == name \o behind
<1>1. i \in DOMAIN Drives /\ i \in Nat /\ name \in Text /\ behind \in Text
  BY DEF Asked, Text
<1>2. (name \o number) \o rest = path
  BY <1>1 DEF Text
<1> HIDE DEF behind
<1>3. IsPrefix(name, path) /\ SubSeq(path, Len(name) + 1, Len(path)) = behind
  BY <1>1, Behind
<1> HIDE DEF name, path
<1>4. i \in Ending(path)
  BY <1>3 DEF Ending, name
<1>5. \A j \in Asked : j < i => j \notin Ending(path)
  BY DEF Ending, path, name, behind
<1>6. \A j \in Ending(path) : i <= j
  BY <1>1, <1>5 DEF Ending, Asked
<1>. QED
  BY <1>1, <1>2, <1>3, <1>4, <1>6, EndsAt DEF name, path, behind

=============================================================================
