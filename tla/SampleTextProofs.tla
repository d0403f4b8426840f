-------------------------- MODULE SampleTextProofs --------------------------
(***************************************************************************)
(* Which scan recognises which sample, for digests of any length.           *)
(***************************************************************************)
EXTENDS SampleText, FiniteSetTheorems, TLAPS

\* The scan of a folder recognises an uploaded sample whose digest holds no zero byte:
\* the upload's loop (CVirusDefenceDialog.cpp, 175 to 180) and the scan's
\* (CByPathKillingDialog.cpp, 132 to 136) write the same text.
THEOREM FolderScanRecognises ==
  ASSUME NEW digest \in Seq(Byte), \A k \in DOMAIN digest : digest[k] # 0
  PROVE  FolderScanText(digest) = UploadText(digest)
<1>1. Passed(digest) = 1 .. Len(digest)
  BY DEF Passed
<1>2. Cardinality(1 .. Len(digest)) = Len(digest)
  <2> DEFINE n == Len(digest)
  <2>1. n \in Nat
    OBVIOUS
  <2> HIDE DEF n
  <2>2. Cardinality(1 .. n) = n
    BY <2>1, FS_Interval, 1 \in Int
  <2>. QED
    BY <2>2 DEF n
<1>3. SubSeq(digest, 1, Len(digest)) = digest
  OBVIOUS
<1>. QED
  BY <1>1, <1>2, <1>3 DEF FolderScanText, UploadText

\* The full-disk scan recognises no uploaded sample with a letter in its text, whatever
\* file it looks at: it writes capital letters (CAllKillingDialog.cpp, 162), the upload
\* small ones (CVirusDefenceDialog.cpp, 177), and the texts are compared as they are.
THEOREM FullScanMisses ==
  ASSUME NEW sample \in Seq(Byte), NEW file \in Seq(Byte),
         NEW k \in DOMAIN UploadText(sample), UploadText(sample)[k].value > 9
  PROVE  FullScanText(file) # UploadText(sample)
<1> DEFINE kept == SubSeq(sample, 1, Cardinality(Passed(sample)))
<1>1. SUFFICES ASSUME FullScanText(file) = UploadText(sample) PROVE FALSE
  OBVIOUS
<1>2. UploadText(sample)[k] = Digit(Nibble(kept, k), "small")
  BY DEF UploadText, HexText
<1>3. UploadText(sample)[k].form \in {"small", "digit"}
  BY <1>2 DEF Digit
<1>4. k \in DOMAIN FullScanText(file)
  BY <1>1
<1>5. FullScanText(file)[k] = Digit(Nibble(file, k), "capital")
  BY <1>4 DEF FullScanText, HexText
<1>6. Nibble(file, k) > 9
  BY <1>1, <1>5 DEF Digit
<1>7. FullScanText(file)[k].form = "capital"
  BY <1>5, <1>6 DEF Digit
<1>. QED
  BY <1>1, <1>3, <1>7

\* A sample with a zero byte is recognised by neither scan: its text is shorter than
\* that of any file's digest (CVirusDefenceDialog.cpp, 175).
THEOREM ZeroByteMisses ==
  ASSUME NEW sample \in Seq(Byte), NEW file \in Seq(Byte), Len(file) = Len(sample),
         NEW z \in DOMAIN sample, sample[z] = 0
  PROVE  UploadText(sample) \notin {FolderScanText(file), FullScanText(file)}
<1> DEFINE n == Len(sample)
           m == Cardinality(Passed(sample))
           kept == SubSeq(sample, 1, m)
<1>1. /\ n \in Nat /\ z \in 1 .. n
      /\ Passed(sample) \subseteq 1 .. n /\ z \notin Passed(sample)
  BY DEF Passed
<1>2. IsFiniteSet(1 .. n) /\ Cardinality(1 .. n) = n
  <2> HIDE DEF n
  <2>. QED
    BY <1>1, FS_Interval, 1 \in Int
<1>3. m \in Nat /\ m < n
  <2> DEFINE passed == Passed(sample)
  <2>1. IsFiniteSet(passed) /\ Cardinality(passed) <= n /\ Cardinality(passed) # n
    BY <1>1, <1>2, FS_Subset
  <2>2. Cardinality(passed) \in Nat
    BY <2>1, FS_CardinalityType
  <2>. QED
    BY <1>1, <2>1, <2>2
<1>4. Len(kept) = m
  BY <1>3
<1>5. /\ DOMAIN UploadText(sample) = 1 .. 2 * m
      /\ DOMAIN FolderScanText(file) = 1 .. 2 * n
      /\ DOMAIN FullScanText(file) = 1 .. 2 * n
  BY <1>4 DEF UploadText, FolderScanText, FullScanText, HexText
<1>6. 2 * n \in 1 .. 2 * n /\ 2 * n \notin 1 .. 2 * m
  BY <1>1, <1>3
<1>. QED
  BY <1>5, <1>6

=============================================================================
