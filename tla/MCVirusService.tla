--------------------------- MODULE MCVirusService ---------------------------
(***************************************************************************)
(* The virus service scaled down: a row is 1 block of text, 1 NUL block and *)
(* 1 block of padding; the client receives 2 rows and 1 block (4 rows and   *)
(* 1 block in the code), the server's buffer takes 3 rows (20).  A type has *)
(* 2 bytes, and the zeros behind an upload's data are as many (148).        *)
(***************************************************************************)
EXTENDS VirusService, SampleText

\* Every sample is plain but "cut", which begins with a one and a zero, so that what
\* follows may be taken for a payload, and "slash" with a backslash in its middle.
MCZeros == {CipherByte(s, 2) : s \in Samples \cap {"cut"}}
MCOnes == {CipherByte(s, 1) : s \in Samples \cap {"cut"}}
MCBackslashes == {CipherByte(s, 2) : s \in Samples \cap {"slash"}}

NoRows == <<>>
OneRow == <<Row("s1")>>
TwoRows == <<Row("s1"), Row("s2")>>

\* The theorems of SampleTextProofs on digests of two bytes.
ShortDigests == [1 .. 2 -> {0, 9, 16, 25, 171, 250}]
HasLetter(text) == \E k \in DOMAIN text : text[k].form # "digit"

ASSUME Recognition ==
  \A sample, file \in ShortDigests :
    /\ (0 \notin {sample[1], sample[2]} => FolderScanText(sample) = UploadText(sample))
    /\ (HasLetter(UploadText(sample)) => FullScanText(file) # UploadText(sample))
    /\ (0 \in {sample[1], sample[2]} =>
          UploadText(sample) \notin {FolderScanText(file), FullScanText(file)})
=============================================================================
