----------------------------- MODULE SampleText -----------------------------
(***************************************************************************)
(* The hexadecimal text of a digest, as the upload (CVirusDefenceDialog),   *)
(* the scan of a folder and the full-disk scan write it.  The library holds *)
(* the upload's text and the scans compare theirs with it.                  *)
(***************************************************************************)
EXTENDS Integers, Sequences, FiniteSets

Byte == 0 .. 255

\* %02x and %02X differ in the digits above 9.
Digit(n, letter) == [value |-> n, form |-> IF n > 9 THEN letter ELSE "digit"]

Nibble(digest, k) ==
  IF k % 2 = 1 THEN digest[(k + 1) \div 2] \div 16 ELSE digest[k \div 2] % 16

HexText(digest, letter) == [k \in 1 .. 2 * Len(digest) |-> Digit(Nibble(digest, k), letter)]

FullScanText(digest) == HexText(digest, "capital")
FolderScanText(digest) == HexText(digest, "small")

\* The upload's loop ends at the first zero byte; zeros follow the digest.
Passed(digest) == {k \in 1 .. Len(digest) : \A l \in 1 .. k : digest[l] # 0}

UploadText(digest) == HexText(SubSeq(digest, 1, Cardinality(Passed(digest))), "small")

=============================================================================
