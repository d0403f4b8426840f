----------------------------- MODULE MCFullScan -----------------------------
(***************************************************************************)
(* Small disks for the full scan: several drives with infected files, a     *)
(* file another program holds, a file of 2 GiB, a directory that cannot be  *)
(* listed, and a drive that is missing.                                     *)
(***************************************************************************)
EXTENDS FullScan

MCFiles == {"a", "b", "c", "big", "held"}
MCDigest == [f \in MCFiles |-> CASE f = "a" -> "AA" [] f = "b" -> "BB"
                                  [] f = "c" -> "AA" [] OTHER -> "DD"]
MCNobody == <<"nobody">>

\* An infected file on each drive.
MCWalk == [d \in Drives |->
             CASE d = "C" -> <<"a", "big">>
               [] d = "D" -> <<"Denied", "b">>
               [] OTHER -> <<"held", "c">>]

\* Two infected files on one drive, for runs that open the dialog more than once.
ReopenWalk == [d \in Drives |->
             CASE d = "C" -> <<"a", "held", "c">>
               [] OTHER -> <<"Denied">>]

MCLibrary == <<"AA", "BB">>
TinyLibrary == <<"AA">>
=============================================================================
